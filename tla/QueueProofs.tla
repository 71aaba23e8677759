----------------------------- MODULE QueueProofs ----------------------------
(***************************************************************************)
(* Proofs about the two queues.  UintQueue, for every set of threads,      *)
(* every size and every index width: the slots of the queue are never      *)
(* overwritten while in use, and push and pop implement the queue of Fifo, *)
(* as long as the indices have not wrapped around.  LockedQueue, for any   *)
(* set of nodes: the linked list is the queue the enqueues and dequeues    *)
(* make of it, whatever was cleared before.                                *)
(***************************************************************************)
EXTENDS UintQueue, LockedQueue, SequenceTheorems, TLAPS

(* The array has at least two slots.                                       *)
LEMMA SizeType == Size \in Nat /\ Size >= 2
  BY QueueAssumption DEF Size

(* Quotient and remainder.                                                 *)
LEMMA DivMod ==
  ASSUME NEW S \in Nat \ {0}, NEW a \in Nat
  PROVE  /\ a % S \in 0 .. S - 1
         /\ a \div S \in Int
         /\ a = S * (a \div S) + (a % S)
  OBVIOUS

(* convert_to_index separates positions that are less than a round apart.  *)
LEMMA ModDistinct ==
  ASSUME NEW S \in Nat \ {0}, NEW a \in Nat, NEW b \in Nat, a < b, b - a < S
  PROVE  a % S # b % S
<1> DEFINE p == a \div S
           q == b \div S
<1>1. /\ a = S * p + (a % S) /\ p \in Int /\ a % S \in Int
      /\ b = S * q + (b % S) /\ q \in Int /\ b % S \in Int
  BY DivMod
<1>2. ASSUME a % S = b % S PROVE FALSE
  <2> HIDE DEF p, q
  <2>1. b - a = S * q - S * p
    BY <1>1, <1>2
  <2>2. S * q - S * p = S * (q - p)
    BY <1>1
  <2>3. q - p >= 1
    <3>1. ASSUME q - p <= 0 PROVE FALSE
      <4>1. S * (q - p) <= 0
        BY <1>1, <3>1
      <4> QED BY <2>1, <2>2, <4>1
    <3> QED BY <3>1, <1>1
  <2>4. S * (q - p) >= S
    BY <2>3, <1>1
  <2> QED BY <2>1, <2>2, <2>4
<1> QED BY <1>2

(* convert_to_index repeats after one round.                               *)
LEMMA ModPeriod ==
  ASSUME NEW S \in Nat \ {0}, NEW a \in Nat
  PROVE  (a + S) % S = a % S
<1> DEFINE b == a + S
           p == a \div S
           q == b \div S
           x == a % S
           y == b % S
<1>2. b \in Nat /\ b = a + S
  OBVIOUS
<1>a. a = S * p + x /\ p \in Int /\ x \in 0 .. S - 1
  BY DivMod
<1>b. b = S * q + y /\ q \in Int /\ y \in 0 .. S - 1
  <2> HIDE DEF b
  <2> QED BY DivMod, <1>2
<1>1. /\ a = S * p + x /\ p \in Int /\ x \in 0 .. S - 1
      /\ b = S * q + y /\ q \in Int /\ y \in 0 .. S - 1
  BY <1>a, <1>b
<1> HIDE DEF b, p, q, x, y
<1> DEFINE d == q - p - 1
<1>3. d \in Int /\ S * d = x - y
  <2>1. S * d = S * q - S * p - S
    BY <1>1
  <2> QED BY <2>1, <1>1, <1>2
<1> HIDE DEF d
<1>4. ~(d >= 1)
  <2>1. d >= 1 => S * d >= S
    BY <1>3
  <2> QED BY <2>1, <1>1, <1>3
<1>5. ~(d <= -1)
  <2>1. d <= -1 => S * d <= -S
    BY <1>3
  <2> QED BY <2>1, <1>1, <1>3
<1>6. d = 0
  BY <1>3, <1>4, <1>5
<1>7. x = y
  BY <1>1, <1>3, <1>6
<1> QED BY <1>7 DEF x, y, b

-----------------------------------------------------------------------------
(* An index plus one, on Wrap values, is an index.                         *)
LEMMA IncType ==
  ASSUME NEW i \in 0 .. Wrap - 1
  PROVE  /\ Inc(i) \in 0 .. Wrap - 1
         /\ i + 1 < Wrap => Inc(i) = i + 1
<1>1. Wrap \in Nat \ {0} /\ i + 1 \in Nat
  BY QueueAssumption
<1>2. Inc(i) \in 0 .. Wrap - 1
  BY <1>1, DivMod DEF Inc
<1>3. i + 1 < Wrap => Inc(i) = i + 1
  BY <1>1 DEF Inc
<1> QED BY <1>2, <1>3

(* A position has a slot.                                                  *)
LEMMA SlotType == \A i \in Nat : Slot(i) \in 0 .. Size - 1
  BY SizeType, DivMod DEF Slot

(* connector_uint_queue_push and connector_uint_queue_pop keep the indices *)
(* within uint32_t and the slots and locals within the elements.           *)
THEOREM UintQueueType == Spec => []TypeOK
<1>1. Init => TypeOK
  <2> SUFFICES ASSUME Init PROVE TypeOK
    OBVIOUS
  <2>1. Wrap >= 1 /\ Wrap \in Nat /\ 0 \in Values
    BY QueueAssumption
  <2>2. NoResult \in [code : Codes, val : Values]
    BY <2>1 DEF NoResult, Codes
  <2> QED BY <2>1, <2>2 DEF Init, TypeOK
<1>2. TypeOK /\ [Next]_vars => TypeOK'
  <2> SUFFICES ASSUME TypeOK, [Next]_vars PROVE TypeOK'
    OBVIOUS
  <2> USE DEF TypeOK, Goto, indices
  <2>0. 0 \in Values /\ Wrap \in Nat \ {0} /\ 0 \in 0 .. Wrap - 1
    BY QueueAssumption
  <2>1. ASSUME NEW t \in Threads, NEW v \in Values, PushCall(t, v) PROVE TypeOK'
    <3>1. NoResult \in [code : Codes, val : Values]
      BY <2>0 DEF NoResult, Codes
    <3> QED BY <2>1, <3>1 DEF PushCall, PushPoints
  <2>2. ASSUME NEW t \in Threads, PopCall(t) PROVE TypeOK'
    <3>1. NoResult \in [code : Codes, val : Values]
      BY <2>0 DEF NoResult, Codes
    <3> QED BY <2>2, <3>1 DEF PopCall, PopPoints
  <2>3. ASSUME NEW t \in Threads, PushLoad(t) PROVE TypeOK'
    BY <2>3 DEF PushLoad, PushPoints
  <2>4. ASSUME NEW t \in Threads, PushRoom(t) PROVE TypeOK'
    BY <2>4 DEF PushRoom, PushPoints
  <2>5. ASSUME NEW t \in Threads, PushFull(t) PROVE TypeOK'
    BY <2>5, <2>0 DEF PushFull, Return, Codes
  <2>6. ASSUME NEW t \in Threads, PushClaim(t) PROVE TypeOK'
    <3>1. Inc(write_index) \in 0 .. Wrap - 1
      BY IncType
    <3> QED BY <2>6, <3>1 DEF PushClaim, PushPoints
  <2>7. ASSUME NEW t \in Threads, PushRetry(t) PROVE TypeOK'
    BY <2>7, <2>0 DEF PushRetry, PushPoints
  <2>8. ASSUME NEW t \in Threads, PushStore(t) PROVE TypeOK'
    BY <2>8 DEF PushStore, PushPoints
  <2>9. ASSUME NEW t \in Threads, PushCommit(t) PROVE TypeOK'
    <3>1. Inc(ticket[t]) \in 0 .. Wrap - 1
      BY IncType
    <3> QED BY <2>9, <2>0, <3>1 DEF PushCommit, Return, Codes
  <2>10. ASSUME NEW t \in Threads, PopLoad(t) PROVE TypeOK'
    BY <2>10 DEF PopLoad, PopPoints
  <2>11. ASSUME NEW t \in Threads, PopReady(t) PROVE TypeOK'
    BY <2>11 DEF PopReady, PopPoints
  <2>12. ASSUME NEW t \in Threads, PopEmpty(t) PROVE TypeOK'
    BY <2>12, <2>0 DEF PopEmpty, Return, Codes
  <2>13. ASSUME NEW t \in Threads, PopRead(t) PROVE TypeOK'
    <3>1. ticket[t] \in Nat
      BY <2>0
    <3>2. array[Slot(ticket[t])] \in Values
      BY <3>1, SlotType
    <3> QED BY <2>13, <3>2 DEF PopRead, PopPoints
  <2>14. ASSUME NEW t \in Threads, PopClaim(t) PROVE TypeOK'
    <3>1. Inc(read_index) \in 0 .. Wrap - 1
      BY IncType
    <3> QED BY <2>14, <2>0, <3>1 DEF PopClaim, Return, Codes
  <2>15. ASSUME NEW t \in Threads, PopRetry(t) PROVE TypeOK'
    BY <2>15, <2>0 DEF PopRetry, PopPoints
  <2>16. CASE UNCHANGED vars
    BY <2>16 DEF vars
  <2> QED
    BY <2>1, <2>2, <2>3, <2>4, <2>5, <2>6, <2>7, <2>8, <2>9, <2>10, <2>11,
       <2>12, <2>13, <2>14, <2>15, <2>16 DEF Next, PushStep, PopStep
<1> QED BY <1>1, <1>2, PTL DEF Spec

-----------------------------------------------------------------------------
(* Two positions of the queue less than a round apart have different       *)
(* slots.                                                                  *)
LEMMA SlotDistinct ==
  ASSUME NEW i \in Nat, NEW j \in Nat, i < j, j - i < Size
  PROVE  Slot(i) # Slot(j)
<1>1. Size \in Nat \ {0}
  BY SizeType
<1>2. i % Size # j % Size
  BY <1>1, ModDistinct, Zenon
<1> QED BY <1>2 DEF Slot

(* The full test, passed by a thread whose local write_index is current,   *)
(* leaves one slot besides the one that always stays empty.                *)
LEMMA RoomLeft ==
  ASSUME TypeOK, NotWrapped, IndexOrder, ~IsFull(write_index, read_index)
  PROVE  write_index - read_index <= Size - 2
<1>1. write_index \in 0 .. Wrap - 1 /\ read_index \in Nat /\ claims \in Nat
  BY QueueAssumption DEF TypeOK
<1>2. Wrap \in Nat /\ write_index + 1 < Wrap
  BY <1>1, QueueAssumption DEF NotWrapped, IndexOrder
<1>3. Inc(write_index) = write_index + 1
  BY <1>1, <1>2, IncType
<1>4. ASSUME write_index - read_index = Size - 1 PROVE FALSE
  <2>1. write_index + 1 = read_index + Size
    BY <1>1, <1>4, SizeType
  <2>2. Slot(read_index + Size) = Slot(read_index)
    <3>1. Size \in Nat \ {0}
      BY SizeType
    <3>2. (read_index + Size) % Size = read_index % Size
      BY <1>1, <3>1, ModPeriod, Zenon
    <3> QED BY <3>2 DEF Slot
  <2> QED BY <1>3, <2>1, <2>2 DEF IsFull
<1> QED BY <1>1, <1>4, SizeType DEF IndexOrder

(* Every claimed and uncommitted ticket keeps its owner: a push gives its   *)
(* ticket up only by committing it.                                        *)
LEMMA HeldStep ==
  ASSUME TypeOK, [Next]_vars, NotWrapped, NotWrapped', IndexOrder, HolderTickets, TicketsHeld
  PROVE  TicketsHeld'
<1>0. /\ Wrap \in Nat \ {0}
      /\ write_index \in 0 .. Wrap - 1
      /\ max_index \in 0 .. Wrap - 1
      /\ ticket \in [Threads -> 0 .. Wrap - 1]
      /\ claims \in Nat
      /\ DOMAIN pc = Threads
  BY QueueAssumption DEF TypeOK
<1>a. ASSUME max_index' = max_index, write_index' = write_index,
             \A u \in Threads : Holds(u) => Holds(u)' /\ ticket'[u] = ticket[u]
      PROVE  TicketsHeld'
  BY <1>a, <1>0 DEF TicketsHeld
<1> USE <1>0 DEF Holds, Goto, indices
<1>1. ASSUME NEW t \in Threads, NEW v \in Values, PushCall(t, v) PROVE TicketsHeld'
  BY <1>1, <1>a DEF PushCall
<1>2. ASSUME NEW t \in Threads, PopCall(t) PROVE TicketsHeld'
  BY <1>2, <1>a DEF PopCall
<1>3. ASSUME NEW t \in Threads, PushLoad(t) PROVE TicketsHeld'
  BY <1>3, <1>a DEF PushLoad
<1>4. ASSUME NEW t \in Threads, PushRoom(t) PROVE TicketsHeld'
  BY <1>4, <1>a DEF PushRoom
<1>5. ASSUME NEW t \in Threads, PushFull(t) PROVE TicketsHeld'
  BY <1>5, <1>a DEF PushFull, Return
<1>6. ASSUME NEW t \in Threads, PushClaim(t) PROVE TicketsHeld'
  <2>1. write_index' = write_index + 1 /\ max_index' = max_index /\ ticket' = ticket
    BY <1>6, IncType DEF PushClaim, NotWrapped, IndexOrder
  <2>2. SUFFICES ASSUME NEW i \in max_index .. write_index
                 PROVE  \E u \in Threads : Holds(u)' /\ ticket[u] = i
    BY <2>1 DEF TicketsHeld
  <2>3. CASE i = write_index
    BY <1>6, <2>3 DEF PushClaim
  <2>4. CASE i # write_index
    <3>1. PICK u \in Threads : Holds(u) /\ ticket[u] = i
      BY <2>4 DEF TicketsHeld
    <3>2. Holds(u)'
      BY <1>6, <3>1 DEF PushClaim
    <3> QED BY <3>1, <3>2
  <2> QED BY <2>3, <2>4
<1>7. ASSUME NEW t \in Threads, PushRetry(t) PROVE TicketsHeld'
  BY <1>7, <1>a DEF PushRetry
<1>8. ASSUME NEW t \in Threads, PushStore(t) PROVE TicketsHeld'
  BY <1>8, <1>a DEF PushStore
<1>9. ASSUME NEW t \in Threads, PushCommit(t) PROVE TicketsHeld'
  <2>1. max_index' = max_index + 1 /\ write_index' = write_index /\ ticket[t] = max_index
    BY <1>9, IncType DEF PushCommit, NotWrapped, IndexOrder
  <2>2. SUFFICES ASSUME NEW i \in max_index + 1 .. write_index - 1
                 PROVE  \E u \in Threads : Holds(u)' /\ ticket'[u] = i
    BY <2>1 DEF TicketsHeld
  <2>3. PICK u \in Threads : Holds(u) /\ ticket[u] = i
    BY DEF TicketsHeld
  <2>4. u # t
    BY <2>1, <2>3
  <2>5. Holds(u)' /\ ticket'[u] = i
    BY <1>9, <2>3, <2>4 DEF PushCommit, Return
  <2> QED BY <2>5
<1>10. ASSUME NEW t \in Threads, PopLoad(t) PROVE TicketsHeld'
  BY <1>10, <1>a DEF PopLoad
<1>11. ASSUME NEW t \in Threads, PopReady(t) PROVE TicketsHeld'
  BY <1>11, <1>a DEF PopReady
<1>12. ASSUME NEW t \in Threads, PopEmpty(t) PROVE TicketsHeld'
  BY <1>12, <1>a DEF PopEmpty, Return
<1>13. ASSUME NEW t \in Threads, PopRead(t) PROVE TicketsHeld'
  BY <1>13, <1>a DEF PopRead
<1>14. ASSUME NEW t \in Threads, PopClaim(t) PROVE TicketsHeld'
  BY <1>14, <1>a DEF PopClaim, Return
<1>15. ASSUME NEW t \in Threads, PopRetry(t) PROVE TicketsHeld'
  BY <1>15, <1>a DEF PopRetry
<1>16. CASE UNCHANGED vars
  BY <1>16, <1>a DEF vars
<1> QED
  BY <1>1, <1>2, <1>3, <1>4, <1>5, <1>6, <1>7, <1>8, <1>9, <1>10, <1>11,
     <1>12, <1>13, <1>14, <1>15, <1>16 DEF Next, PushStep, PopStep

(* Tickets is preserved by every step of push and pop.                     *)
LEMMA TicketsStep == TypeOK /\ Tickets /\ [Next]_vars => Tickets'
<1> SUFFICES ASSUME TypeOK, Tickets, [Next]_vars, NotWrapped' PROVE
             (IndexOrder /\ HolderTickets /\ TicketsHeld /\ PushTickets /\ PopTickets)'
  BY DEF Tickets
<1> DEFINE Goal == (IndexOrder /\ HolderTickets /\ PushTickets /\ PopTickets)'
<1>0. /\ Wrap \in Nat \ {0}
      /\ write_index \in 0 .. Wrap - 1
      /\ read_index \in 0 .. Wrap - 1
      /\ max_index \in 0 .. Wrap - 1
      /\ ticket \in [Threads -> 0 .. Wrap - 1]
      /\ elem \in [Threads -> Values]
      /\ array \in [0 .. Size - 1 -> Values]
      /\ claims \in Nat
      /\ DOMAIN pc = Threads
      /\ Size \in Nat /\ Size >= 2
  BY QueueAssumption, SizeType DEF TypeOK
<1>00. /\ claims <= claims'
       /\ NotWrapped
  <2>1. claims' = claims \/ claims' = claims + 1
    BY DEF Next, PushStep, PopStep, PushCall, PopCall, PushLoad, PushRoom, PushFull, PushClaim,
           PushRetry, PushStore, PushCommit, PopLoad, PopReady, PopEmpty, PopRead,
           PopClaim, PopRetry, indices, vars
  <2> QED BY <2>1, <1>0 DEF NotWrapped
<1>01. IndexOrder /\ HolderTickets /\ PushTickets /\ PopTickets
  BY <1>00 DEF Tickets
<1>02. TicketsHeld'
  BY <1>00, <1>01, HeldStep DEF Tickets
<1> USE <1>0, <1>01 DEF IndexOrder, HolderTickets, PushTickets, PopTickets, Holds, Goto, indices
<1>1. ASSUME NEW t \in Threads, NEW v \in Values, PushCall(t, v) PROVE Goal
  BY <1>1 DEF PushCall
<1>2. ASSUME NEW t \in Threads, PopCall(t) PROVE Goal
  BY <1>2 DEF PopCall
<1>3. ASSUME NEW t \in Threads, PushLoad(t) PROVE Goal
  BY <1>3 DEF PushLoad
<1>4. ASSUME NEW t \in Threads, PushRoom(t) PROVE Goal
  <2>1. ticket[t] = write_index => write_index - read_index <= Size - 2
    BY <1>4, <1>00, RoomLeft DEF PushRoom
  <2> QED BY <1>4, <2>1 DEF PushRoom
<1>5. ASSUME NEW t \in Threads, PushFull(t) PROVE Goal
  BY <1>5 DEF PushFull, Return
<1>6. ASSUME NEW t \in Threads, PushClaim(t) PROVE Goal
  <2>1. write_index' = write_index + 1
    BY <1>6, <1>00, IncType DEF PushClaim, NotWrapped
  <2>2. write_index' - read_index' <= Size - 1
    BY <1>6, <2>1 DEF PushClaim
  <2>3. IndexOrder'
    <3>1. claims' = claims + 1 /\ read_index' = read_index /\ max_index' = max_index
      BY <1>6 DEF PushClaim
    <3> QED BY <2>1, <2>2, <3>1
  <2>6. PopTickets'
    BY <1>6 DEF PushClaim
  <2>4. PushTickets'
    BY <1>6, <2>1 DEF PushClaim
  <2>5. HolderTickets'
    BY <1>6, <2>1 DEF PushClaim
  <2> QED BY <2>3, <2>4, <2>5, <2>6
<1>7. ASSUME NEW t \in Threads, PushRetry(t) PROVE Goal
  BY <1>7 DEF PushRetry
<1>8. ASSUME NEW t \in Threads, PushStore(t) PROVE Goal
  <2>1. ASSUME NEW u \in Threads, pc[u] = "pop_claim", ticket[u] = read_index
        PROVE  Slot(ticket[u]) # Slot(ticket[t])
    <3>1. ticket[u] < ticket[t] /\ ticket[t] - ticket[u] < Size
      BY <1>8, <2>1 DEF PushStore
    <3> QED BY <3>1, SlotDistinct
  <2>2. /\ IndexOrder' /\ HolderTickets' /\ PushTickets'
    BY <1>8 DEF PushStore
  <2>3. ASSUME NEW u \in Threads, pc[u] = "pop_claim", ticket[u] = read_index
        PROVE  array'[Slot(ticket[u])] = array[Slot(ticket[u])]
    <3>1. ticket[u] \in Nat /\ ticket[t] \in Nat
      OBVIOUS
    <3>2. Slot(ticket[u]) \in 0 .. Size - 1 /\ Slot(ticket[t]) \in 0 .. Size - 1
      BY <3>1, SlotType
    <3> QED BY <1>8, <2>1, <2>3, <3>2 DEF PushStore
  <2>4. PopTickets'
    BY <1>8, <2>3 DEF PushStore
  <2> QED BY <2>2, <2>4
<1>9. ASSUME NEW t \in Threads, PushCommit(t) PROVE Goal
  <2>1. max_index' = max_index + 1
    BY <1>9, <1>00, IncType DEF PushCommit, NotWrapped
  <2>2. ASSUME NEW u \in Threads \ {t}, Holds(u) PROVE ticket[u] >= max_index + 1
    BY <1>9, <2>2 DEF PushCommit, Return
  <2> QED BY <1>9, <2>1, <2>2 DEF PushCommit, Return
<1>10. ASSUME NEW t \in Threads, PopLoad(t) PROVE Goal
  BY <1>10 DEF PopLoad
<1>11. ASSUME NEW t \in Threads, PopReady(t) PROVE Goal
  BY <1>11 DEF PopReady, IsEmpty
<1>12. ASSUME NEW t \in Threads, PopEmpty(t) PROVE Goal
  BY <1>12 DEF PopEmpty, Return
<1>13. ASSUME NEW t \in Threads, PopRead(t) PROVE Goal
  BY <1>13 DEF PopRead
<1>14. ASSUME NEW t \in Threads, PopClaim(t) PROVE Goal
  <2>1. read_index' = read_index + 1
    BY <1>14, <1>00, IncType DEF PopClaim, NotWrapped
  <2> QED BY <1>14, <2>1 DEF PopClaim, Return
<1>15. ASSUME NEW t \in Threads, PopRetry(t) PROVE Goal
  BY <1>15 DEF PopRetry
<1>16. ASSUME UNCHANGED vars PROVE Goal
  BY <1>16 DEF vars
<1>17. Goal
  BY <1>1, <1>2, <1>3, <1>4, <1>5, <1>6, <1>7, <1>8, <1>9, <1>10, <1>11,
     <1>12, <1>13, <1>14, <1>15, <1>16 DEF Next, PushStep, PopStep
<1> QED BY <1>02, <1>17

(* A successful exchange of push or pop acts on indices that are still     *)
(* right, for every number of threads and every size.                      *)
THEOREM UintQueueTickets == Spec => []Tickets
<1>1. Init => Tickets
  <2> SUFFICES ASSUME Init
               PROVE  IndexOrder /\ HolderTickets /\ TicketsHeld /\ PushTickets /\ PopTickets
    BY DEF Tickets
  <2> QED BY SizeType DEF Init, IndexOrder, HolderTickets, TicketsHeld, PushTickets, PopTickets, Holds
<1>2. TypeOK /\ Tickets /\ [Next]_vars => Tickets'
  BY TicketsStep
<1> QED BY <1>1, <1>2, UintQueueType, PTL DEF Spec

(* Positions held, and positions committed, lie less than a round apart.   *)
LEMMA TicketsApart == TypeOK /\ Tickets /\ NotWrapped => NoOverwrite
<1> SUFFICES ASSUME TypeOK, IndexOrder, HolderTickets, NEW t \in Threads, Holds(t)
             PROVE  /\ \A i \in read_index .. max_index - 1 : Slot(i) # Slot(ticket[t])
                    /\ \A u \in Threads \ {t} : Holds(u) => Slot(ticket[u]) # Slot(ticket[t])
  BY DEF Tickets, NoOverwrite
<1>1. /\ write_index \in Nat /\ read_index \in Nat /\ max_index \in Nat
      /\ \A u \in Threads : ticket[u] \in Nat
      /\ Size \in Nat
  BY QueueAssumption, SizeType DEF TypeOK
<1>2. ASSUME NEW i \in read_index .. max_index - 1 PROVE Slot(i) # Slot(ticket[t])
  <2>1. i \in Nat /\ i < ticket[t] /\ ticket[t] - i < Size
    BY <1>1 DEF IndexOrder, HolderTickets
  <2> QED BY <2>1, <1>1, SlotDistinct
<1>3. ASSUME NEW u \in Threads \ {t}, Holds(u) PROVE Slot(ticket[u]) # Slot(ticket[t])
  <2>1. /\ ticket[u] # ticket[t]
        /\ ticket[u] - ticket[t] < Size /\ ticket[t] - ticket[u] < Size
    BY <1>1, <1>3 DEF IndexOrder, HolderTickets
  <2>2. CASE ticket[u] < ticket[t]
    BY <2>1, <2>2, <1>1, SlotDistinct
  <2>3. CASE ticket[t] < ticket[u]
    BY <2>1, <2>3, <1>1, SlotDistinct
  <2> QED BY <2>1, <2>2, <2>3, <1>1
<1> QED BY <1>2, <1>3

(* Until the indices wrap around, no push writes a slot that another push  *)
(* is writing or whose element has not been popped.                        *)
THEOREM UintQueueNoOverwrite == Spec => [](NotWrapped => NoOverwrite)
  BY TicketsApart, UintQueueType, UintQueueTickets, PTL

(* Until the indices wrap around, a push that spins on max_index waits for *)
(* a thread that owns the ticket whose turn it is.                         *)
THEOREM UintQueueSpinHasOwner == Spec => []SpinHasOwner
<1>1. TypeOK /\ Tickets => SpinHasOwner
  <2> SUFFICES ASSUME TypeOK, HolderTickets, TicketsHeld, NEW t \in Threads, Holds(t)
               PROVE  \E u \in Threads : Holds(u) /\ ticket[u] = max_index
    BY DEF Tickets, SpinHasOwner
  <2>1. max_index \in max_index .. write_index - 1
    BY QueueAssumption DEF TypeOK, HolderTickets
  <2> QED BY <2>1 DEF TicketsHeld
<1> QED BY <1>1, UintQueueType, UintQueueTickets, PTL

-----------------------------------------------------------------------------
(* The full test fires, from a current index, only when every slot but one *)
(* is taken.                                                               *)
LEMMA FullIsFull ==
  ASSUME TypeOK, NotWrapped, IndexOrder, IsFull(write_index, read_index)
  PROVE  Occupancy = Size - 1
<1>1. write_index \in 0 .. Wrap - 1 /\ read_index \in Nat /\ claims \in Nat /\ max_index \in Nat
  BY QueueAssumption DEF TypeOK
<1>2. Wrap \in Nat /\ write_index + 1 < Wrap
  BY <1>1, QueueAssumption DEF NotWrapped, IndexOrder
<1>3. Inc(write_index) = write_index + 1
  BY <1>1, <1>2, IncType
<1>4. ASSUME write_index - read_index # Size - 1 PROVE FALSE
  <2>1. /\ write_index + 1 \in Nat /\ read_index < write_index + 1
        /\ (write_index + 1) - read_index < Size
    BY <1>1, <1>4, SizeType DEF IndexOrder
  <2>2. Slot(read_index) # Slot(write_index + 1)
    BY <1>1, <2>1, SlotDistinct
  <2> QED BY <1>3, <2>2 DEF IsFull
<1> QED BY <1>4 DEF Occupancy

(* The empty test fires, from a current index, only when nothing is        *)
(* committed.                                                              *)
LEMMA EmptyIsEmpty ==
  ASSUME TypeOK, NotWrapped, IndexOrder, IsEmpty(read_index, max_index)
  PROVE  read_index = max_index
<1>1. write_index \in Nat /\ read_index \in Nat /\ max_index \in Nat
  BY QueueAssumption DEF TypeOK
<1>2. ASSUME read_index # max_index PROVE FALSE
  <2>1. read_index < max_index /\ max_index - read_index < Size
    BY <1>1, <1>2, SizeType DEF IndexOrder
  <2>2. Slot(read_index) # Slot(max_index)
    BY <1>1, <2>1, SlotDistinct
  <2> QED BY <2>2 DEF IsEmpty
<1> QED BY <1>2

(* Until the indices wrap around, push answers full and pop answers empty  *)
(* only when that is so or when the index they started from is stale.      *)
THEOREM UintQueueErrors == Spec /\ []NotWrapped => ErrorsAreFullEmptyOrStale
<1>1. TypeOK /\ Tickets /\ NotWrapped /\ [Next]_vars =>
        [\A t \in Threads :
          /\ PushFull(t) => ticket[t] # write_index \/ Occupancy = Size - 1
          /\ PopEmpty(t) => ticket[t] # read_index \/ read_index = max_index]_vars
  <2> SUFFICES ASSUME TypeOK, IndexOrder, NotWrapped, NEW t \in Threads
               PROVE  /\ PushFull(t) => ticket[t] # write_index \/ Occupancy = Size - 1
                      /\ PopEmpty(t) => ticket[t] # read_index \/ read_index = max_index
    BY DEF Tickets
  <2>1. PushFull(t) /\ ticket[t] = write_index => Occupancy = Size - 1
    BY FullIsFull DEF PushFull
  <2>2. PopEmpty(t) /\ ticket[t] = read_index => read_index = max_index
    BY EmptyIsEmpty DEF PopEmpty
  <2> QED BY <2>1, <2>2
<1> QED BY <1>1, UintQueueType, UintQueueTickets, PTL DEF Spec, ErrorsAreFullEmptyOrStale

-----------------------------------------------------------------------------
(* What a push has stored stays in its slot until it commits: the part of  *)
(* the refinement that Tickets does not say.                               *)
Stored == \A t \in Threads : pc[t] = "push_commit" => array[Slot(ticket[t])] = elem[t]

LEMMA StoredStep == TypeOK /\ Tickets /\ NotWrapped /\ Stored /\ [Next]_vars => Stored'
<1> SUFFICES ASSUME TypeOK, Tickets, NotWrapped, Stored, [Next]_vars PROVE Stored'
  OBVIOUS
<1>0. /\ ticket \in [Threads -> 0 .. Wrap - 1] /\ elem \in [Threads -> Values]
      /\ array \in [0 .. Size - 1 -> Values] /\ DOMAIN pc = Threads
      /\ Wrap \in Nat \ {0}
  BY QueueAssumption DEF TypeOK
<1>s. \A t \in Threads : Slot(ticket[t]) \in 0 .. Size - 1
  <2>1. \A t \in Threads : ticket[t] \in Nat
    BY <1>0
  <2> QED BY <2>1, SlotType
<1>1. ASSUME NEW t \in Threads, PushStore(t) PROVE Stored'
  <2>1. ASSUME NEW u \in Threads, u # t, pc[u] = "push_commit"
        PROVE  Slot(ticket[u]) # Slot(ticket[t])
    <3>1. NoOverwrite
      BY TicketsApart
    <3> QED BY <1>1, <2>1, <3>1 DEF NoOverwrite, Holds, PushStore, Goto
  <2> QED BY <1>0, <1>s, <1>1, <2>1 DEF PushStore, Goto, Stored
<1>2. ASSUME array' = array, NEW t \in Threads, pc'[t] # "push_commit",
             \A u \in Threads : u # t => pc'[u] = pc[u] /\ ticket'[u] = ticket[u] /\ elem'[u] = elem[u]
      PROVE  Stored'
  BY <1>2 DEF Stored
<1> USE <1>0 DEF Goto, Return, indices
<1>3. ASSUME NEW t \in Threads, NEW v \in Values, PushCall(t, v) PROVE Stored'
  BY <1>3, <1>2 DEF PushCall
<1>4. ASSUME NEW t \in Threads, PopCall(t) PROVE Stored'
  BY <1>4, <1>2 DEF PopCall
<1>5. ASSUME NEW t \in Threads, PushLoad(t) \/ PushRoom(t) \/ PushFull(t) \/ PushClaim(t) \/ PushRetry(t)
      PROVE  Stored'
  BY <1>5, <1>2 DEF PushLoad, PushRoom, PushFull, PushClaim, PushRetry
<1>6. ASSUME NEW t \in Threads, PushCommit(t) PROVE Stored'
  BY <1>6, <1>2 DEF PushCommit
<1>7. ASSUME NEW t \in Threads, PopStep(t) PROVE Stored'
  BY <1>7, <1>2 DEF PopStep, PopLoad, PopReady, PopEmpty, PopRead, PopClaim, PopRetry
<1>8. CASE UNCHANGED vars
  BY <1>8 DEF vars, Stored
<1> QED BY <1>1, <1>3, <1>4, <1>5, <1>6, <1>7, <1>8 DEF Next, PushStep

(* A function on an initial segment is a sequence.                         *)
LEMMA AsSeq ==
  ASSUME NEW S, NEW n \in Nat, NEW f \in [1 .. n -> S]
  PROVE  f \in Seq(S) /\ Len(f) = n
<1>1. f \in Seq(S)
  BY SeqDef
<1>2. Len(f) \in Nat /\ DOMAIN f = 1 .. Len(f) /\ DOMAIN f = 1 .. n
  BY <1>1, LenProperties
<1> QED BY <1>1, <1>2

(* The slots of consecutive positions make a sequence of elements.         *)
LEMMA Segment ==
  ASSUME NEW r \in Nat, NEW m \in Nat, r <= m, NEW a \in [0 .. Size - 1 -> Values]
  PROVE  LET q == [i \in 1 .. m - r |-> a[Slot(r + i - 1)]]
         IN  q \in Seq(Values) /\ Len(q) = m - r
<1> DEFINE q == [i \in 1 .. m - r |-> a[Slot(r + i - 1)]]
<1>1. ASSUME NEW i \in 1 .. m - r PROVE a[Slot(r + i - 1)] \in Values
  <2>1. r + i - 1 \in Nat
    OBVIOUS
  <2> QED BY <2>1, SlotType
<1>2. q \in [1 .. m - r -> Values] /\ m - r \in Nat
  BY <1>1
<1> HIDE DEF q
<1>3. q \in Seq(Values) /\ Len(q) = m - r
  BY <1>2, AsSeq
<1> QED BY <1>3 DEF q

LEMMA CommittedType ==
  ASSUME TypeOK, IndexOrder
  PROVE  /\ Committed \in Seq(Values) /\ Len(Committed) = max_index - read_index
         /\ \A i \in 1 .. max_index - read_index : Committed[i] = array[Slot(read_index + i - 1)]
<1>1. read_index \in Nat /\ max_index \in Nat /\ read_index <= max_index /\ array \in [0 .. Size - 1 -> Values]
  BY QueueAssumption DEF TypeOK, IndexOrder
<1>2. Committed \in Seq(Values) /\ Len(Committed) = max_index - read_index
  BY <1>1, Segment DEF Committed
<1> QED BY <1>2 DEF Committed

LEMMA CommittedAfter ==
  ASSUME TypeOK', IndexOrder'
  PROVE  /\ Committed' \in Seq(Values) /\ Len(Committed') = max_index' - read_index'
         /\ \A i \in 1 .. max_index' - read_index' : Committed'[i] = array'[Slot(read_index' + i - 1)]
<1>1. /\ read_index' \in Nat /\ max_index' \in Nat /\ read_index' <= max_index'
      /\ array' \in [0 .. Size - 1 -> Values]
  BY QueueAssumption DEF TypeOK, IndexOrder
<1>2. Committed' \in Seq(Values) /\ Len(Committed') = max_index' - read_index'
  BY <1>1, Segment DEF Committed
<1> QED BY <1>2 DEF Committed

(* The exchange on max_index appends the element of the push.              *)
LEMMA CommitAppends ==
  ASSUME TypeOK, TypeOK', NotWrapped, IndexOrder, IndexOrder', HolderTickets, Stored,
         NEW t \in Threads, PushCommit(t)
  PROVE  Committed' = Append(Committed, elem[t]) /\ Len(Committed) < Size - 1
<1>1. /\ read_index \in Nat /\ max_index \in Nat /\ write_index \in Nat /\ max_index \in 0 .. Wrap - 1
      /\ Wrap \in Nat /\ claims \in Nat /\ Size \in Nat /\ elem[t] \in Values
  BY QueueAssumption, SizeType DEF TypeOK
<1>2. max_index = ticket[t] /\ max_index < write_index /\ array[Slot(max_index)] = elem[t]
  BY DEF PushCommit, Return, Goto, HolderTickets, Holds, Stored
<1>3. max_index' = max_index + 1 /\ read_index' = read_index /\ array' = array
  BY <1>1, <1>2, IncType DEF PushCommit, NotWrapped, IndexOrder
<1> DEFINE n == max_index - read_index
<1>4. n \in Nat /\ n < Size - 1
  BY <1>1, <1>2 DEF IndexOrder
<1>5. /\ Committed \in Seq(Values) /\ Len(Committed) = n
      /\ \A i \in 1 .. n : Committed[i] = array[Slot(read_index + i - 1)]
  BY CommittedType
<1>6. Committed' = [i \in 1 .. (max_index + 1) - read_index |-> array[Slot(read_index + i - 1)]]
  BY <1>3 DEF Committed
<1>7. Committed' = [i \in 1 .. n + 1 |-> array[Slot(read_index + i - 1)]]
  BY <1>1, <1>6
<1>8. Append(Committed, elem[t]) = [i \in 1 .. n + 1 |-> IF i = n + 1 THEN elem[t] ELSE Committed[i]]
  BY <1>5
<1>9. ASSUME NEW i \in 1 .. n + 1
      PROVE  array[Slot(read_index + i - 1)] = IF i = n + 1 THEN elem[t] ELSE Committed[i]
  <2>1. CASE i = n + 1
    <3>1. read_index + i - 1 = max_index
      BY <1>1, <2>1
    <3> QED BY <1>2, <2>1, <3>1
  <2>2. CASE i # n + 1
    <3>1. i \in 1 .. n
      BY <1>4, <2>2
    <3> QED BY <1>5, <2>2, <3>1
  <2> QED BY <2>1, <2>2
<1>10. Committed' = Append(Committed, elem[t])
  BY <1>7, <1>8, <1>9
<1> QED BY <1>4, <1>5, <1>10

(* The exchange on read_index takes the oldest element, which the pop has  *)
(* read before it.                                                         *)
LEMMA ClaimTakes ==
  ASSUME TypeOK, TypeOK', NotWrapped, IndexOrder, IndexOrder', PopTickets,
         NEW t \in Threads, PopClaim(t)
  PROVE  Committed # <<>> /\ Committed' = Tail(Committed) /\ Head(Committed) = elem[t]
<1>1. /\ read_index \in Nat /\ max_index \in Nat /\ write_index \in Nat /\ read_index \in 0 .. Wrap - 1
      /\ Wrap \in Nat /\ claims \in Nat
  BY QueueAssumption DEF TypeOK
<1>2. read_index = ticket[t] /\ read_index < max_index /\ elem[t] = array[Slot(read_index)]
  BY DEF PopClaim, Return, Goto, PopTickets
<1>3. read_index' = read_index + 1 /\ max_index' = max_index /\ array' = array
  BY <1>1, <1>2, IncType DEF PopClaim, NotWrapped, IndexOrder
<1> DEFINE n == max_index - read_index
<1>4. n \in Nat /\ n >= 1
  BY <1>1, <1>2
<1>5. /\ Committed \in Seq(Values) /\ Len(Committed) = n
      /\ \A i \in 1 .. n : Committed[i] = array[Slot(read_index + i - 1)]
  BY CommittedType
<1>6. /\ Committed' \in Seq(Values) /\ Len(Committed') = max_index - (read_index + 1)
      /\ \A i \in 1 .. max_index - (read_index + 1) :
            Committed'[i] = array[Slot((read_index + 1) + i - 1)]
  BY <1>3, CommittedAfter
<1>7. Len(Committed') = n - 1 /\ \A i \in 1 .. n - 1 : Committed'[i] = array[Slot((read_index + 1) + i - 1)]
  BY <1>1, <1>6
<1>8. /\ Committed # <<>> /\ Head(Committed) = Committed[1]
      /\ Tail(Committed) \in Seq(Values) /\ Len(Tail(Committed)) = n - 1
      /\ \A i \in 1 .. n - 1 : Tail(Committed)[i] = Committed[i + 1]
  <2>1. Committed # <<>>
    BY <1>4, <1>5, EmptySeq
  <2> QED BY <1>5, <2>1, HeadTailProperties
<1>9. ASSUME NEW i \in 1 .. n - 1
      PROVE  Committed'[i] = Tail(Committed)[i]
  <2>1. i + 1 \in 1 .. n /\ (read_index + 1) + i - 1 = read_index + (i + 1) - 1
    BY <1>1, <1>4
  <2> QED BY <1>5, <1>7, <1>8, <2>1
<1>10. Committed' = Tail(Committed)
  BY <1>6, <1>7, <1>8, <1>9, SeqEqual
<1>11. Head(Committed) = elem[t]
  <2>1. 1 \in 1 .. n /\ read_index + 1 - 1 = read_index
    BY <1>1, <1>4
  <2> QED BY <1>2, <1>5, <1>8, <2>1
<1> QED BY <1>8, <1>10, <1>11

(* A push stores into a slot of no committed element.                      *)
LEMMA StoreKeeps ==
  ASSUME TypeOK, Tickets, NotWrapped, NEW t \in Threads, PushStore(t)
  PROVE  Committed' = Committed
<1>1. /\ array' = [array EXCEPT ![Slot(ticket[t])] = elem[t]]
      /\ read_index' = read_index /\ max_index' = max_index /\ Holds(t)
  BY DEF PushStore, indices, Goto, Holds
<1>2. read_index \in Nat /\ max_index \in Nat /\ array \in [0 .. Size - 1 -> Values]
  BY QueueAssumption DEF TypeOK
<1>3. ASSUME NEW i \in 1 .. max_index - read_index
      PROVE  array'[Slot(read_index + i - 1)] = array[Slot(read_index + i - 1)]
  <2>1. read_index + i - 1 \in read_index .. max_index - 1 /\ read_index + i - 1 \in Nat
    BY <1>2
  <2>2. Slot(read_index + i - 1) # Slot(ticket[t])
    BY <1>1, <2>1, TicketsApart DEF NoOverwrite
  <2>3. Slot(read_index + i - 1) \in 0 .. Size - 1
    BY <2>1, SlotType
  <2> QED BY <1>1, <1>2, <2>2, <2>3
<1> QED BY <1>1, <1>3 DEF Committed

(* The call a thread is in, by the point it is at.                         *)
LEMMA Kinds ==
  ASSUME NEW t \in Threads
  PROVE  /\ pc[t] \in PushPoints => Kind(t) = "push"
         /\ pc[t] \in PopPoints => Kind(t) = "pop"
         /\ pc[t] = "idle" => Kind(t) = "idle"
  BY DEF Kind, PushPoints, PopPoints

(* Every step of push and pop is a step of the queue of Fifo or changes    *)
(* nothing that it knows of.                                               *)
LEMMA FifoStep ==
  ASSUME TypeOK, TypeOK', Tickets, Tickets', Stored, NotWrapped, NotWrapped', [Next]_vars
  PROVE  [F!Next]_(F!vars)
<1> DEFINE Ops == [t \in Threads |-> Kind(t)]
           Args == [t \in Threads |-> IF pc[t] \in PushPoints THEN elem[t] ELSE 0]
<1>0. /\ pc \in [Threads -> {"idle"} \cup PushPoints \cup PopPoints]
      /\ elem \in [Threads -> Values] /\ result \in [Threads -> [code : Codes, val : Values]]
  BY DEF TypeOK
<1>i. /\ IndexOrder /\ HolderTickets /\ PopTickets /\ IndexOrder'
  BY DEF Tickets
<1>k. \A t \in Threads : /\ pc[t] \in PushPoints => Kind(t) = "push"
                         /\ pc[t] \in PopPoints => Kind(t) = "pop"
                         /\ pc[t] = "idle" => Kind(t) = "idle"
                         /\ pc'[t] \in PushPoints => Kind(t)' = "push"
                         /\ pc'[t] \in PopPoints => Kind(t)' = "pop"
                         /\ pc'[t] = "idle" => Kind(t)' = "idle"
                         /\ pc'[t] = pc[t] => Kind(t)' = Kind(t)
  BY DEF Kind, PushPoints, PopPoints
(* A step of one thread that neither calls nor returns.                    *)
<1>1. ASSUME NEW t \in Threads, NEW to, pc' = [pc EXCEPT ![t] = to], UNCHANGED result,
             Committed' = Committed,
             \A u \in Threads : u # t => elem'[u] = elem[u],
             \/ pc[t] \in PushPoints /\ to \in PushPoints /\ elem'[t] = elem[t]
             \/ pc[t] \in PopPoints /\ to \in PopPoints
      PROVE  UNCHANGED F!vars
  <2>1. \A u \in Threads : pc'[u] = IF u = t THEN to ELSE pc[u]
    BY <1>0, <1>1
  <2>2. Ops' = Ops
    BY <1>k, <1>1, <2>1
  <2>3. \A u \in Threads : (IF pc'[u] \in PushPoints THEN elem'[u] ELSE 0)
                             = (IF pc[u] \in PushPoints THEN elem[u] ELSE 0)
    BY <1>1, <2>1 DEF PushPoints, PopPoints
  <2>4. Args' = Args
    BY <2>3
  <2> QED BY <1>1, <2>2, <2>4 DEF F!vars
(* A step in which a thread returns.                                       *)
<1>2. ASSUME NEW t \in Threads, NEW from, NEW code, NEW val, Return(t, from, code, val)
      PROVE  F!Return(t, code, val)
  <2>1. \A u \in Threads : pc'[u] = (IF u = t THEN "idle" ELSE pc[u]) /\ (u # t => elem'[u] = elem[u])
    BY <1>0, <1>2 DEF Return, Goto
  <2>2. Ops' = [Ops EXCEPT ![t] = "idle"]
    BY <1>k, <2>1
  <2>3. Args' = [Args EXCEPT ![t] = 0]
    BY <2>1 DEF PushPoints
  <2> QED BY <1>2, <2>2, <2>3 DEF F!Return, Return
<1>c. ASSUME UNCHANGED <<read_index, max_index, array>>
      PROVE  Committed' = Committed
  BY <1>c DEF Committed
<1>3. ASSUME NEW t \in Threads, NEW v \in Values, PushCall(t, v) PROVE F!Call(t, "push", v)
  <2>1. /\ pc[t] = "idle" /\ UNCHANGED <<read_index, max_index, array>>
        /\ \A u \in Threads : /\ pc'[u] = IF u = t THEN "push_load" ELSE pc[u]
                              /\ elem'[u] = IF u = t THEN v ELSE elem[u]
    BY <1>0, <1>3 DEF PushCall, Goto, indices
  <2>2. Ops' = [Ops EXCEPT ![t] = "push"] /\ Ops[t] = "idle"
    BY <1>k, <2>1 DEF PushPoints
  <2>3. Args' = [Args EXCEPT ![t] = v]
    BY <2>1 DEF PushPoints
  <2>4. result' = [result EXCEPT ![t] = F!NoAnswer]
    BY <1>3 DEF PushCall, NoResult, F!NoAnswer
  <2> QED BY <1>c, <2>1, <2>2, <2>3, <2>4 DEF F!Call
<1>4. ASSUME NEW t \in Threads, PopCall(t) PROVE F!Call(t, "pop", 0)
  <2>1. /\ pc[t] = "idle" /\ UNCHANGED <<read_index, max_index, array>>
        /\ \A u \in Threads : /\ pc'[u] = IF u = t THEN "pop_load" ELSE pc[u]
                              /\ elem'[u] = elem[u]
    BY <1>0, <1>4 DEF PopCall, Goto, indices
  <2>2. Ops' = [Ops EXCEPT ![t] = "pop"] /\ Ops[t] = "idle"
    BY <1>k, <2>1 DEF PopPoints
  <2>3. Args' = [Args EXCEPT ![t] = 0]
    BY <2>1 DEF PushPoints
  <2>4. result' = [result EXCEPT ![t] = F!NoAnswer]
    BY <1>4 DEF PopCall, NoResult, F!NoAnswer
  <2> QED BY <1>c, <2>1, <2>2, <2>3, <2>4 DEF F!Call
<1>5. ASSUME NEW t \in Threads, PushCommit(t) PROVE F!Enqueue(t)
  <2>1. Committed' = Append(Committed, elem[t]) /\ Len(Committed) < Size - 1
    BY <1>5, <1>i, CommitAppends
  <2>2. pc[t] \in PushPoints /\ Ops[t] = "push" /\ Args[t] = elem[t]
    BY <1>5, <1>k DEF PushCommit, Return, Goto, PushPoints
  <2>3. F!Return(t, "success", 0)
    BY <1>2, <1>5 DEF PushCommit
  <2> QED BY <2>1, <2>2, <2>3 DEF F!Enqueue
<1>6. ASSUME NEW t \in Threads, PopClaim(t) PROVE F!Dequeue(t)
  <2>1. Committed # <<>> /\ Committed' = Tail(Committed) /\ Head(Committed) = elem[t]
    BY <1>6, <1>i, ClaimTakes
  <2>2. Ops[t] = "pop"
    BY <1>6, <1>k DEF PopClaim, Return, Goto, PopPoints
  <2>3. PICK e : e = elem[t]
    OBVIOUS
  <2>4. Return(t, "pop_claim", "success", e)
    BY <1>6, <2>3 DEF PopClaim, Return
  <2>5. F!Return(t, "success", e)
    BY <1>2, <2>4
  <2> QED BY <2>1, <2>2, <2>3, <2>5 DEF F!Dequeue, F!Return
<1>7. ASSUME NEW t \in Threads, PushFull(t) \/ PopEmpty(t) PROVE F!Refuse(t)
  <2>1. Committed' = Committed
    BY <1>7, <1>c DEF PushFull, PopEmpty, indices
  <2>2. Ops[t] # "idle"
    BY <1>7, <1>k DEF PushFull, PopEmpty, Return, Goto, PushPoints, PopPoints
  <2>3. F!Return(t, "error", 0)
    BY <1>2, <1>7 DEF PushFull, PopEmpty
  <2> QED BY <2>1, <2>2, <2>3 DEF F!Refuse
<1>8. ASSUME NEW t \in Threads, PushStore(t) PROVE UNCHANGED F!vars
  <2>1. Committed' = Committed
    BY <1>8, StoreKeeps
  <2> QED BY <1>1, <1>8, <2>1 DEF PushStore, Goto, PushPoints
<1>9. ASSUME NEW t \in Threads, PushLoad(t) \/ PushRoom(t) \/ PushClaim(t) \/ PushRetry(t)
      PROVE  UNCHANGED F!vars
  <2>1. PICK to \in PushPoints : pc' = [pc EXCEPT ![t] = to]
    BY <1>9 DEF PushLoad, PushRoom, PushClaim, PushRetry, Goto, PushPoints
  <2>2. pc[t] \in PushPoints /\ UNCHANGED <<result, elem, read_index, max_index, array>>
    BY <1>9 DEF PushLoad, PushRoom, PushClaim, PushRetry, Goto, PushPoints, indices
  <2> QED BY <1>1, <1>c, <2>1, <2>2
<1>10. ASSUME NEW t \in Threads, PopLoad(t) \/ PopReady(t) \/ PopRead(t) \/ PopRetry(t)
       PROVE  UNCHANGED F!vars
  <2>1. PICK to \in PopPoints : pc' = [pc EXCEPT ![t] = to]
    BY <1>10 DEF PopLoad, PopReady, PopRead, PopRetry, Goto, PopPoints
  <2>2. pc[t] \in PopPoints /\ UNCHANGED <<result, read_index, max_index, array>>
    BY <1>10 DEF PopLoad, PopReady, PopRead, PopRetry, Goto, PopPoints, indices
  <2>3. \A u \in Threads : u # t => elem'[u] = elem[u]
    BY <1>0, <1>10 DEF PopLoad, PopReady, PopRead, PopRetry
  <2> QED BY <1>1, <1>c, <2>1, <2>2, <2>3
<1>11. ASSUME UNCHANGED vars PROVE UNCHANGED F!vars
  <2>1. \A u \in Threads : Kind(u)' = Kind(u) /\ pc'[u] = pc[u] /\ elem'[u] = elem[u]
    BY <1>11, <1>k DEF vars
  <2>2. Ops' = Ops /\ Args' = Args
    BY <2>1
  <2> QED BY <1>11, <1>c, <2>2 DEF F!vars, vars
<1> QED
  BY <1>3, <1>4, <1>5, <1>6, <1>7, <1>8, <1>9, <1>10, <1>11
  DEF Next, PushStep, PopStep, F!Next

LEMMA FifoStart == Init => F!Init
<1> SUFFICES ASSUME Init PROVE F!Init
  OBVIOUS
<1>1. Committed = <<>>
  BY DEF Init, Committed
<1>2. \A t \in Threads : Kind(t) = "idle" /\ pc[t] \notin PushPoints
  BY Kinds DEF Init, PushPoints
<1> QED BY <1>1, <1>2 DEF Init, F!Init, NoResult, F!NoAnswer

(* Until the indices wrap around, connector_uint_queue_push and _pop       *)
(* implement the queue of Fifo for every number of threads and every size: *)
(* each takes effect at its exchange on max_index or read_index, in order, *)
(* with nothing lost, duplicated or invented.                              *)
THEOREM UintQueueIsFifo == Spec /\ []NotWrapped => FifoSpec
<1>1. Init => Stored
  BY DEF Init, Stored
<1>2. TypeOK /\ Tickets /\ NotWrapped /\ Stored /\ [Next]_vars => Stored'
  BY StoredStep
<1>3. TypeOK /\ TypeOK' /\ Tickets /\ Tickets' /\ Stored /\ NotWrapped /\ NotWrapped' /\ [Next]_vars
        => [F!Next]_(F!vars)
  BY FifoStep
<1>4. Spec /\ []NotWrapped => []Stored
  BY <1>1, <1>2, UintQueueType, UintQueueTickets, PTL DEF Spec
<1>5. Spec /\ []NotWrapped => F!Spec
  BY <1>3, <1>4, FifoStart, UintQueueType, UintQueueTickets, PTL DEF Spec, F!Spec
<1> QED BY <1>5 DEF FifoSpec

-----------------------------------------------------------------------------
(* The linked list: LockedQueue                                            *)

(* An empty list whose end is not NULL was cleared and not initialised     *)
(* since, and end points at a node that is free; a cleared list has nodes  *)
(* only if somebody was late.                                              *)
Sound ==
    /\ ListInOrder
    /\ fifo = <<>> => end \notin allocated
    /\ phase = "cleared" /\ fifo # <<>> => late

ListInv ==
    /\ ListTypeOK
    /\ badWrites # {} \/ leaked # {} => late
    /\ badWrites = {} => Sound

(* front and end tell an empty queue, and both are on it.                  *)
LEMMA Ends ==
    ASSUME ListTypeOK, Sound
    PROVE  /\ Len(fifo) \in Nat
           /\ \A i \in 1 .. Len(fifo) : fifo[i] \in Nodes /\ fifo[i] # NULL /\ fifo[i] \in allocated
           /\ front = NULL <=> fifo = <<>>
           /\ fifo # <<>> => Len(fifo) >= 1 /\ front = fifo[1] /\ end = fifo[Len(fifo)]
  <1>1. fifo \in Seq(Nodes) /\ Len(fifo) \in Nat
    BY LenProperties DEF ListTypeOK
  <1>2. ASSUME NEW i \in 1 .. Len(fifo)
        PROVE  fifo[i] \in Nodes /\ fifo[i] # NULL /\ fifo[i] \in allocated
    BY <1>1, ElementOfSeq, NodeAssumption DEF Sound, ListInOrder, Linked
  <1>3. fifo # <<>> => Len(fifo) >= 1
    BY <1>1, EmptySeq
  <1> QED
    BY <1>1, <1>2, <1>3 DEF Sound, ListInOrder

(* Pointers and histories keep their types, whatever happens to the list.  *)
LEMMA ListTypeStep == ListTypeOK /\ [ListNext]_listVars => ListTypeOK'
  <1> SUFFICES ASSUME ListTypeOK, [ListNext]_listVars PROVE ListTypeOK'
    OBVIOUS
  <1>r. Rest(fifo) \in Seq(Nodes)
    BY HeadTailProperties DEF Rest, ListTypeOK
  <1>l. Linked \subseteq Nodes
    BY ElementOfSeq DEF Linked, ListTypeOK
  <1>1. ASSUME NEW n \in Nodes, Enqueue(n)
        PROVE  ListTypeOK'
    BY <1>1, AppendProperties DEF Enqueue, ListTypeOK
  <1>2. CASE Dequeue
    BY <1>2, <1>r DEF Dequeue, ListTypeOK
  <1>3. CASE ClearBegin
    BY <1>3, NodeAssumption DEF ClearBegin, ListTypeOK
  <1>4. CASE ClearNode
    BY <1>4, <1>r DEF ClearNode, ListTypeOK
  <1>5. CASE ClearEnd
    BY <1>5 DEF ClearEnd, ListTypeOK
  <1>6. CASE Reinit
    BY <1>6, <1>l, EmptySeq DEF Reinit, ListTypeOK
  <1>7. CASE UNCHANGED listVars
    BY <1>7 DEF listVars, ListTypeOK
  <1> QED
    BY <1>1, <1>2, <1>3, <1>4, <1>5, <1>6, <1>7 DEF ListNext

(* connector_locked_enqueue links the new node behind the last one.        *)
LEMMA EnqueueStep ==
    ASSUME ListTypeOK, Sound, badWrites = {}, NEW n \in Nodes, Enqueue(n), badWrites' = {}
    PROVE  Sound'
  <1> DEFINE L == Len(fifo)
  <1>1. /\ L \in Nat /\ n \notin allocated /\ n # NULL
        /\ \A i \in 1 .. L : fifo[i] \in Nodes /\ fifo[i] # NULL /\ fifo[i] \in allocated /\ fifo[i] # n
    BY Ends, NodeAssumption DEF Enqueue
  <1>0. fifo = <<>> => end = NULL
    BY DEF Enqueue, Sound
  <1>2. /\ fifo' \in Seq(Nodes) /\ fifo' # <<>> /\ Len(fifo') = L + 1 /\ fifo'[L + 1] = n
        /\ \A i \in 1 .. L : fifo'[i] = fifo[i]
    BY AppendProperties DEF Enqueue, ListTypeOK
  <1>3. Linked' = Linked \cup {n}
    BY <1>1, <1>2 DEF Linked
  <1>4. allocated' = Linked' \cup leaked' /\ Linked' \cap leaked' = {}
    BY <1>1, <1>3 DEF Enqueue, Sound, ListInOrder
  <1>5. front' = fifo'[1]
    <2>1. CASE fifo = <<>>
      <3>1. L = 0
        BY <2>1, EmptySeq
      <3> QED
        BY <2>1, <1>2, <3>1, Ends DEF Enqueue
    <2>2. CASE fifo # <<>>
      BY <2>2, <1>1, <1>2, Ends DEF Enqueue
    <2> QED
      BY <2>1, <2>2
  <1>6. /\ next' \in [Nodes -> Nodes \cup {NULL}]
        /\ next'[n] = NULL
        /\ \A i \in 1 .. L : next'[fifo[i]] = IF i = L THEN n ELSE fifo[i + 1]
    <2>1. CASE fifo = <<>>
      <3>1. L = 0
        BY <2>1, EmptySeq
      <3> QED
        BY <2>1, <1>0, <1>1, <3>1 DEF Enqueue, ListTypeOK
    <2>2. CASE fifo # <<>>
      <3>1. L >= 1 /\ end = fifo[L] /\ end \in Nodes /\ end # NULL /\ end # n
        BY <2>2, <1>1, Ends
      <3>2. next' = [next EXCEPT ![n] = NULL, ![end] = n]
        BY <3>1 DEF Enqueue
      <3>3. \A i \in 1 .. L : fifo[i] = end => i = L
        BY <1>1, <3>1 DEF Sound, ListInOrder
      <3> QED
        BY <1>1, <3>1, <3>2, <3>3 DEF Sound, ListInOrder, ListTypeOK
    <2> QED
      BY <2>1, <2>2
  <1>7. ASSUME NEW i \in 1 .. Len(fifo')
        PROVE  next'[fifo'[i]] = IF i = Len(fifo') THEN NULL ELSE fifo'[i + 1]
    <2>1. CASE i = L + 1
      BY <2>1, <1>2, <1>6
    <2>2. CASE i \in 1 .. L
      BY <2>2, <1>1, <1>2, <1>6
    <2> QED
      BY <1>1, <1>2, <2>1, <2>2
  <1>8. \A i, j \in 1 .. Len(fifo') : fifo'[i] = fifo'[j] => i = j
    BY <1>1, <1>2 DEF Sound, ListInOrder
  <1>9. phase' = phase /\ (phase = "cleared" => late') /\ end' = fifo'[Len(fifo')]
    BY <1>2 DEF Enqueue
  <1> QED
    BY <1>2, <1>4, <1>5, <1>7, <1>8, <1>9 DEF Sound, ListInOrder

(* A dequeue, or a step of a clear, takes the first node off the list.     *)
LEMMA TakeStep ==
    ASSUME ListTypeOK, Sound, front # NULL, front' = next[front], allocated' = allocated \ {front},
           fifo' = Rest(fifo), UNCHANGED <<next, phase, late, leaked>>,
           \/ end' = IF next[front] = NULL THEN NULL ELSE end
           \/ phase = "clearing" /\ end' = end
    PROVE  Sound'
  <1> DEFINE L == Len(fifo)
  <1>1. /\ L \in Nat /\ L >= 1 /\ front = fifo[1] /\ fifo # <<>> /\ fifo \in Seq(Nodes)
        /\ \A i \in 1 .. L : fifo[i] \in Nodes /\ fifo[i] # NULL
    BY Ends DEF ListTypeOK
  <1>l. /\ \A i \in 1 .. L : next[fifo[i]] = IF i = L THEN NULL ELSE fifo[i + 1]
        /\ \A i, j \in 1 .. L : fifo[i] = fifo[j] => i = j
        /\ \A i \in 1 .. L : fifo[i] \in allocated
    BY Ends DEF Sound, ListInOrder
  <1>2. /\ fifo' \in Seq(Nodes) /\ Len(fifo') = L - 1
        /\ \A i \in 1 .. L - 1 : fifo'[i] = fifo[i + 1]
    BY <1>1, HeadTailProperties DEF Rest
  <1>3. fifo' = <<>> <=> L = 1
    BY <1>1, <1>2, EmptySeq
  <1>4. next[front] = IF L = 1 THEN NULL ELSE fifo[2]
    <2>1. 1 \in 1 .. L /\ 1 + 1 = 2
      BY <1>1
    <2> QED
      BY <1>1, <1>l, <2>1
  <1>5. front' = IF fifo' = <<>> THEN NULL ELSE fifo'[1]
    BY <1>1, <1>2, <1>3, <1>4
  <1>6. ASSUME NEW i \in 1 .. Len(fifo')
        PROVE  /\ next'[fifo'[i]] = IF i = Len(fifo') THEN NULL ELSE fifo'[i + 1]
               /\ \A j \in 1 .. Len(fifo') : fifo'[i] = fifo'[j] => i = j
    <2>1. i + 1 \in 1 .. L /\ fifo'[i] = fifo[i + 1] /\ (i = Len(fifo') <=> i + 1 = L)
      BY <1>1, <1>2
    <2>2. i # Len(fifo') => fifo'[i + 1] = fifo[(i + 1) + 1]
      <3>1. L \in Nat /\ i \in 1 .. L - 1 /\ Len(fifo') = L - 1
        BY <1>1, <1>2
      <3>2. i # L - 1 => i + 1 \in 1 .. L - 1
        BY <3>1
      <3> QED
        BY <1>2, <3>1, <3>2
    <2>3. \A j \in 1 .. Len(fifo') : j + 1 \in 1 .. L /\ fifo'[j] = fifo[j + 1]
      BY <1>1, <1>2
    <2>4. \A j \in 1 .. Len(fifo') : fifo'[i] = fifo'[j] => i + 1 = j + 1
      BY <1>l, <2>1, <2>3
    <2>5. \A j \in 1 .. Len(fifo') : i + 1 = j + 1 => i = j
      BY <1>1, <1>2
    <2> QED
      BY <1>l, <2>1, <2>2, <2>4, <2>5
  <1>7. Linked' = Linked \ {front} /\ front \in Linked
    <2>1. ASSUME NEW x \in Linked, x # front
          PROVE  \E i \in 1 .. L - 1 : x = fifo'[i]
      <3>1. PICK k \in 1 .. L : x = fifo[k]
        BY <2>1 DEF Linked
      <3>2. k # 1
        BY <2>1, <3>1, <1>1
      <3>3. k - 1 \in 1 .. L - 1 /\ fifo'[k - 1] = fifo[(k - 1) + 1]
        BY <1>1, <1>2, <3>2
      <3> QED
        BY <3>1, <3>3
    <2>2. ASSUME NEW i \in 1 .. L - 1
          PROVE  fifo'[i] \in Linked \ {front}
      <3>1. i + 1 \in 1 .. L /\ i + 1 # 1 /\ 1 \in 1 .. L
        BY <1>1
      <3> QED
        BY <1>1, <1>2, <1>l, <3>1 DEF Linked
    <2>3. Linked' = {fifo'[i] : i \in 1 .. L - 1}
      BY <1>2 DEF Linked
    <2>4. front \in Linked
      <3>1. 1 \in 1 .. L /\ front = fifo[1]
        BY <1>1
      <3> QED
        BY <3>1 DEF Linked
    <2> QED
      BY <2>1, <2>2, <2>3, <2>4
  <1>8. allocated' = Linked' \cup leaked' /\ Linked' \cap leaked' = {} /\ front \notin allocated'
    BY <1>7 DEF Sound, ListInOrder
  <1>9. /\ fifo' # <<>> => end' = fifo'[Len(fifo')]
        /\ fifo' = <<>> => end' = NULL \/ (end' = front /\ phase = "clearing")
    <2>1. CASE L = 1
      <3>1. end = front
        BY <2>1, <1>1, Ends
      <3>2. fifo' = <<>> /\ next[front] = NULL
        BY <2>1, <1>3, <1>4
      <3> QED
        BY <3>1, <3>2
    <2>2. CASE L # 1
      <3>1. end = fifo[L] /\ end' = end
        <4> HIDE DEF L
        <4>1. 2 \in 1 .. L
          BY <2>2, <1>1
        <4>2. next[front] # NULL
          BY <2>2, <4>1, <1>1, <1>4
        <4> USE DEF L
        <4> QED
          BY <4>2, <1>1, Ends
      <3>2. fifo' # <<>> /\ L - 1 \in 1 .. L - 1 /\ (L - 1) + 1 = L
        BY <2>2, <1>1, <1>3
      <3> QED
        BY <1>2, <3>1, <3>2
    <2> QED
      BY <2>1, <2>2
  <1>10. fifo' = <<>> => end' \notin allocated'
    BY <1>8, <1>9, NodeAssumption DEF ListTypeOK
  <1> QED
    BY <1>1, <1>5, <1>6, <1>8, <1>9, <1>10 DEF Sound, ListInOrder

\* After any enqueues, dequeues, clears and initialisations, those of late
\* senders included, the list has the nodes enqueued and not taken out, in
\* order, until a late sender writes through a stale end; only late senders
\* write to a freed node or have a node leaked (locked_queue.c).
THEOREM LockedQueueIsFifo == ListSpec => []ListIsFifo
  <1>1. ListInit => ListInv
    <2> SUFFICES ASSUME ListInit PROVE ListInv
      OBVIOUS
    <2>1. Len(fifo) = 0 /\ Linked = {}
      BY EmptySeq DEF ListInit, Linked
    <2>2. Sound
      BY <2>1 DEF ListInit, Sound, ListInOrder
    <2>3. ListTypeOK
      <3>1. late \in BOOLEAN
        BY DEF ListInit
      <3> QED
        BY <3>1, EmptySeq, NodeAssumption DEF ListInit, ListTypeOK
    <2> QED
      BY <2>2, <2>3 DEF ListInit, ListInv
  <1>2. ListInv /\ [ListNext]_listVars => ListInv'
    <2> SUFFICES ASSUME ListInv, [ListNext]_listVars PROVE ListInv'
      OBVIOUS
    <2>t. ListTypeOK /\ ListTypeOK'
      BY ListTypeStep DEF ListInv
    <2>1. ASSUME NEW n \in Nodes, Enqueue(n)
          PROVE  ListInv'
      <3>1. late \/ (badWrites = {} /\ Sound /\ leaked = {})
        BY Zenon DEF ListInv
      <3>2. badWrites' = {} => badWrites = {} /\ Sound'
        BY <2>1, <2>t, EnqueueStep DEF ListInv, Enqueue
      <3>3. badWrites = {} /\ Sound /\ badWrites' # {} => phase = "cleared"
        BY <2>1, <2>t, Ends DEF Enqueue, Sound, ListInOrder, Unlocked, ListTypeOK
      <3> QED
        BY <2>1, <2>t, <3>1, <3>2, <3>3 DEF ListInv, Enqueue
    <2>2. CASE Dequeue
      <3>1. badWrites = {} => Sound'
        BY <2>2, <2>t, TakeStep DEF ListInv, Dequeue
      <3> QED
        BY <2>2, <2>t, <3>1 DEF ListInv, Dequeue
    <2>3. CASE ClearBegin
      BY <2>3, <2>t DEF ListInv, Sound, ListInOrder, Linked, ClearBegin
    <2>4. CASE ClearNode
      <3>1. badWrites = {} => Sound'
        BY <2>4, <2>t, TakeStep DEF ListInv, ClearNode
      <3> QED
        BY <2>4, <2>t, <3>1 DEF ListInv, ClearNode
    <2>5. CASE ClearEnd
      BY <2>5, <2>t, Ends DEF ListInv, Sound, ListInOrder, Linked, ClearEnd
    <2>6. CASE Reinit
      <3>1. Linked # {} => fifo # <<>>
        BY EmptySeq DEF Linked
      <3>2. Linked # {} => late
        BY <2>6, <3>1 DEF Reinit, ListInv, Sound
      <3>3. badWrites = {} => Sound'
        <4>1. Len(fifo') = 0 /\ Linked' = {}
          BY <2>6, EmptySeq DEF Reinit, Linked
        <4> QED
          BY <2>6, <2>t, <4>1, NodeAssumption DEF Reinit, ListInv, Sound, ListInOrder, ListTypeOK
      <3> QED
        BY <2>6, <2>t, <3>2, <3>3 DEF Reinit, ListInv
    <2>7. CASE UNCHANGED listVars
      BY <2>7, <2>t DEF ListInv, Sound, ListInOrder, Linked, listVars
    <2> QED
      BY <2>1, <2>2, <2>3, <2>4, <2>5, <2>6, <2>7 DEF ListNext
  <1>3. ListInv => ListIsFifo
    BY DEF ListInv, Sound, ListIsFifo
  <1> QED
    BY <1>1, <1>2, <1>3, PTL DEF ListSpec

=============================================================================
