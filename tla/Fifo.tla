-------------------------------- MODULE Fifo --------------------------------
(***************************************************************************)
(* What src/core/include/substance/connector/details/uint_queue.h promises *)
(* of the unsigned integer queue: a bounded first-in first-out queue whose *)
(* push and pop take effect at one instant between call and return, and    *)
(* may answer with an error code and no effect.  UintQueue implements it.  *)
(***************************************************************************)
EXTENDS Integers, Sequences

CONSTANTS Threads,   \* the threads that call the queue
          Values,    \* the elements pushed
          Capacity   \* the most elements the queue ever holds

VARIABLES fifo,      \* the elements in the queue, oldest first
          op,        \* op[t]: the call thread t is in
          arg,       \* arg[t]: the element t is pushing (0 outside a push)
          answer     \* answer[t]: return code and popped element of t's last call

vars == <<fifo, op, arg, answer>>

NoAnswer == [code |-> "none", val |-> 0]

Init ==
    /\ fifo = <<>>
    /\ op = [t \in Threads |-> "idle"]
    /\ arg = [t \in Threads |-> 0]
    /\ answer = [t \in Threads |-> NoAnswer]

Call(t, kind, v) ==
    /\ op[t] = "idle"
    /\ op' = [op EXCEPT ![t] = kind]
    /\ arg' = [arg EXCEPT ![t] = v]
    /\ answer' = [answer EXCEPT ![t] = NoAnswer]
    /\ UNCHANGED fifo

Return(t, code, v) ==
    /\ op' = [op EXCEPT ![t] = "idle"]
    /\ arg' = [arg EXCEPT ![t] = 0]
    /\ answer' = [answer EXCEPT ![t] = [code |-> code, val |-> v]]

Enqueue(t) ==
    /\ op[t] = "push"
    /\ Len(fifo) < Capacity
    /\ fifo' = Append(fifo, arg[t])
    /\ Return(t, "success", 0)

Dequeue(t) ==
    /\ op[t] = "pop"
    /\ fifo # <<>>
    /\ fifo' = Tail(fifo)
    /\ Return(t, "success", Head(fifo))

Refuse(t) ==
    /\ op[t] # "idle"
    /\ UNCHANGED fifo
    /\ Return(t, "error", 0)

Next ==
    \E t \in Threads :
        \/ \E v \in Values : Call(t, "push", v)
        \/ Call(t, "pop", 0)
        \/ Enqueue(t)
        \/ Dequeue(t)
        \/ Refuse(t)

Spec == Init /\ [][Next]_vars
=============================================================================
