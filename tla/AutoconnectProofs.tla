-------------------------- MODULE AutoconnectProofs -------------------------
(***************************************************************************)
(* Proofs about Autoconnect for any number of processes, ports, paths and  *)
(* contexts.  A step is one of a process: the invariant says of each       *)
(* process what it knows of its own contexts and of the ports it is bound  *)
(* to, and a step of another process changes only what is not its own.     *)
(***************************************************************************)
EXTENDS Autoconnect, SequenceTheorems, TLAPS

Elements(q) == {q[i] : i \in 1 .. Len(q)}

Distinct(q) == \A i, j \in 1 .. Len(q) : q[i] = q[j] => i = j

Records ==
    [type : {"none", "tcp", "unix"}, state : {"closed", "open", "connected"}, shutdown : BOOLEAN,
     hung : BOOLEAN, port : Ports \cup {0}, data : {"null", "caller"}, peer : Procs \cup {NULL}]

Points == {"idle", "bound", "listening", "scan", "connect", "appconnect", "remove"}

TypeOK ==
    /\ files \subseteq Ports /\ paths \subseteq Paths /\ refused \subseteq Ports
    /\ bound \in [Ports -> Procs \cup {NULL}]
    /\ uses \in [Ports -> Nat]
    /\ table \in [Procs -> [Slots -> Records]]
    /\ free \in [Procs -> Seq(Slots)]
    /\ pc \in [Procs -> Points]
    /\ rpc \in [Procs -> {"poll", "close", "clear"}]
    /\ cur \in [Procs -> Slots \cup Ports \cup Paths \cup {NULL}]
    /\ closing \in [Procs -> Slots \cup {NULL}]
    /\ todo \in [Procs -> SUBSET (Ports \cup Paths)]
    /\ targets \in [Procs -> SUBSET Ports]

-----------------------------------------------------------------------------
(* The contexts of process p: free, being opened, being closed.            *)
Free(p) == Elements(free[p])
Opens(p) == pc[p] \in {"bound", "listening"}

(* Where the threads are.                                                  *)
Control(p) ==
    /\ Opens(p) => cur[p] \in Slots \ Free(p) /\ table[p][cur[p]].state = "open" /\ closing[p] # cur[p]
    /\ pc[p] \in {"connect", "remove", "appconnect"} => cur[p] \in Ports \cup Paths
    /\ pc[p] = "remove" /\ cur[p] \in Ports => cur[p] \in refused
    /\ rpc[p] = "poll" <=> closing[p] = NULL
    /\ closing[p] # NULL => closing[p] \notin Free(p) /\ table[p][closing[p]].shutdown

(* A free context has no peer; a port it kept has refused a connection.    *)
Kept(p) ==
    /\ Distinct(free[p])
    /\ \A s \in Free(p) :
        /\ table[p][s].peer = NULL /\ table[p][s].state # "connected"
        /\ table[p][s].state = "open" /\ table[p][s].type = "tcp" => table[p][s].port \in refused

(* A context that listens, until its socket is closed.                     *)
Released(p, s) == rpc[p] = "clear" /\ closing[p] = s
Listens(p, s) == s \notin Free(p) /\ table[p][s].state = "open"

(* The port of a context that listens is bound to the process, until the   *)
(* socket is closed; then it may have been bound again.                    *)
Listener(p, s) ==
    LET q == table[p][s].port IN
    /\ table[p][s].type = "tcp" /\ q \in Ports /\ uses[q] >= 1
    /\ IF Released(p, s) THEN bound[q] = NULL \/ uses[q] >= 2 ELSE bound[q] = p

Listeners(p) ==
    /\ \A s \in Slots : Listens(p, s) => Listener(p, s)
    /\ \A s, t \in Slots :
        /\ Listens(p, s) /\ ~Released(p, s) /\ Listens(p, t) /\ ~Released(p, t)
        /\ table[p][s].port = table[p][t].port
        => s = t
    /\ \A q \in Ports : bound[q] = p =>
        \E s \in Slots : Listens(p, s) /\ ~Released(p, s) /\ table[p][s].port = q

(* Connections that broadcasts made, and the one being made.               *)
Peers(p) ==
    /\ \A s \in Slots : table[p][s].peer # NULL =>
        /\ table[p][s].type = "tcp" /\ table[p][s].state = "connected"
        /\ table[p][s].port \in Ports /\ table[p][s].peer # p
    /\ \A s, t \in Slots :
        table[p][s].peer # NULL /\ table[p][t].peer # NULL /\ table[p][s].port = table[p][t].port
            => s = t
    /\ pc[p] = "connect" /\ cur[p] \in Ports =>
        /\ bound[cur[p]] # p
        /\ \A s \in Slots : table[p][s].peer # NULL => table[p][s].port # cur[p]

-----------------------------------------------------------------------------
(* Somebody has bound q and has not written its file.                      *)
Opening(q) == \E r \in Procs : Opens(r) /\ Port(r) = q

Connected(p, q) == \E s \in Slots : table[p][s].state = "connected" /\ table[p][s].port = q

(* What a broadcast has to reach: it was bound before the broadcast began, *)
(* and as long as it is not bound again it is to be tried, or is being     *)
(* tried, or is connected.                                                 *)
Target(p, q) ==
    /\ \A s \in Slots : table[p][s].port = q => ~Ended(table[p][s])
    /\ uses[q] >= 1
    /\ uses[q] = 1 => bound[q] # p /\ ~Opening(q)
    /\ Committed(q) /\ uses[q] = 1 /\ q \notin refused =>
        q \in todo[p] \/ (pc[p] = "connect" /\ cur[p] = q) \/ Connected(p, q)

Targets(p) ==
    /\ targets[p] # {} => pc[p] \in {"scan", "connect", "remove"}
    /\ \A q \in targets[p] : Target(p, q)

Local(p) == Control(p) /\ Kept(p) /\ Listeners(p) /\ Peers(p)

Inv ==
    /\ TypeOK
    /\ \A p \in Procs : Local(p) /\ Targets(p)
    /\ ListenerHasFile

-----------------------------------------------------------------------------
(* Queues of contexts as sets.                                             *)

\* Taking the first of a queue without duplicates removes just that one.
LEMMA TailElements ==
    ASSUME NEW S, NEW q \in Seq(S), q # <<>>, Distinct(q)
    PROVE  /\ Head(q) \in S /\ Head(q) \in Elements(q)
           /\ Tail(q) \in Seq(S) /\ Distinct(Tail(q))
           /\ Elements(Tail(q)) = Elements(q) \ {Head(q)}
<1>1. Len(q) \in Nat /\ Len(q) >= 1 /\ Head(q) = q[1] /\ 1 \in 1 .. Len(q)
    OBVIOUS
<1>2. Tail(q) \in Seq(S) /\ Len(Tail(q)) = Len(q) - 1 /\ \A i \in 1 .. Len(q) - 1 : Tail(q)[i] = q[i + 1]
    OBVIOUS
<1>3. Distinct(Tail(q))
  <2>1. SUFFICES ASSUME NEW i \in 1 .. Len(q) - 1, NEW j \in 1 .. Len(q) - 1, Tail(q)[i] = Tail(q)[j]
                 PROVE  i = j
    BY <1>2 DEF Distinct
  <2>2. i + 1 \in 1 .. Len(q) /\ j + 1 \in 1 .. Len(q) /\ q[i + 1] = q[j + 1]
    BY <1>1, <1>2, <2>1
  <2>3. i + 1 = j + 1
    BY <2>2 DEF Distinct
  <2> QED BY <1>1, <2>3
<1>4. ASSUME NEW x \in Elements(Tail(q)) PROVE x \in Elements(q) \ {Head(q)}
  <2>1. PICK i \in 1 .. Len(q) - 1 : x = Tail(q)[i]
    BY <1>2 DEF Elements
  <2>2. i + 1 \in 1 .. Len(q) /\ x = q[i + 1] /\ i + 1 # 1
    BY <1>1, <1>2, <2>1
  <2>3. x # q[1]
    BY <1>1, <2>2 DEF Distinct
  <2> QED BY <1>1, <2>2, <2>3 DEF Elements
<1>5. ASSUME NEW x \in Elements(q) \ {Head(q)} PROVE x \in Elements(Tail(q))
  <2>1. PICK i \in 1 .. Len(q) : x = q[i]
    BY DEF Elements
  <2>2. i # 1
    BY <1>1, <2>1
  <2>3. i - 1 \in 1 .. Len(q) - 1 /\ (i - 1) + 1 = i
    BY <1>1, <2>2
  <2>4. Tail(q)[i - 1] = x
    BY <1>2, <2>1, <2>3
  <2> QED BY <1>2, <2>3, <2>4 DEF Elements
<1>6. Head(q) \in S /\ Head(q) \in Elements(q)
    BY <1>1 DEF Elements
<1> QED BY <1>2, <1>3, <1>4, <1>5, <1>6

\* Adding at the end what is not there adds just that one.
LEMMA AppendElements ==
    ASSUME NEW S, NEW q \in Seq(S), NEW x \in S, x \notin Elements(q), Distinct(q)
    PROVE  /\ Append(q, x) \in Seq(S) /\ Distinct(Append(q, x))
           /\ Elements(Append(q, x)) = Elements(q) \cup {x}
<1> DEFINE a == Append(q, x)
<1>1. Len(q) \in Nat /\ a \in Seq(S) /\ Len(a) = Len(q) + 1 /\ a[Len(q) + 1] = x
    OBVIOUS
<1>2. \A i \in 1 .. Len(q) : a[i] = q[i] /\ a[i] # x
    BY DEF Elements
<1>3. \A i \in 1 .. Len(a) : i \in 1 .. Len(q) \/ i = Len(q) + 1
    BY <1>1
<1>4. Distinct(a)
    BY <1>1, <1>2, <1>3 DEF Distinct
<1>5. \A y \in Elements(a) : y \in Elements(q) \cup {x}
    BY <1>1, <1>2, <1>3 DEF Elements
<1>6. \A y \in Elements(q) : y \in Elements(a)
    BY <1>1, <1>2 DEF Elements
<1>7. x \in Elements(a)
    BY <1>1 DEF Elements
<1> QED BY <1>1, <1>4, <1>5, <1>6, <1>7

\* Moving the first to the end changes nothing but the order.
LEMMA RotateElements ==
    ASSUME NEW S, NEW q \in Seq(S), q # <<>>, Distinct(q)
    PROVE  /\ Append(Tail(q), Head(q)) \in Seq(S) /\ Distinct(Append(Tail(q), Head(q)))
           /\ Elements(Append(Tail(q), Head(q))) = Elements(q)
<1>1. /\ Head(q) \in S /\ Head(q) \in Elements(q) /\ Tail(q) \in Seq(S) /\ Distinct(Tail(q))
      /\ Elements(Tail(q)) = Elements(q) \ {Head(q)}
    BY TailElements
<1> DEFINE t == Tail(q)
           h == Head(q)
<1>2. t \in Seq(S) /\ h \in S /\ h \notin Elements(t) /\ Distinct(t)
    BY <1>1
<1> HIDE DEF t, h
<1>3. /\ Append(t, h) \in Seq(S) /\ Distinct(Append(t, h))
      /\ Elements(Append(t, h)) = Elements(t) \cup {h}
    BY <1>2, AppendElements
<1> USE DEF t, h
<1> QED BY <1>1, <1>3

\* All contexts in the order of their identifiers: no duplicates.
LEMMA AllElements ==
    LET all == [s \in Slots |-> s]
    IN  all \in Seq(Slots) /\ Distinct(all) /\ Elements(all) = Slots
<1> DEFINE all == [s \in Slots |-> s]
<1>1. ContextCount \in Nat
    BY AutoconnectAssumption
<1>2. all \in Seq(Slots) /\ Len(all) = ContextCount
    BY <1>1 DEF Slots
<1> QED BY <1>1, <1>2 DEF Distinct, Elements, Slots

LEMMA IsFreeIn == \A p \in Procs, s \in Slots : (IsFree(p, s) <=> s \in Free(p)) /\ (IsFree(p, s)' <=> s \in Free(p)')
    BY DEF IsFree, Free, Elements

LEMMA FreeSlots == ASSUME TypeOK PROVE \A p \in Procs : Free(p) \subseteq Slots
    BY DEF TypeOK, Free, Elements

-----------------------------------------------------------------------------
(* Type correctness.                                                       *)

LEMMA Types ==
    /\ NULL \notin Procs /\ NULL \notin Ports /\ NULL \notin Paths /\ NULL \notin Slots
    /\ Ports \cap Paths = {} /\ 0 \notin Ports
    BY AutoconnectAssumption DEF Slots

LEMMA ContextType ==
    /\ Cleared \in Records
    /\ Cleared.type = "none" /\ Cleared.state = "closed" /\ Cleared.port = 0 /\ Cleared.peer = NULL
    /\ ~Ended(Cleared)
    /\ \A q \in Ports : Context("tcp", "open", q, "null") \in Records
    /\ \A e \in Ports \cup Paths : \A state \in {"open", "connected"} :
        /\ Connecting(e, state) \in Records
        /\ Connecting(e, state).state = state /\ ~Ended(Connecting(e, state))
        /\ Connecting(e, state).peer = NULL
        /\ e \in Ports => Connecting(e, state).type = "tcp" /\ Connecting(e, state).port = e
        /\ e \notin Ports => Connecting(e, state).type = "unix" /\ Connecting(e, state).port = 0
    BY DEF Cleared, Context, Connecting, Records, Ended

\* Only the process that takes a step changes, and it changes its table and
\* its queue as follows.
LEMMA SetType ==
    ASSUME TypeOK, NEW p \in Procs, NEW s \in Slots, NEW c \in Records, Set(p, s, c)
    PROVE  /\ table' \in [Procs -> [Slots -> Records]]
           /\ table'[p][s] = c
           /\ \A t \in Slots \ {s} : table'[p][t] = table[p][t]
           /\ \A r \in Procs \ {p} : table'[r] = table[r]
    BY DEF TypeOK, Set

LEMMA RotateType ==
    ASSUME TypeOK, NEW p \in Procs, Rotate(p), free[p] # <<>>, Kept(p)
    PROVE  /\ free' \in [Procs -> Seq(Slots)]
           /\ Head(free[p]) \in Free(p) /\ Head(free[p]) \in Slots
           /\ Free(p)' = Free(p) /\ Distinct(free'[p])
           /\ \A r \in Procs \ {p} : free'[r] = free[r]
<1> DEFINE new == Append(Tail(free[p]), Head(free[p]))
<1>1. free[p] \in Seq(Slots) /\ Distinct(free[p])
    BY DEF TypeOK, Kept
<1>2. /\ new \in Seq(Slots) /\ Distinct(new) /\ Elements(new) = Elements(free[p])
      /\ Head(free[p]) \in Slots /\ Head(free[p]) \in Elements(free[p])
    BY <1>1, RotateElements, TailElements
<1>3. free' = [free EXCEPT ![p] = new]
    BY DEF Rotate
<1> HIDE DEF new
<1> QED BY <1>2, <1>3 DEF TypeOK, Free

LEMMA TakeType ==
    ASSUME TypeOK, NEW p \in Procs, free[p] # <<>>, Kept(p), free' = [free EXCEPT ![p] = Tail(@)]
    PROVE  /\ free' \in [Procs -> Seq(Slots)]
           /\ Head(free[p]) \in Free(p) /\ Head(free[p]) \in Slots
           /\ Free(p)' = Free(p) \ {Head(free[p])} /\ Distinct(free'[p])
           /\ \A r \in Procs \ {p} : free'[r] = free[r]
<1>1. free[p] \in Seq(Slots) /\ Distinct(free[p])
    BY DEF TypeOK, Kept
<1>2. /\ Tail(free[p]) \in Seq(Slots) /\ Distinct(Tail(free[p]))
      /\ Elements(Tail(free[p])) = Elements(free[p]) \ {Head(free[p])}
      /\ Head(free[p]) \in Slots /\ Head(free[p]) \in Elements(free[p])
    BY <1>1, TailElements
<1>3. free'[p] = Tail(free[p])
    BY DEF TypeOK
<1> QED BY <1>2, <1>3 DEF TypeOK, Free

LEMMA ReturnType ==
    ASSUME TypeOK, NEW p \in Procs, NEW s \in Slots, s \notin Free(p), Kept(p),
           free' = [free EXCEPT ![p] = Append(@, s)]
    PROVE  /\ free' \in [Procs -> Seq(Slots)]
           /\ Free(p)' = Free(p) \cup {s} /\ Distinct(free'[p])
           /\ \A r \in Procs \ {p} : free'[r] = free[r]
<1> DEFINE new == Append(free[p], s)
<1>1. free[p] \in Seq(Slots) /\ Distinct(free[p]) /\ s \notin Elements(free[p])
    BY DEF TypeOK, Kept, Free
<1>2. new \in Seq(Slots) /\ Distinct(new) /\ Elements(new) = Elements(free[p]) \cup {s}
    BY <1>1, AppendElements
<1>3. free'[p] = new
    BY DEF TypeOK
<1> HIDE DEF new
<1> QED BY <1>2, <1>3 DEF TypeOK, Free

-----------------------------------------------------------------------------
(* What a step of process p does to the others: it binds ports that nobody *)
(* has and releases its own.                                               *)
Rebinds(p, q) ==
    /\ uses'[q] \in Nat /\ uses'[q] >= uses[q]
    /\ \/ bound'[q] = bound[q]
       \/ bound[q] = NULL /\ bound'[q] = p /\ uses'[q] = uses[q] + 1
       \/ bound[q] = p /\ bound'[q] = NULL

Same(r) ==
    /\ table'[r] = table[r] /\ free'[r] = free[r] /\ pc'[r] = pc[r] /\ rpc'[r] = rpc[r]
    /\ cur'[r] = cur[r] /\ closing'[r] = closing[r] /\ todo'[r] = todo[r] /\ targets'[r] = targets[r]

Frame(p) ==
    /\ \A r \in Procs \ {p} : Same(r)
    /\ \A q \in Ports : Rebinds(p, q)
    /\ refused \subseteq refused'
    /\ \A q \in listening' : q \in listening \/ (Opens(p) /\ Port(p) = q)

(* The contexts that listen afterwards listened before, or their file has  *)
(* just been written; a port that is being opened afterwards has just been *)
(* bound.                                                                  *)
Gains(p) ==
    /\ \A s \in Slots : Served(p, s)' /\ table'[p][s].state = "open" =>
        /\ table[p][s].state = "open" /\ table[p][s].port = table'[p][s].port
        /\ Served(p, s) \/ (Opens(p) /\ cur[p] = s /\ table[p][s].port \in files')
    /\ Opens(p)' => \/ Opens(p) /\ Port(p)' = Port(p)
                    \/ uses'[Port(p)'] = uses[Port(p)'] + 1

(* A file disappears when nobody listens or somebody was refused.          *)
Loses == \A q \in Ports : q \in files /\ Committed(q)' => q \in files' \/ q \in refused'

Step(p) == Frame(p) /\ Gains(p) /\ Loses /\ Local(p)' /\ Targets(p)'

\* The port of a context that listens is bound to its process until the
\* socket is closed.
LEMMA ListenerBound ==
    ASSUME TypeOK, NEW p \in Procs, Local(p), NEW s \in Slots, s \notin Free(p),
           table[p][s].state = "open", ~Released(p, s)
    PROVE  /\ table[p][s].type = "tcp" /\ table[p][s].port \in Ports
           /\ bound[table[p][s].port] = p /\ uses[table[p][s].port] >= 1
    BY DEF Local, Listeners, Listens, Listener

\* The same for the context that is being opened.
LEMMA OpeningBound ==
    ASSUME TypeOK, NEW p \in Procs, Local(p), Opens(p)
    PROVE  /\ cur[p] \in Slots /\ cur[p] \notin Free(p) /\ table[p][cur[p]].state = "open"
           /\ Port(p) \in Ports /\ bound[Port(p)] = p /\ uses[Port(p)] >= 1
           /\ closing[p] # cur[p] /\ ~Released(p, cur[p])
<1>1. PICK s \in Slots : s = cur[p]
    BY DEF Local, Control
<1>2. s \notin Free(p) /\ table[p][s].state = "open" /\ closing[p] # s
    BY <1>1 DEF Local, Control
<1>3. ~Released(p, s)
    BY <1>2 DEF Released
<1>4. table[p][s].port \in Ports /\ bound[table[p][s].port] = p /\ uses[table[p][s].port] >= 1
    BY <1>2, <1>3, ListenerBound
<1> QED BY <1>1, <1>2, <1>3, <1>4 DEF Port

\* A committed port is not being opened: it has one context only.
LEMMA CommittedNotOpening ==
    ASSUME TypeOK, \A p \in Procs : Local(p), NEW q \in Ports, Committed(q)
    PROVE  ~Opening(q) /\ bound[q] \in Procs /\ bound[q] # NULL
<1>1. PICK p \in Procs, s \in Slots : /\ bound[q] = p /\ Served(p, s)
                                     /\ table[p][s].state = "open" /\ table[p][s].port = q
    BY DEF Committed
<1>2. s \notin Free(p) /\ ~Released(p, s)
    BY <1>1, IsFreeIn DEF Served, Released
<1>3. SUFFICES ASSUME NEW r \in Procs, Opens(r), Port(r) = q PROVE FALSE
    BY <1>1, Types DEF Opening
<1>4. PICK t \in Slots : t = cur[r]
    BY <1>3, OpeningBound
<1>5. t \notin Free(r) /\ table[r][t].state = "open" /\ ~Released(r, t) /\ bound[q] = r /\ table[r][t].port = q
    BY <1>3, <1>4, OpeningBound DEF Port
<1>6. r = p
    BY <1>1, <1>5
<1>7. s = t
    BY <1>1, <1>2, <1>5, <1>6 DEF Local, Listeners, Listens
<1> QED BY <1>1, <1>3, <1>4, <1>6, <1>7 DEF Served, Opens

\* What is committed after a step was so before, or its file has just been
\* written.
LEMMA CommittedBefore ==
    ASSUME TypeOK, NEW p \in Procs, \A r \in Procs : Local(r), Frame(p), Gains(p),
           NEW q \in Ports, Committed(q)'
    PROVE  Committed(q) \/ (Opening(q) /\ q \in files')
<1>1. PICK r \in Procs, s \in Slots : /\ bound'[q] = r /\ q \in listening' /\ Served(r, s)'
                                     /\ table'[r][s].state = "open" /\ table'[r][s].port = q
    BY DEF Committed
<1>2. CASE r # p
  <2>1. Served(r, s) /\ table[r][s].state = "open" /\ table[r][s].port = q
    BY <1>1, <1>2 DEF Frame, Same, Served, IsFree
  <2>2. bound[q] = r
    BY <1>1, <1>2, Types DEF Frame, Rebinds
  <2>3. q \in listening
    BY <1>1, <1>2, <2>2, OpeningBound DEF Frame
  <2> QED BY <2>1, <2>2, <2>3 DEF Committed
<1>3. CASE r = p
  <2>1. /\ table[p][s].state = "open" /\ table[p][s].port = q
        /\ Served(p, s) \/ (Opens(p) /\ cur[p] = s /\ q \in files')
    BY <1>1, <1>3 DEF Gains
  <2>2. CASE Opens(p) /\ cur[p] = s /\ q \in files'
    BY <2>1, <2>2 DEF Opening, Port
  <2>3. CASE Served(p, s)
    <3>1. s \notin Free(p) /\ ~Released(p, s)
      BY <2>3, IsFreeIn DEF Served, Released
    <3>2. bound[q] = p
      BY <2>1, <3>1, ListenerBound
    <3>3. CASE q \in listening
      BY <2>1, <2>3, <3>2, <3>3 DEF Committed
    <3>4. CASE Opens(p) /\ Port(p) = q
      <4>1. PICK t \in Slots : t = cur[p]
        BY <3>4, OpeningBound
      <4>2. t \notin Free(p) /\ table[p][t].state = "open" /\ ~Released(p, t) /\ table[p][t].port = q
        BY <3>4, <4>1, OpeningBound DEF Port
      <4>3. s = t
        BY <2>1, <3>1, <4>2 DEF Local, Listeners, Listens
      <4> QED BY <2>3, <3>4, <4>1, <4>3 DEF Served, Opens
    <3> QED BY <1>1, <3>3, <3>4 DEF Frame
  <2> QED BY <2>1, <2>2, <2>3
<1> QED BY <1>2, <1>3

LEMMA OpeningBefore ==
    ASSUME NEW p \in Procs, Frame(p), Gains(p), NEW q \in Ports, Opening(q)'
    PROVE  Opening(q) \/ uses'[q] = uses[q] + 1
<1>1. PICK r \in Procs : Opens(r)' /\ Port(r)' = q
    BY DEF Opening
<1>2. CASE r # p
    BY <1>1, <1>2 DEF Opening, Opens, Port, Frame, Same
<1>3. CASE r = p
    BY <1>1, <1>3 DEF Opening, Gains
<1> QED BY <1>2, <1>3

\* What another process knows survives the step.
LEMMA OtherLocal ==
    ASSUME TypeOK, NEW p \in Procs, Frame(p), NEW r \in Procs \ {p}, Local(r)
    PROVE  Local(r)'
<1> USE DEF Frame, Same
<1>1. Free(r)' = Free(r)
    BY DEF Free
<1>2. Control(r)'
    BY <1>1 DEF Local, Control, Opens
<1>3. Kept(r)'
    BY <1>1 DEF Local, Kept
<1>4. \A s \in Slots : Released(r, s)' = Released(r, s) /\ Listens(r, s)' = Listens(r, s)
    BY <1>1 DEF Released, Listens
<1>5. \A q \in Ports : bound[q] = r <=> bound'[q] = r
    BY Types DEF Rebinds
<1>6. ASSUME NEW s \in Slots, Listens(r, s)' PROVE Listener(r, s)'
  <2>1. PICK q : q = table[r][s].port
    OBVIOUS
  <2>2. Listener(r, s) /\ q \in Ports /\ uses[q] \in Nat
    BY <1>4, <1>6, <2>1 DEF Local, Listeners, Listener, TypeOK
  <2>3. Rebinds(p, q)
    BY <2>2
  <2>4. CASE Released(r, s)
    BY <1>4, <2>1, <2>2, <2>3, <2>4 DEF Listener, Rebinds
  <2>5. CASE ~Released(r, s)
    BY <1>4, <1>5, <2>1, <2>2, <2>3, <2>5 DEF Listener, Rebinds
  <2> QED BY <2>4, <2>5
<1>7. Listeners(r)'
    BY <1>4, <1>5, <1>6 DEF Local, Listeners
<1>8. Peers(r)'
    BY <1>5 DEF Local, Peers
<1> QED BY <1>2, <1>3, <1>7, <1>8 DEF Local

LEMMA OtherTargets ==
    ASSUME TypeOK, \A r \in Procs : Local(r), NEW p \in Procs, Frame(p), Gains(p),
           NEW r \in Procs \ {p}, Targets(r)
    PROVE  Targets(r)'
<1> USE DEF Frame, Same
<1>1. targets'[r] # {} => pc'[r] \in {"scan", "connect", "remove"}
    BY DEF Targets
<1>2. ASSUME NEW q \in targets'[r] PROVE Target(r, q)'
  <2>1. q \in Ports /\ Target(r, q) /\ uses[q] \in Nat /\ Rebinds(p, q)
    BY <1>2 DEF Targets, TypeOK
  <2>2. \A s \in Slots : table'[r][s].port = q => ~Ended(table'[r][s])
    BY <2>1 DEF Target
  <2>3. uses'[q] >= 1 /\ (uses'[q] = 1 => uses[q] = 1)
    BY <2>1 DEF Target, Rebinds
  <2>4. ASSUME uses'[q] = 1 PROVE bound'[q] # r /\ ~Opening(q)'
    <3>1. uses[q] = 1 /\ bound[q] # r /\ ~Opening(q)
      BY <2>1, <2>3, <2>4 DEF Target
    <3> QED BY <2>1, <2>4, <3>1, OpeningBefore, Types DEF Rebinds
  <2>5. ASSUME Committed(q)', uses'[q] = 1, q \notin refused'
        PROVE  q \in todo'[r] \/ (pc'[r] = "connect" /\ cur'[r] = q) \/ Connected(r, q)'
    <3>1. uses[q] = 1 /\ q \notin refused /\ ~Opening(q)
      BY <2>1, <2>3, <2>5 DEF Target
    <3>2. Committed(q)
      BY <2>1, <2>5, <3>1, CommittedBefore
    <3> QED BY <2>1, <3>1, <3>2 DEF Target, Connected
  <2> QED BY <2>2, <2>3, <2>4, <2>5 DEF Target
<1> QED BY <1>1, <1>2 DEF Targets

\* A step that does all this preserves the invariant.
LEMMA Stepped ==
    ASSUME Inv, NEW p \in Procs, Step(p), TypeOK'
    PROVE  Inv'
<1> USE DEF Step
<1>1. \A r \in Procs : Local(r)'
    BY OtherLocal DEF Inv
<1>2. \A r \in Procs : Targets(r)'
    BY OtherTargets DEF Inv
<1>3. ListenerHasFile'
    BY CommittedBefore DEF Inv, ListenerHasFile, Loses, Frame
<1> QED BY <1>1, <1>2, <1>3 DEF Inv

-----------------------------------------------------------------------------
(* Steps that change no context and no socket.                             *)

LEMMA QuietLocal ==
    ASSUME Inv, NEW p \in Procs, UNCHANGED <<table, free, rpc, closing, bound, uses, refused>>
    PROVE  /\ Kept(p)' /\ Listeners(p)' /\ Free(p)' = Free(p)
           /\ \A q \in Ports : Rebinds(p, q)
<1>1. Free(p)' = Free(p)
    BY DEF Free
<1>2. Kept(p)'
    BY <1>1 DEF Inv, Local, Kept
<1>3. \A s \in Slots : (Released(p, s)' = Released(p, s)) /\ (Listens(p, s)' = Listens(p, s))
    BY <1>1 DEF Released, Listens
<1>4. \A s \in Slots : Listener(p, s)' = Listener(p, s)
    BY <1>3 DEF Listener
<1>5. Listeners(p)'
    BY <1>3, <1>4 DEF Inv, Local, Listeners
<1>6. \A q \in Ports : Rebinds(p, q)
    BY DEF Rebinds, Inv, TypeOK
<1> QED BY <1>1, <1>2, <1>5, <1>6

\* The same when the files stay as they are and the process opens no context
\* before or after: what is left is where the thread is and what it still
\* has to reach.
LEMMA QuietStep ==
    ASSUME Inv, NEW p \in Procs,
           UNCHANGED <<table, free, rpc, closing, bound, uses, refused, listening>>,
           \A r \in Procs \ {p} : pc'[r] = pc[r] /\ cur'[r] = cur[r] /\ todo'[r] = todo[r] /\ targets'[r] = targets[r],
           ~Opens(p), ~Opens(p)'
    PROVE  /\ Frame(p) /\ Gains(p)
           /\ Control(p)' /\ Peers(p)' => Local(p)'
           /\ \A q \in Ports : (Committed(q)' => Committed(q)) /\ (Opening(q)' => Opening(q))
<1>1. /\ Kept(p)' /\ Listeners(p)' /\ Free(p)' = Free(p)
      /\ \A q \in Ports : Rebinds(p, q)
    BY QuietLocal
<1>2. Frame(p)
    BY <1>1 DEF Frame, Same
<1>3. \A s \in Slots : Served(p, s)' = Served(p, s)
    BY <1>1, IsFreeIn DEF Served, Opens, IsFree
<1>4. Gains(p)
    BY <1>3 DEF Gains
<1>5. Control(p)' /\ Peers(p)' => Local(p)'
    BY <1>1 DEF Local
<1>6. ASSUME NEW q \in Ports, Opening(q)' PROVE Opening(q)
  <2>1. PICK r \in Procs : Opens(r)' /\ Port(r)' = q
    BY <1>6 DEF Opening
  <2> QED BY <2>1 DEF Opening, Opens, Port
<1>7. ASSUME NEW q \in Ports, Committed(q)' PROVE Committed(q)
  <2>1. PICK r \in Procs, s \in Slots : /\ bound'[q] = r /\ q \in listening' /\ Served(r, s)'
                                       /\ table'[r][s].state = "open" /\ table'[r][s].port = q
    BY <1>7 DEF Committed
  <2>2. Served(r, s)
    BY <1>3, <2>1 DEF Served, IsFree
  <2> QED BY <2>1, <2>2 DEF Committed
<1> QED BY <1>2, <1>4, <1>5, <1>6, <1>7

LEMMA OpenListenStep ==
    ASSUME Inv, NEW p \in Procs, OpenListen(p)
    PROVE  Step(p) /\ TypeOK'
<1> USE DEF OpenListen, Goto, readVars, histVars
<1>1. TypeOK /\ Opens(p) /\ Opens(p)' /\ Local(p) /\ Targets(p)
    BY DEF Inv, Opens, TypeOK
<1>2. TypeOK'
    BY <1>1 DEF TypeOK, Points
<1>3. Kept(p)' /\ Listeners(p)' /\ Free(p)' = Free(p) /\ \A q \in Ports : Rebinds(p, q)
    BY QuietLocal
<1>4. Frame(p)
    BY <1>1, <1>3 DEF Frame, Same, TypeOK
<1>5. \A s \in Slots : Served(p, s)' = Served(p, s)
    BY <1>1 DEF Served, Opens, IsFree
<1>6. Gains(p)
    BY <1>1, <1>5 DEF Gains, Port
<1>7. Control(p)'
    BY <1>1, <1>3 DEF Local, Control, TypeOK, Opens
<1>8. Peers(p)'
    BY <1>1 DEF Local, Peers, TypeOK
<1>9. Targets(p)'
    BY <1>1 DEF Targets
<1> QED BY <1>2, <1>3, <1>4, <1>6, <1>7, <1>8, <1>9 DEF Step, Local, Loses

LEMMA OpenCommitStep ==
    ASSUME Inv, NEW p \in Procs, OpenCommit(p)
    PROVE  Step(p) /\ TypeOK'
<1> USE DEF OpenCommit, Goto, readVars, histVars
<1>1. TypeOK /\ Opens(p) /\ ~Opens(p)' /\ Local(p) /\ Targets(p) /\ Port(p) \in Ports
    BY OpeningBound DEF Inv, Opens, TypeOK
<1>2. TypeOK'
    BY <1>1 DEF TypeOK, Points
<1>3. Kept(p)' /\ Listeners(p)' /\ Free(p)' = Free(p) /\ \A q \in Ports : Rebinds(p, q)
    BY QuietLocal
<1>4. Frame(p)
    BY <1>1, <1>3 DEF Frame, Same, TypeOK
<1>5. \A s \in Slots : Served(p, s)' => Served(p, s) \/ cur[p] = s
    BY <1>1 DEF Served, Opens, IsFree
<1>6. Gains(p)
    BY <1>1, <1>5 DEF Gains, Port
<1>7. Control(p)'
    BY <1>1, <1>3 DEF Local, Control, TypeOK, Opens
<1>8. Peers(p)'
    BY <1>1 DEF Local, Peers, TypeOK
<1>9. Targets(p)'
    BY <1>1 DEF Targets
<1> QED BY <1>2, <1>3, <1>4, <1>6, <1>7, <1>8, <1>9 DEF Step, Local, Loses

LEMMA ConnectCallStep ==
    ASSUME Inv, NEW p \in Procs, ConnectCall(p)
    PROVE  Step(p) /\ TypeOK'
<1> USE DEF ConnectCall, Goto, readVars, histVars, osVars
<1>1. TypeOK /\ ~Opens(p) /\ ~Opens(p)' /\ Local(p) /\ Targets(p)
    BY DEF Inv, Opens, TypeOK
<1>2. PICK q \in Ports : cur' = [cur EXCEPT ![p] = q]
    OBVIOUS
<1>3. TypeOK'
    BY <1>1, <1>2 DEF TypeOK, Points
<1>4. Frame(p) /\ Gains(p) /\ (Control(p)' /\ Peers(p)' => Local(p)')
    BY <1>1, <1>2, QuietStep DEF TypeOK
<1>5. Free(p)' = Free(p)
    BY DEF Free
<1>6. Control(p)'
    BY <1>1, <1>2, <1>5 DEF Local, Control, TypeOK, Opens
<1>7. Peers(p)'
    BY <1>1 DEF Local, Peers, TypeOK
<1>8. Targets(p)'
    BY <1>1 DEF Targets
<1> QED BY <1>3, <1>4, <1>6, <1>7, <1>8 DEF Step, Loses

LEMMA BroadcastStep ==
    ASSUME Inv, NEW p \in Procs, BroadcastTcp(p) \/ BroadcastUnix(p)
    PROVE  Step(p) /\ TypeOK'
<1>1. PICK d \in {files, paths} : Broadcast(p, d)
    BY DEF BroadcastTcp, BroadcastUnix
<1> USE <1>1 DEF Broadcast, Goto, readVars, histVars, osVars
<1>2. TypeOK /\ ~Opens(p) /\ ~Opens(p)' /\ Local(p) /\ d \subseteq Ports \cup Paths
    BY DEF Inv, Opens, TypeOK
<1>3. MustReach(p) \subseteq Ports
    BY DEF MustReach
<1>4. TypeOK'
    BY <1>2, <1>3 DEF TypeOK, Points
<1>5. /\ Frame(p) /\ Gains(p) /\ (Control(p)' /\ Peers(p)' => Local(p)')
      /\ \A q \in Ports : (Committed(q)' => Committed(q)) /\ (Opening(q)' => Opening(q))
    BY <1>2, QuietStep DEF TypeOK
<1>6. Free(p)' = Free(p)
    BY DEF Free
<1>7. Control(p)'
    BY <1>2, <1>6 DEF Local, Control, TypeOK, Opens
<1>8. Peers(p)'
    BY <1>2 DEF Local, Peers, TypeOK
<1>9. ASSUME NEW q \in targets'[p] PROVE Target(p, q)'
  <2>1. q \in MustReach(p) /\ d = files
    BY <1>2, <1>9 DEF TypeOK
  <2>2. /\ q \in Ports /\ Committed(q) /\ bound[q] # p /\ uses[q] = 1
        /\ \A s \in Slots : table[p][s].port = q => ~Ended(table[p][s])
    BY <2>1 DEF MustReach
  <2>3. ~Opening(q)
    BY <1>2, <2>2, CommittedNotOpening DEF Inv
  <2>4. q \notin refused => q \in todo'[p]
    BY <1>2, <2>1, <2>2 DEF Inv, ListenerHasFile, TypeOK
  <2> QED BY <1>5, <2>2, <2>3, <2>4 DEF Target
<1>10. Targets(p)'
    BY <1>2, <1>9 DEF Targets, TypeOK
<1> QED BY <1>4, <1>5, <1>7, <1>8, <1>10 DEF Step, Loses

\* A target that the broadcast skips is connected: its file is there, and no
\* context of the process listens on its port or kept it from a refusal.
LEMMA SkippedConnected ==
    ASSUME Inv, NEW p \in Procs, NEW q \in targets[p], ~Valid(p, q),
           Committed(q), uses[q] = 1, q \notin refused
    PROVE  Connected(p, q)
<1>1. TypeOK /\ Local(p) /\ q \in Ports /\ Target(p, q)
    BY DEF Inv, TypeOK, Targets
<1>2. q \in files
    BY <1>1 DEF Inv, ListenerHasFile
<1>3. PICK s \in Slots : table[p][s].state # "closed" /\ table[p][s].type = "tcp" /\ table[p][s].port = q
    BY <1>1, <1>2 DEF Valid, Exists, Filtered
<1>4. bound[q] # p /\ bound[q] # NULL
    BY <1>1, CommittedNotOpening DEF Target, Inv
<1>5. CASE table[p][s].state = "open"
  <2>1. s \notin Free(p)
    BY <1>1, <1>3, <1>5 DEF Local, Kept
  <2>2. Listener(p, s)
    BY <1>1, <1>5, <2>1 DEF Local, Listeners, Listens
  <2> QED BY <1>3, <1>4, <2>2 DEF Listener
<1>6. table[p][s].state \in {"closed", "open", "connected"}
    BY <1>1 DEF TypeOK, Records
<1> QED BY <1>3, <1>5, <1>6 DEF Connected

LEMMA ScanSkipStep ==
    ASSUME Inv, NEW p \in Procs, ScanSkip(p)
    PROVE  Step(p) /\ TypeOK'
<1> USE DEF ScanSkip, readVars, histVars, osVars
<1>1. TypeOK /\ ~Opens(p) /\ ~Opens(p)' /\ Local(p) /\ Targets(p)
    BY DEF Inv, Opens, TypeOK
<1>2. PICK e \in todo[p] : ~Valid(p, e) /\ todo' = [todo EXCEPT ![p] = @ \ {e}]
    OBVIOUS
<1>3. TypeOK'
    BY <1>1, <1>2 DEF TypeOK
<1>4. /\ Frame(p) /\ Gains(p) /\ (Control(p)' /\ Peers(p)' => Local(p)')
      /\ \A q \in Ports : (Committed(q)' => Committed(q)) /\ (Opening(q)' => Opening(q))
    BY <1>1, <1>2, QuietStep DEF TypeOK
<1>5. Free(p)' = Free(p)
    BY DEF Free
<1>6. Control(p)'
    BY <1>1, <1>5 DEF Local, Control, Opens
<1>7. Peers(p)'
    BY <1>1 DEF Local, Peers
<1>8. ASSUME NEW q \in targets[p] PROVE Target(p, q)'
  <2>1. q \in Ports /\ Target(p, q) /\ todo'[p] = todo[p] \ {e}
    BY <1>1, <1>2 DEF TypeOK, Targets
  <2>2. ASSUME Committed(q)', uses'[q] = 1, q \notin refused'
        PROVE  q \in todo'[p] \/ Connected(p, q)'
    <3>1. Committed(q) /\ uses[q] = 1 /\ q \notin refused
      BY <1>4, <2>1, <2>2
    <3>2. q \in todo[p] \/ Connected(p, q)
      BY <2>1, <3>1 DEF Target
    <3>3. q = e => Connected(p, q)
      BY <1>2, <3>1, SkippedConnected
    <3> QED BY <2>1, <3>2, <3>3 DEF Connected
  <2> QED BY <1>4, <2>1, <2>2 DEF Target
<1>9. Targets(p)'
    BY <1>1, <1>8 DEF Targets
<1> QED BY <1>3, <1>4, <1>6, <1>7, <1>9 DEF Step, Loses

LEMMA ScanTryStep ==
    ASSUME Inv, NEW p \in Procs, ScanTry(p)
    PROVE  Step(p) /\ TypeOK'
<1> USE DEF ScanTry, Goto, readVars, histVars, osVars
<1>1. TypeOK /\ ~Opens(p) /\ ~Opens(p)' /\ Local(p) /\ Targets(p)
    BY DEF Inv, Opens, TypeOK
<1>2. PICK e \in todo[p] : /\ Valid(p, e) /\ cur' = [cur EXCEPT ![p] = e]
                          /\ todo' = [todo EXCEPT ![p] = @ \ {e}]
    OBVIOUS
<1>3. TypeOK'
    BY <1>1, <1>2 DEF TypeOK, Points
<1>4. /\ Frame(p) /\ Gains(p) /\ (Control(p)' /\ Peers(p)' => Local(p)')
      /\ \A q \in Ports : (Committed(q)' => Committed(q)) /\ (Opening(q)' => Opening(q))
    BY <1>1, <1>2, QuietStep DEF TypeOK
<1>5. Free(p)' = Free(p) /\ cur'[p] = e /\ e \in Ports \cup Paths /\ pc'[p] = "connect"
    BY <1>1, <1>2 DEF Free, TypeOK
<1>6. Control(p)'
    BY <1>1, <1>5 DEF Local, Control, Opens
<1>7. ASSUME e \in Ports
      PROVE  bound[e] # p /\ \A s \in Slots : table[p][s].peer # NULL => table[p][s].port # e
  <2>1. ~Filtered(p, e)
    BY <1>2, <1>7 DEF Valid
  <2>2. bound[e] # p
    BY <1>1, <1>7, <2>1 DEF Local, Listeners, Listens, Listener, Filtered
  <2>3. \A s \in Slots : table[p][s].peer # NULL => table[p][s].port # e
    BY <1>1, <2>1 DEF Local, Peers, Filtered
  <2> QED BY <2>2, <2>3
<1>8. Peers(p)'
    BY <1>1, <1>5, <1>7 DEF Local, Peers
<1>9. ASSUME NEW q \in targets[p] PROVE Target(p, q)'
  <2>1. q \in Ports /\ Target(p, q) /\ todo'[p] = todo[p] \ {e}
    BY <1>1, <1>2 DEF TypeOK, Targets
  <2>2. ASSUME Committed(q)', uses'[q] = 1, q \notin refused'
        PROVE  q \in todo'[p] \/ (pc'[p] = "connect" /\ cur'[p] = q) \/ Connected(p, q)'
    <3>1. q \in todo[p] \/ Connected(p, q)
      BY <1>4, <2>1, <2>2 DEF Target
    <3> QED BY <1>5, <2>1, <3>1 DEF Connected
  <2> QED BY <1>4, <2>1, <2>2 DEF Target
<1>10. Targets(p)'
    BY <1>5, <1>9 DEF Targets
<1> QED BY <1>3, <1>4, <1>6, <1>8, <1>10 DEF Step, Loses

LEMMA RemoveStep ==
    ASSUME Inv, NEW p \in Procs, Remove(p)
    PROVE  Step(p) /\ TypeOK'
<1> USE DEF Remove, Goto, readVars, histVars
<1>1. TypeOK /\ ~Opens(p) /\ ~Opens(p)' /\ Local(p) /\ Targets(p)
    BY DEF Inv, Opens, TypeOK
<1>2. TypeOK'
    BY <1>1 DEF TypeOK, Points
<1>3. /\ Frame(p) /\ Gains(p) /\ (Control(p)' /\ Peers(p)' => Local(p)')
      /\ \A q \in Ports : (Committed(q)' => Committed(q)) /\ (Opening(q)' => Opening(q))
    BY <1>1, QuietStep DEF TypeOK
<1>4. Free(p)' = Free(p) /\ pc'[p] = "scan"
    BY <1>1 DEF Free, TypeOK
<1>5. Control(p)'
    BY <1>1, <1>4 DEF Local, Control, Opens
<1>6. Peers(p)'
    BY <1>1, <1>4 DEF Local, Peers
<1>7. ASSUME NEW q \in targets[p] PROVE Target(p, q)'
    BY <1>1, <1>3, <1>7 DEF Targets, Target, TypeOK, Connected
<1>8. Targets(p)'
    BY <1>4, <1>7 DEF Targets
<1>9. Loses
    BY <1>1 DEF Loses, Local, Control
<1> QED BY <1>2, <1>3, <1>5, <1>6, <1>8, <1>9 DEF Step

LEMMA ScanEndStep ==
    ASSUME Inv, NEW p \in Procs, ScanEnd(p)
    PROVE  Step(p) /\ TypeOK'
<1> USE DEF ScanEnd, Goto, readVars, histVars, osVars
<1>1. TypeOK /\ ~Opens(p) /\ ~Opens(p)' /\ Local(p)
    BY DEF Inv, Opens, TypeOK
<1>2. TypeOK'
    BY <1>1 DEF TypeOK, Points
<1>3. Frame(p) /\ Gains(p) /\ (Control(p)' /\ Peers(p)' => Local(p)')
    BY <1>1, QuietStep DEF TypeOK
<1>4. Free(p)' = Free(p) /\ pc'[p] = "idle" /\ targets'[p] = {}
    BY <1>1 DEF Free, TypeOK
<1>5. Control(p)'
    BY <1>1, <1>4 DEF Local, Control, Opens
<1>6. Peers(p)'
    BY <1>1, <1>4 DEF Local, Peers
<1>7. Targets(p)'
    BY <1>4 DEF Targets
<1> QED BY <1>2, <1>3, <1>5, <1>6, <1>7 DEF Step, Loses

-----------------------------------------------------------------------------
(* Steps that take, return or change a context.                            *)

\* What listens and where it is bound stays as it was, but for a context
\* whose socket is closed.
LEMMA ListenersKept ==
    ASSUME TypeOK, NEW p \in Procs, Local(p), UNCHANGED <<bound, uses>>,
           \A s \in Slots : Listens(p, s)' => /\ Listens(p, s) /\ (Released(p, s)' <=> Released(p, s))
                                              /\ table'[p][s].type = table[p][s].type
                                              /\ table'[p][s].port = table[p][s].port,
           \A s \in Slots : Listens(p, s) /\ ~Released(p, s) => Listens(p, s)'
    PROVE  Listeners(p)'
<1>1. Listeners(p)
    BY DEF Local
<1>2. ASSUME NEW s \in Slots, Listens(p, s)' PROVE Listener(p, s)'
    BY <1>1, <1>2 DEF Listeners, Listener
<1>3. ASSUME NEW s \in Slots, NEW t \in Slots, Listens(p, s)', ~Released(p, s)', Listens(p, t)', ~Released(p, t)',
             table'[p][s].port = table'[p][t].port
      PROVE  s = t
    BY <1>1, <1>3 DEF Listeners
<1>4. ASSUME NEW q \in Ports, bound'[q] = p
      PROVE  \E s \in Slots : Listens(p, s)' /\ ~Released(p, s)' /\ table'[p][s].port = q
    BY <1>1, <1>4 DEF Listeners
<1> QED BY <1>2, <1>3, <1>4 DEF Listeners

LEMMA SocketsKept ==
    ASSUME TypeOK, NEW p \in Procs, UNCHANGED <<bound, uses>>
    PROVE  \A q \in Ports : Rebinds(p, q)
    BY DEF TypeOK, Rebinds

LEMMA OpenFailsStep ==
    ASSUME Inv, NEW p \in Procs, OpenFails(p)
    PROVE  Step(p) /\ TypeOK'
<1> USE DEF OpenFails, readVars, histVars, osVars
<1>1. TypeOK /\ ~Opens(p) /\ ~Opens(p)' /\ Local(p) /\ Targets(p) /\ Kept(p)
    BY DEF Inv, Opens, Local
<1>2. PICK h \in Slots : h = Head(free[p])
    BY <1>1, RotateType
<1>3. /\ free' \in [Procs -> Seq(Slots)] /\ h \in Free(p) /\ Free(p)' = Free(p) /\ Distinct(free'[p])
      /\ \A r \in Procs \ {p} : free'[r] = free[r]
    BY <1>1, <1>2, RotateType
<1>4. Set(p, h, Cleared) /\ Cleared \in Records
    BY <1>2, ContextType DEF Set
<1>5. /\ table' \in [Procs -> [Slots -> Records]] /\ table'[p][h] = Cleared
      /\ \A t \in Slots \ {h} : table'[p][t] = table[p][t]
      /\ \A r \in Procs \ {p} : table'[r] = table[r]
    BY <1>1, <1>4, SetType
<1>6. TypeOK'
    BY <1>1, <1>3, <1>5 DEF TypeOK
<1>7. Frame(p)
    BY <1>1, <1>3, <1>5, SocketsKept DEF Frame, Same
<1>8. \A s \in Slots : Served(p, s)' => Served(p, s) /\ s # h
    BY <1>1, <1>3, IsFreeIn DEF Served, Opens
<1>9. Gains(p)
    BY <1>1, <1>5, <1>8 DEF Gains
<1>10. Control(p)'
    BY <1>1, <1>3, <1>5 DEF Local, Control, Opens, TypeOK
<1>11. Kept(p)'
    BY <1>1, <1>3, <1>5, ContextType, FreeSlots DEF Kept
<1>12. Listeners(p)'
    BY <1>1, <1>3, <1>5, ListenersKept DEF Listens, Released
<1>13. Peers(p)'
    BY <1>1, <1>5, ContextType DEF Local, Peers
<1>14. Targets(p)'
    BY <1>1 DEF Targets
<1> QED BY <1>6, <1>7, <1>9, <1>10, <1>11, <1>12, <1>13, <1>14 DEF Step, Loses, Local

LEMMA OpenStep ==
    ASSUME Inv, NEW p \in Procs, Open(p)
    PROVE  Step(p) /\ TypeOK'
<1> USE DEF Open, Goto, readVars
<1>1. TypeOK /\ ~Opens(p) /\ Local(p) /\ Targets(p) /\ Kept(p) /\ pc[p] = "idle"
    BY DEF Inv, Opens, Local
<1>2. PICK h \in Slots : h = Head(free[p])
    BY <1>1, TakeType
<1>3. /\ free' \in [Procs -> Seq(Slots)] /\ h \in Free(p) /\ Free(p)' = Free(p) \ {h} /\ Distinct(free'[p])
      /\ \A r \in Procs \ {p} : free'[r] = free[r]
    BY <1>1, <1>2, TakeType
<1>4. PICK q \in Ports : /\ bound[q] = NULL /\ bound' = [bound EXCEPT ![q] = p]
                        /\ uses' = [uses EXCEPT ![q] = @ + 1]
                        /\ Set(p, h, Context("tcp", "open", q, "null"))
    BY <1>2 DEF Set
<1>5. PICK c \in Records : c = Context("tcp", "open", q, "null")
    BY ContextType
<1>6. /\ Set(p, h, c) /\ c.type = "tcp" /\ c.state = "open" /\ c.port = q /\ c.peer = NULL
    BY <1>4, <1>5 DEF Context
<1>7. /\ table' \in [Procs -> [Slots -> Records]] /\ table'[p][h] = c
      /\ \A t \in Slots \ {h} : table'[p][t] = table[p][t]
      /\ \A r \in Procs \ {p} : table'[r] = table[r]
    BY <1>1, <1>6, SetType
<1>8. /\ pc' = [pc EXCEPT ![p] = "bound"] /\ cur' = [cur EXCEPT ![p] = h]
      /\ UNCHANGED <<files, paths, listening, todo, targets, rpc, closing, refused>>
    BY <1>2
<1>9. pc'[p] = "bound" /\ cur'[p] = h /\ Opens(p)' /\ Port(p)' = q
    BY <1>1, <1>6, <1>7, <1>8 DEF TypeOK, Opens, Port
<1> HIDE DEF Open
<1>10. TypeOK'
  <2>1. bound' \in [Ports -> Procs \cup {NULL}] /\ uses' \in [Ports -> Nat]
    BY <1>1, <1>4 DEF TypeOK
  <2>2. pc' \in [Procs -> Points] /\ cur' \in [Procs -> Slots \cup Ports \cup Paths \cup {NULL}]
    BY <1>1, <1>8 DEF TypeOK, Points
  <2> QED BY <1>1, <1>3, <1>7, <1>8, <2>1, <2>2 DEF TypeOK
<1>11. /\ bound'[q] = p /\ bound[q] = NULL /\ uses'[q] = uses[q] + 1 /\ uses[q] \in Nat
       /\ \A x \in Ports \ {q} : bound'[x] = bound[x] /\ uses'[x] = uses[x] /\ uses[x] \in Nat
    BY <1>1, <1>4 DEF TypeOK
<1>12. Frame(p)
  <2>1. \A x \in Ports : Rebinds(p, x)
    BY <1>11 DEF Rebinds
  <2> QED BY <1>1, <1>3, <1>7, <1>8, <2>1 DEF Frame, Same, TypeOK
<1>13. closing[p] # h
    BY <1>1, <1>3, Types DEF Local, Control
<1>14. \A s \in Slots : Served(p, s)' => Served(p, s) /\ s # h
    BY <1>1, <1>3, <1>8, <1>9, IsFreeIn DEF Served, Opens
<1>15. Gains(p)
    BY <1>7, <1>9, <1>11, <1>14 DEF Gains
<1>16. Control(p)'
    BY <1>1, <1>3, <1>6, <1>7, <1>8, <1>9, <1>13 DEF Local, Control, TypeOK
<1>17. Kept(p)'
    BY <1>1, <1>3, <1>7, <1>8, FreeSlots DEF Kept
<1>18. \A s \in Slots : Released(p, s)' = Released(p, s) /\ ~Released(p, h)
    BY <1>8, <1>13 DEF Released
<1>19. \A s \in Slots \ {h} : (Listens(p, s)' <=> Listens(p, s)) /\ table'[p][s] = table[p][s]
    BY <1>3, <1>7 DEF Listens
<1>20. Listens(p, h)' /\ ~Listens(p, h)
    BY <1>3, <1>6, <1>7 DEF Listens
<1>21. Listeners(p)'
  <2>1. ASSUME NEW s \in Slots, Listens(p, s)' PROVE Listener(p, s)'
    <3>1. CASE s = h
      BY <1>6, <1>7, <1>11, <1>18, <3>1 DEF Listener
    <3>2. CASE s # h
      <4>1. Listener(p, s)
        BY <1>1, <1>19, <2>1, <3>2 DEF Local, Listeners
      <4> QED BY <1>11, <1>18, <1>19, <3>2, <4>1 DEF Listener
    <3> QED BY <3>1, <3>2
  <2>2. \A s \in Slots \ {h} : Listens(p, s) /\ ~Released(p, s) => table[p][s].port # q
    BY <1>1, <1>11, Types DEF Local, Listeners, Listener
  <2>3. ASSUME NEW s \in Slots, NEW t \in Slots, Listens(p, s)', ~Released(p, s)', Listens(p, t)', ~Released(p, t)',
               table'[p][s].port = table'[p][t].port
        PROVE  s = t
    BY <1>1, <1>6, <1>7, <1>18, <1>19, <2>2, <2>3 DEF Local, Listeners
  <2>4. ASSUME NEW x \in Ports, bound'[x] = p
        PROVE  \E s \in Slots : Listens(p, s)' /\ ~Released(p, s)' /\ table'[p][s].port = x
    <3>1. CASE x = q
      BY <1>6, <1>7, <1>18, <1>20, <3>1
    <3>2. CASE x # q
      <4>1. PICK s \in Slots : Listens(p, s) /\ ~Released(p, s) /\ table[p][s].port = x
        BY <1>1, <1>11, <2>4, <3>2 DEF Local, Listeners
      <4> QED BY <1>18, <1>19, <1>20, <4>1
    <3> QED BY <3>1, <3>2
  <2> QED BY <2>1, <2>3, <2>4 DEF Listeners
<1>22. Peers(p)'
    BY <1>1, <1>6, <1>7, <1>9 DEF Local, Peers
<1>23. Targets(p)'
    BY <1>1, <1>8 DEF Targets
<1> QED BY <1>8, <1>10, <1>12, <1>15, <1>16, <1>17, <1>21, <1>22, <1>23 DEF Step, Loses, Local

LEMMA OpenListenFailsStep ==
    ASSUME Inv, NEW p \in Procs, OpenListenFails(p)
    PROVE  Step(p) /\ TypeOK'
<1> USE DEF OpenListenFails, Goto, readVars, histVars
<1>1. TypeOK /\ Opens(p) /\ Local(p) /\ Targets(p) /\ Kept(p) /\ pc[p] = "bound"
    BY DEF Inv, Opens, Local
<1>2. PICK k \in Slots : k = cur[p]
    BY <1>1, OpeningBound
<1>3. PICK q \in Ports : q = Port(p)
    BY <1>1, OpeningBound
<1>4. /\ k \notin Free(p) /\ table[p][k].state = "open" /\ table[p][k].port = q /\ bound[q] = p
      /\ closing[p] # k /\ ~Released(p, k) /\ Listens(p, k)
    BY <1>1, <1>2, <1>3, OpeningBound DEF Port, Listens
<1>5. /\ free' \in [Procs -> Seq(Slots)] /\ Free(p)' = Free(p) \cup {k} /\ Distinct(free'[p])
      /\ \A r \in Procs \ {p} : free'[r] = free[r]
    BY <1>1, <1>2, <1>4, ReturnType
<1>6. Set(p, k, Cleared) /\ Cleared \in Records
    BY <1>2, ContextType DEF Set
<1>7. /\ table' \in [Procs -> [Slots -> Records]] /\ table'[p][k] = Cleared
      /\ \A t \in Slots \ {k} : table'[p][t] = table[p][t]
      /\ \A r \in Procs \ {p} : table'[r] = table[r]
    BY <1>1, <1>6, SetType
<1>8. /\ pc' = [pc EXCEPT ![p] = "idle"] /\ cur' = [cur EXCEPT ![p] = NULL]
      /\ bound' = [bound EXCEPT ![q] = NULL]
      /\ UNCHANGED <<files, paths, listening, todo, targets, rpc, closing, refused, uses>>
    BY <1>3
<1> HIDE DEF OpenListenFails
<1>9. pc'[p] = "idle" /\ ~Opens(p)'
    BY <1>1, <1>8 DEF TypeOK, Opens
<1>10. TypeOK'
  <2>1. bound' \in [Ports -> Procs \cup {NULL}] /\ pc' \in [Procs -> Points]
    BY <1>1, <1>8 DEF TypeOK, Points
  <2>2. cur' \in [Procs -> Slots \cup Ports \cup Paths \cup {NULL}]
    BY <1>1, <1>8 DEF TypeOK
  <2> QED BY <1>1, <1>5, <1>7, <1>8, <2>1, <2>2 DEF TypeOK
<1>11. bound'[q] = NULL /\ \A x \in Ports \ {q} : bound'[x] = bound[x]
    BY <1>1, <1>8 DEF TypeOK
<1>12. Frame(p)
  <2>1. \A x \in Ports : Rebinds(p, x)
    BY <1>1, <1>4, <1>8, <1>11 DEF Rebinds, TypeOK
  <2> QED BY <1>1, <1>5, <1>7, <1>8, <2>1 DEF Frame, Same, TypeOK
<1>13. \A s \in Slots : Served(p, s)' => Served(p, s) /\ s # k
    BY <1>2, <1>5, <1>8, IsFreeIn DEF Served
<1>14. Gains(p)
    BY <1>7, <1>9, <1>13 DEF Gains
<1>15. Control(p)'
    BY <1>1, <1>4, <1>5, <1>7, <1>8, <1>9 DEF Local, Control, TypeOK
<1>16. Kept(p)'
  <2>1. table'[p][k].peer = NULL /\ table'[p][k].state = "closed"
    BY <1>7, ContextType
  <2>2. ASSUME NEW s \in Free(p), s # k PROVE table'[p][s] = table[p][s]
    BY <1>1, <1>7, <2>2, FreeSlots
  <2> QED BY <1>1, <1>5, <1>8, <2>1, <2>2 DEF Kept
<1>17. /\ \A s \in Slots : Released(p, s)' = Released(p, s)
       /\ \A s \in Slots \ {k} : (Listens(p, s)' <=> Listens(p, s)) /\ table'[p][s] = table[p][s]
       /\ ~Listens(p, k)'
    BY <1>5, <1>7, <1>8 DEF Released, Listens
<1>18. Listeners(p)'
  <2>1. ASSUME NEW s \in Slots \ {k}, Listens(p, s), ~Released(p, s) PROVE table[p][s].port # q
    BY <1>1, <1>4, <2>1 DEF Local, Listeners
  <2>2. ASSUME NEW s \in Slots, Listens(p, s)' PROVE Listener(p, s)'
    <3>1. s # k /\ Listener(p, s) /\ Listens(p, s)
      BY <1>1, <1>17, <2>2 DEF Local, Listeners
    <3> QED BY <1>8, <1>11, <1>17, <2>1, <3>1 DEF Listener
  <2>3. ASSUME NEW s \in Slots, NEW t \in Slots, Listens(p, s)', ~Released(p, s)', Listens(p, t)', ~Released(p, t)',
               table'[p][s].port = table'[p][t].port
        PROVE  s = t
    BY <1>1, <1>17, <2>3 DEF Local, Listeners
  <2>4. ASSUME NEW x \in Ports, bound'[x] = p
        PROVE  \E s \in Slots : Listens(p, s)' /\ ~Released(p, s)' /\ table'[p][s].port = x
    <3>1. x # q /\ bound[x] = p
      BY <1>11, <2>4, Types
    <3>2. PICK s \in Slots : Listens(p, s) /\ ~Released(p, s) /\ table[p][s].port = x
      BY <1>1, <3>1 DEF Local, Listeners
    <3> QED BY <1>4, <1>17, <3>1, <3>2
  <2> QED BY <2>2, <2>3, <2>4 DEF Listeners
<1>19. Peers(p)'
    BY <1>1, <1>7, <1>9, ContextType DEF Local, Peers
<1>20. Targets(p)'
    BY <1>1, <1>8 DEF Targets
<1> QED BY <1>8, <1>10, <1>12, <1>14, <1>15, <1>16, <1>18, <1>19, <1>20 DEF Step, Loses, Local

\* Steps that may be part of a broadcast: the ports that are committed and
\* being opened afterwards were so before, if sockets and ports stay.
LEMMA TargetBefore ==
    ASSUME Inv, NEW p \in Procs, Frame(p), Gains(p), NEW q \in targets[p], UNCHANGED uses
    PROVE  /\ q \in Ports /\ Target(p, q)
           /\ uses[q] = 1 => ~Opening(q)'
           /\ Committed(q)' /\ uses'[q] = 1 => Committed(q)
<1>1. TypeOK /\ q \in Ports /\ Target(p, q) /\ uses[q] \in Nat
    BY DEF Inv, TypeOK, Targets
<1>2. uses[q] = 1 => ~Opening(q) /\ ~Opening(q)'
    BY <1>1, OpeningBefore DEF Target
<1>3. Committed(q)' /\ uses'[q] = 1 => Committed(q)
    BY <1>1, <1>2, CommittedBefore DEF Inv
<1> QED BY <1>1, <1>2, <1>3

LEMMA ConnectSucceedsStep ==
    ASSUME Inv, NEW p \in Procs, ConnectSucceeds(p)
    PROVE  Step(p) /\ TypeOK'
<1> USE DEF ConnectSucceeds, readVars, histVars
<1>1. TypeOK /\ ~Opens(p) /\ Local(p) /\ Targets(p) /\ Kept(p) /\ pc[p] \in {"connect", "appconnect"}
    BY DEF Inv, Opens, Local
<1>2. PICK h \in Slots : h = Head(free[p])
    BY <1>1, TakeType
<1>3. /\ free' \in [Procs -> Seq(Slots)] /\ h \in Free(p) /\ Free(p)' = Free(p) \ {h} /\ Distinct(free'[p])
      /\ \A r \in Procs \ {p} : free'[r] = free[r]
    BY <1>1, <1>2, TakeType
<1>4. PICK e \in Ports \cup Paths : e = cur[p]
    BY <1>1 DEF Local, Control
<1>5. PICK v \in Procs \cup {NULL} : v = IF pc[p] = "connect" /\ e \in Ports THEN bound[e] ELSE NULL
    BY <1>1 DEF TypeOK
<1> DEFINE b == Connecting(e, "connected")
           c == [b EXCEPT !.peer = v]
<1>6. /\ c \in Records /\ c.state = "connected" /\ ~Ended(c)
      /\ e \in Ports => c.type = "tcp" /\ c.port = e
      /\ c.peer # NULL => pc[p] = "connect" /\ e \in Ports /\ c.peer = bound[e]
  <2>1. /\ b \in Records /\ b.state = "connected" /\ ~Ended(b)
        /\ e \in Ports => b.type = "tcp" /\ b.port = e
    BY ContextType
  <2> HIDE DEF b
  <2>2. c \in Records /\ c.peer = v
    BY <2>1 DEF Records
  <2>3. /\ c.state = b.state /\ c.type = b.type /\ c.port = b.port
        /\ c.shutdown = b.shutdown /\ c.hung = b.hung
    BY <2>1 DEF Records
  <2>4. ~Ended(c)
    BY <2>1, <2>3 DEF Ended
  <2> QED BY <1>5, <2>1, <2>2, <2>3, <2>4
<1>7. Set(p, h, c)
    BY <1>2, <1>4, <1>5 DEF Set
<1> HIDE DEF c
<1>8. /\ table' \in [Procs -> [Slots -> Records]] /\ table'[p][h] = c
      /\ \A t \in Slots \ {h} : table'[p][t] = table[p][t]
      /\ \A r \in Procs \ {p} : table'[r] = table[r]
    BY <1>1, <1>6, <1>7, SetType
<1>9. /\ pc' = [pc EXCEPT ![p] = IF @ = "connect" THEN "scan" ELSE "idle"]
      /\ cur' = [cur EXCEPT ![p] = NULL]
      /\ UNCHANGED <<files, paths, bound, listening, todo, targets, rpc, closing, refused, uses>>
    OBVIOUS
<1> HIDE DEF ConnectSucceeds
<1>10. pc'[p] = (IF pc[p] = "connect" THEN "scan" ELSE "idle") /\ ~Opens(p)'
    BY <1>1, <1>9 DEF TypeOK, Opens
<1>11. TypeOK'
  <2>1. pc' \in [Procs -> Points]
    BY <1>1, <1>9 DEF TypeOK, Points
  <2>2. cur' \in [Procs -> Slots \cup Ports \cup Paths \cup {NULL}]
    BY <1>1, <1>9 DEF TypeOK
  <2> QED BY <1>1, <1>3, <1>8, <1>9, <2>1, <2>2 DEF TypeOK
<1>12. Frame(p)
    BY <1>1, <1>3, <1>8, <1>9, SocketsKept DEF Frame, Same, TypeOK
<1>13. \A s \in Slots : Served(p, s)' => Served(p, s) \/ s = h
    BY <1>1, <1>3, <1>9, <1>10, IsFreeIn DEF Served, Opens
<1>14. Gains(p)
    BY <1>6, <1>8, <1>10, <1>13 DEF Gains
<1>15. closing[p] # h
    BY <1>1, <1>3, Types DEF Local, Control
<1>16. Control(p)'
    BY <1>1, <1>3, <1>8, <1>9, <1>10, <1>15 DEF Local, Control, TypeOK
<1>17. Kept(p)'
    BY <1>1, <1>3, <1>8, <1>9, FreeSlots DEF Kept
<1>18. Listeners(p)'
    BY <1>1, <1>3, <1>6, <1>8, <1>9, ListenersKept DEF Listens, Released
<1>19. Peers(p)'
  <2>1. c.peer # NULL => /\ c.peer # p
                         /\ \A s \in Slots : table[p][s].peer # NULL => table[p][s].port # e
    BY <1>1, <1>4, <1>6 DEF Local, Peers
  <2> QED BY <1>1, <1>6, <1>8, <1>10, <2>1 DEF Local, Peers
<1>20. ASSUME NEW q \in targets[p] PROVE Target(p, q)'
  <2>1. /\ q \in Ports /\ Target(p, q) /\ (uses[q] = 1 => ~Opening(q)')
        /\ Committed(q)' /\ uses'[q] = 1 => Committed(q)
    BY <1>9, <1>12, <1>14, TargetBefore
  <2>2. \A s \in Slots : table'[p][s].port = q => ~Ended(table'[p][s])
    BY <1>6, <1>8, <2>1 DEF Target
  <2>3. ASSUME Committed(q)', uses'[q] = 1, q \notin refused' PROVE q \in todo'[p] \/ Connected(p, q)'
    <3>1. q \in todo[p] \/ cur[p] = q \/ Connected(p, q)
      BY <1>9, <2>1, <2>3 DEF Target
    <3>2. CASE cur[p] = q
      BY <1>4, <1>6, <1>8, <2>1, <3>2 DEF Connected
    <3>3. CASE Connected(p, q)
      <4>1. PICK s \in Slots : table[p][s].state = "connected" /\ table[p][s].port = q
        BY <3>3 DEF Connected
      <4>2. s # h
        BY <1>1, <1>3, <4>1 DEF Kept
      <4> QED BY <1>8, <4>1, <4>2 DEF Connected
    <3> QED BY <1>9, <3>1, <3>2, <3>3
  <2> QED BY <1>9, <2>1, <2>2, <2>3 DEF Target
<1>21. Targets(p)'
    BY <1>1, <1>9, <1>10, <1>20 DEF Targets
<1> QED BY <1>9, <1>11, <1>12, <1>14, <1>16, <1>17, <1>18, <1>19, <1>21 DEF Step, Loses, Local

LEMMA ConnectFailsStep ==
    ASSUME Inv, NEW p \in Procs, ConnectFails(p)
    PROVE  Step(p) /\ TypeOK'
<1> USE DEF ConnectFails, readVars, osVars
<1>1. TypeOK /\ ~Opens(p) /\ Local(p) /\ Targets(p) /\ Kept(p) /\ pc[p] \in {"connect", "appconnect"}
    BY DEF Inv, Opens, Local
<1>2. PICK h \in Slots : h = Head(free[p])
    BY <1>1, RotateType
<1>3. /\ free' \in [Procs -> Seq(Slots)] /\ h \in Free(p) /\ Free(p)' = Free(p) /\ Distinct(free'[p])
      /\ \A r \in Procs \ {p} : free'[r] = free[r]
    BY <1>1, <1>2, RotateType
<1>4. PICK e \in Ports \cup Paths : e = cur[p]
    BY <1>1 DEF Local, Control
<1>5. PICK c : c = Connecting(e, "open")
    OBVIOUS
<1>6. /\ c \in Records /\ c.state = "open" /\ ~Ended(c) /\ c.peer = NULL
      /\ e \in Ports => c.type = "tcp" /\ c.port = e
      /\ e \notin Ports => c.type = "unix"
    BY <1>5, ContextType
<1>7. Set(p, h, c)
    BY <1>2, <1>4, <1>5 DEF Set
<1>8. /\ table' \in [Procs -> [Slots -> Records]] /\ table'[p][h] = c
      /\ \A t \in Slots \ {h} : table'[p][t] = table[p][t]
      /\ \A r \in Procs \ {p} : table'[r] = table[r]
    BY <1>1, <1>6, <1>7, SetType
<1>9. /\ pc' = [pc EXCEPT ![p] = IF @ = "connect" THEN "remove" ELSE "idle"]
      /\ cur' = IF pc[p] = "connect" THEN cur ELSE [cur EXCEPT ![p] = NULL]
      /\ refused' = refused \cup ({e} \cap Ports)
      /\ UNCHANGED <<files, paths, bound, listening, todo, targets, rpc, closing, uses>>
    BY <1>4
<1> HIDE DEF ConnectFails
<1>10. /\ pc'[p] = (IF pc[p] = "connect" THEN "remove" ELSE "idle") /\ ~Opens(p)'
       /\ pc[p] = "connect" => cur'[p] = e
    BY <1>1, <1>4, <1>9 DEF TypeOK, Opens
<1>11. TypeOK'
  <2>1. pc' \in [Procs -> Points]
    BY <1>1, <1>9 DEF TypeOK, Points
  <2>2. cur' \in [Procs -> Slots \cup Ports \cup Paths \cup {NULL}]
    BY <1>1, <1>9 DEF TypeOK
  <2> QED BY <1>1, <1>3, <1>8, <1>9, <2>1, <2>2 DEF TypeOK
<1>12. Frame(p)
    BY <1>1, <1>3, <1>8, <1>9, SocketsKept DEF Frame, Same, TypeOK
<1>13. \A s \in Slots : Served(p, s)' => Served(p, s) /\ s # h
    BY <1>1, <1>3, <1>9, <1>10, IsFreeIn DEF Served, Opens
<1>14. Gains(p)
    BY <1>8, <1>10, <1>13 DEF Gains
<1>15. Control(p)'
    BY <1>1, <1>3, <1>8, <1>9, <1>10 DEF Local, Control, TypeOK
<1>16. Kept(p)'
    BY <1>1, <1>3, <1>6, <1>8, <1>9, FreeSlots DEF Kept
<1>17. Listeners(p)'
    BY <1>1, <1>3, <1>8, <1>9, ListenersKept DEF Listens, Released
<1>18. Peers(p)'
    BY <1>1, <1>6, <1>8, <1>10 DEF Local, Peers
<1>19. ASSUME NEW q \in targets[p] PROVE Target(p, q)'
  <2>1. /\ q \in Ports /\ Target(p, q) /\ (uses[q] = 1 => ~Opening(q)')
        /\ Committed(q)' /\ uses'[q] = 1 => Committed(q)
    BY <1>9, <1>12, <1>14, TargetBefore
  <2>2. \A s \in Slots : table'[p][s].port = q => ~Ended(table'[p][s])
    BY <1>6, <1>8, <2>1 DEF Target
  <2>3. ASSUME Committed(q)', uses'[q] = 1, q \notin refused' PROVE q \in todo'[p] \/ Connected(p, q)'
    <3>1. q # cur[p] /\ q \notin refused
      BY <1>4, <1>9, <2>1, <2>3
    <3>2. q \in todo[p] \/ Connected(p, q)
      BY <1>9, <2>1, <2>3, <3>1 DEF Target
    <3>3. CASE Connected(p, q)
      <4>1. PICK s \in Slots : table[p][s].state = "connected" /\ table[p][s].port = q
        BY <3>3 DEF Connected
      <4>2. s # h
        BY <1>1, <1>3, <4>1 DEF Kept
      <4> QED BY <1>8, <4>1, <4>2 DEF Connected
    <3> QED BY <1>9, <3>2, <3>3
  <2> QED BY <1>9, <2>1, <2>2, <2>3 DEF Target
<1>20. Targets(p)'
    BY <1>1, <1>9, <1>10, <1>19 DEF Targets
<1> QED BY <1>9, <1>11, <1>12, <1>14, <1>15, <1>16, <1>17, <1>18, <1>20 DEF Step, Loses, Local

LEMMA AcceptStep ==
    ASSUME Inv, NEW p \in Procs, Accept(p)
    PROVE  Step(p) /\ TypeOK'
<1> USE DEF Accept, appVars, readVars, histVars
<1>1. TypeOK /\ Local(p) /\ Targets(p) /\ Kept(p)
    BY DEF Inv, Local
<1>2. PICK h \in Slots : h = Head(free[p])
    BY <1>1, TakeType
<1>3. /\ free' \in [Procs -> Seq(Slots)] /\ h \in Free(p) /\ Free(p)' = Free(p) \ {h} /\ Distinct(free'[p])
      /\ \A r \in Procs \ {p} : free'[r] = free[r]
    BY <1>1, <1>2, TakeType
<1>4. PICK l \in Slots : Set(p, h, [table[p][h] EXCEPT !.type = table[p][l].type, !.state = "connected",
                                                      !.shutdown = FALSE, !.hung = FALSE])
    BY <1>2 DEF Set
<1>5. PICK c : c = [table[p][h] EXCEPT !.type = table[p][l].type, !.state = "connected", !.shutdown = FALSE,
                                        !.hung = FALSE]
    OBVIOUS
<1>6. c \in Records /\ c.state = "connected" /\ ~Ended(c) /\ c.peer = NULL
  <2>1. table[p][h] \in Records /\ table[p][l].type \in {"none", "tcp", "unix"} /\ table[p][h].peer = NULL
    BY <1>1, <1>3 DEF TypeOK, Kept, Records
  <2> QED BY <1>5, <2>1 DEF Records, Ended
<1>7. Set(p, h, c)
    BY <1>4, <1>5 DEF Set
<1>8. /\ table' \in [Procs -> [Slots -> Records]] /\ table'[p][h] = c
      /\ \A t \in Slots \ {h} : table'[p][t] = table[p][t]
      /\ \A r \in Procs \ {p} : table'[r] = table[r]
    BY <1>1, <1>6, <1>7, SetType
<1>9. UNCHANGED <<files, paths, bound, listening, pc, cur, todo, targets, rpc, closing, refused, uses>>
    OBVIOUS
<1> HIDE DEF Accept
<1>10. Opens(p)' = Opens(p) /\ closing[p] # h /\ (Opens(p) => cur[p] \in Slots \ {h})
    BY <1>1, <1>3, <1>9, OpeningBound, Types DEF Opens, Local, Control
<1>11. TypeOK'
    BY <1>1, <1>3, <1>8, <1>9 DEF TypeOK
<1>12. Frame(p)
    BY <1>1, <1>3, <1>8, <1>9, SocketsKept DEF Frame, Same
<1>13. \A s \in Slots : Served(p, s)' => Served(p, s) \/ s = h
    BY <1>3, <1>9, IsFreeIn DEF Served
<1>14. Gains(p)
    BY <1>6, <1>8, <1>9, <1>10, <1>13 DEF Gains, Port
<1>15. Control(p)'
  <2>1. Opens(p) => table'[p][cur[p]] = table[p][cur[p]]
    BY <1>8, <1>10
  <2>2. closing[p] # NULL => closing[p] \in Slots \ {h} /\ table'[p][closing[p]] = table[p][closing[p]]
    BY <1>1, <1>8, <1>10 DEF TypeOK
  <2> QED BY <1>1, <1>3, <1>9, <1>10, <2>1, <2>2 DEF Local, Control
<1>16. Kept(p)'
    BY <1>1, <1>3, <1>8, <1>9, FreeSlots DEF Kept
<1>17. Listeners(p)'
    BY <1>1, <1>3, <1>6, <1>8, <1>9, ListenersKept DEF Listens, Released
<1>18. Peers(p)'
    BY <1>1, <1>6, <1>8, <1>9 DEF Local, Peers
<1>19. ASSUME NEW q \in targets[p] PROVE Target(p, q)'
  <2>1. /\ q \in Ports /\ Target(p, q) /\ (uses[q] = 1 => ~Opening(q)')
        /\ Committed(q)' /\ uses'[q] = 1 => Committed(q)
    BY <1>9, <1>12, <1>14, TargetBefore
  <2>2. \A s \in Slots : table'[p][s].port = q => ~Ended(table'[p][s])
    BY <1>6, <1>8, <2>1 DEF Target
  <2>3. Connected(p, q) => Connected(p, q)'
    BY <1>1, <1>3, <1>8 DEF Connected, Kept
  <2> QED BY <1>9, <2>1, <2>2, <2>3 DEF Target
<1>20. Targets(p)'
    BY <1>1, <1>9, <1>19 DEF Targets
<1> QED BY <1>9, <1>11, <1>12, <1>14, <1>15, <1>16, <1>17, <1>18, <1>20 DEF Step, Loses, Local

(* One end of a connection closes, or the read thread sees that it did.    *)
LEMMA MarkStep ==
    ASSUME Inv, NEW p \in Procs, NEW s \in Slots, Served(p, s), NEW c \in Records, Set(p, s, c),
           c.state = table[p][s].state, c.type = table[p][s].type, c.port = table[p][s].port,
           c.peer = table[p][s].peer,
           UNCHANGED <<files, paths, bound, listening, free, pc, cur, todo, rpc, closing, refused, uses>>,
           \/ targets' = [targets EXCEPT ![p] = @ \ {table[p][s].port}]
           \/ targets' = targets /\ table[p][s].hung
    PROVE  Step(p) /\ TypeOK'
<1>1. TypeOK /\ Local(p) /\ Targets(p) /\ Kept(p)
    BY DEF Inv, Local
<1>2. /\ table' \in [Procs -> [Slots -> Records]] /\ table'[p][s] = c
      /\ \A t \in Slots \ {s} : table'[p][t] = table[p][t]
      /\ \A r \in Procs \ {p} : table'[r] = table[r]
    BY <1>1, SetType
<1>3. \A t \in Slots : /\ table'[p][t].state = table[p][t].state /\ table'[p][t].type = table[p][t].type
                       /\ table'[p][t].port = table[p][t].port /\ table'[p][t].peer = table[p][t].peer
    BY <1>2
<1>4. s \notin Free(p) /\ closing[p] # s /\ Free(p)' = Free(p) /\ (Opens(p) => cur[p] # s) /\ (Opens(p)' <=> Opens(p))
    BY IsFreeIn DEF Served, Free, Opens
<1>5. /\ targets' \in [Procs -> SUBSET Ports]
      /\ \A r \in Procs \ {p} : targets'[r] = targets[r]
      /\ targets'[p] \subseteq targets[p] /\ table[p][s].port \notin targets'[p]
  <2>1. CASE targets' = [targets EXCEPT ![p] = @ \ {table[p][s].port}]
    BY <1>1, <2>1 DEF TypeOK
  <2>2. CASE targets' = targets /\ table[p][s].hung
    BY <1>1, <2>2 DEF TypeOK, Targets, Target, Ended
  <2> QED BY <2>1, <2>2
<1>6. TypeOK'
    BY <1>1, <1>2, <1>5 DEF TypeOK
<1>7. Frame(p)
    BY <1>1, <1>2, <1>5, SocketsKept DEF Frame, Same
<1>8. \A t \in Slots : Served(p, t)' <=> Served(p, t)
    BY <1>4 DEF Served, IsFree
<1>9. Opens(p) => Port(p)' = Port(p)
    BY <1>1, <1>3, OpeningBound DEF Port
<1>10. Gains(p)
    BY <1>3, <1>4, <1>8, <1>9 DEF Gains
<1>11. Control(p)'
  <2>1. closing[p] # NULL => table'[p][closing[p]] = table[p][closing[p]]
    BY <1>1, <1>2, <1>4 DEF TypeOK
  <2>2. Opens(p) => table'[p][cur[p]].state = "open"
    BY <1>1, <1>3, OpeningBound
  <2> QED BY <1>1, <1>4, <2>1, <2>2 DEF Local, Control
<1>12. Kept(p)'
    BY <1>1, <1>3, <1>4, FreeSlots DEF Kept
<1>13. Listeners(p)'
    BY <1>1, <1>3, <1>4, ListenersKept DEF Listens, Released
<1>14. Peers(p)'
    BY <1>1, <1>3 DEF Local, Peers
<1>15. ASSUME NEW q \in targets'[p] PROVE Target(p, q)'
  <2>1. q \in targets[p] /\ q # table[p][s].port
    BY <1>5, <1>15
  <2>2. /\ q \in Ports /\ Target(p, q) /\ (uses[q] = 1 => ~Opening(q)')
        /\ Committed(q)' /\ uses'[q] = 1 => Committed(q)
    BY <1>7, <1>10, <2>1, TargetBefore
  <2>3. \A t \in Slots : table'[p][t].port = q => ~Ended(table'[p][t])
    BY <1>2, <1>3, <2>1, <2>2 DEF Target
  <2>4. Connected(p, q) => Connected(p, q)'
    BY <1>3 DEF Connected
  <2> QED BY <2>2, <2>3, <2>4 DEF Target
<1>16. Targets(p)'
    BY <1>1, <1>5, <1>15 DEF Targets
<1> QED BY <1>6, <1>7, <1>10, <1>11, <1>12, <1>13, <1>14, <1>16 DEF Step, Loses, Local

LEMMA EndsStep ==
    ASSUME Inv, NEW p \in Procs, CloseContext(p) \/ HangUp(p) \/ SeeHangup(p)
    PROVE  Step(p) /\ TypeOK'
<1> USE DEF readVars, histVars, osVars, appVars
<1>1. TypeOK
    BY DEF Inv
<1>2. UNCHANGED <<files, paths, bound, listening, free, pc, cur, todo, rpc, closing, refused, uses>>
    BY DEF CloseContext, HangUp, SeeHangup
<1>3. ASSUME NEW s \in Slots
      PROVE  /\ [table[p][s] EXCEPT !.shutdown = TRUE] \in Records /\ [table[p][s] EXCEPT !.hung = TRUE] \in Records
             /\ \A c \in {[table[p][s] EXCEPT !.shutdown = TRUE], [table[p][s] EXCEPT !.hung = TRUE]} :
                    /\ c.state = table[p][s].state /\ c.type = table[p][s].type
                    /\ c.port = table[p][s].port /\ c.peer = table[p][s].peer
  <2>1. table[p][s] \in Records
    BY <1>1 DEF TypeOK
  <2> QED BY <2>1 DEF Records
<1>4. CASE CloseContext(p)
  <2>1. PICK s \in Slots : Served(p, s) /\ End(p, s, [table[p][s] EXCEPT !.shutdown = TRUE])
    BY <1>4 DEF CloseContext
  <2>2. PICK c \in Records : c = [table[p][s] EXCEPT !.shutdown = TRUE]
    BY <1>3
  <2>3. Set(p, s, c) /\ targets' = [targets EXCEPT ![p] = @ \ {table[p][s].port}]
    BY <2>1, <2>2 DEF End
  <2> QED BY <1>2, <1>3, <2>1, <2>2, <2>3, MarkStep
<1>5. CASE HangUp(p)
  <2>1. PICK s \in Slots : Served(p, s) /\ End(p, s, [table[p][s] EXCEPT !.hung = TRUE])
    BY <1>5 DEF HangUp
  <2>2. PICK c \in Records : c = [table[p][s] EXCEPT !.hung = TRUE]
    BY <1>3
  <2>3. Set(p, s, c) /\ targets' = [targets EXCEPT ![p] = @ \ {table[p][s].port}]
    BY <2>1, <2>2 DEF End
  <2> QED BY <1>2, <1>3, <2>1, <2>2, <2>3, MarkStep
<1>6. CASE SeeHangup(p)
  <2>1. PICK s \in Slots : /\ Served(p, s) /\ table[p][s].hung
                           /\ Set(p, s, [table[p][s] EXCEPT !.shutdown = TRUE])
    BY <1>6 DEF SeeHangup
  <2>2. PICK c \in Records : c = [table[p][s] EXCEPT !.shutdown = TRUE]
    BY <1>3
  <2>3. Set(p, s, c) /\ targets' = targets
    BY <1>6, <2>1, <2>2 DEF SeeHangup
  <2> QED BY <1>2, <1>3, <2>1, <2>2, <2>3, MarkStep
<1> QED BY <1>4, <1>5, <1>6

LEMMA CleanFileStep ==
    ASSUME Inv, NEW p \in Procs, CleanFile(p)
    PROVE  Step(p) /\ TypeOK'
<1> USE DEF CleanFile, appVars, histVars
<1>1. TypeOK /\ Local(p) /\ Targets(p) /\ Kept(p) /\ rpc[p] = "poll"
    BY DEF Inv, Local
<1>2. PICK s \in Slots : /\ Served(p, s) /\ table[p][s].shutdown /\ closing' = [closing EXCEPT ![p] = s]
                        /\ files' = IF OwnsFile(table[p][s]) THEN files \ {table[p][s].port} ELSE files
    OBVIOUS
<1>3. /\ rpc' = [rpc EXCEPT ![p] = "close"]
      /\ UNCHANGED <<paths, bound, listening, table, free, pc, cur, todo, targets, refused, uses>>
    OBVIOUS
<1> HIDE DEF CleanFile
<1>4. /\ closing'[p] = s /\ rpc'[p] = "close" /\ Free(p)' = Free(p) /\ s \notin Free(p) /\ s # NULL
      /\ Opens(p) => cur[p] # s
      /\ Opens(p)' = Opens(p)
    BY <1>1, <1>2, <1>3, IsFreeIn, Types DEF TypeOK, Free, Served, Opens
<1>5. TypeOK'
  <2>1. rpc' \in [Procs -> {"poll", "close", "clear"}] /\ closing' \in [Procs -> Slots \cup {NULL}]
    BY <1>1, <1>2, <1>3 DEF TypeOK
  <2>2. files' \subseteq Ports
    BY <1>1, <1>2 DEF TypeOK
  <2> QED BY <1>1, <1>3, <2>1, <2>2 DEF TypeOK
<1>6. Frame(p)
    BY <1>1, <1>2, <1>3, SocketsKept DEF Frame, Same, TypeOK
<1>7. \A t \in Slots : Served(p, t)' => Served(p, t) /\ t # s
    BY <1>1, <1>3, <1>4, IsFreeIn, Types DEF Served, Local, Control
<1>8. Gains(p)
    BY <1>3, <1>4, <1>7 DEF Gains, Port
<1>9. Control(p)'
    BY <1>1, <1>2, <1>3, <1>4 DEF Local, Control, Opens
<1>10. Kept(p)'
    BY <1>1, <1>3, <1>4 DEF Kept
<1>11. \A t \in Slots : ~Released(p, t) /\ ~Released(p, t)'
    BY <1>1, <1>4 DEF Released
<1>12. Listeners(p)'
    BY <1>1, <1>3, <1>4, <1>11, ListenersKept DEF Listens
<1>13. Peers(p)'
    BY <1>1, <1>3 DEF Local, Peers
<1>14. ASSUME NEW q \in targets[p] PROVE Target(p, q)'
  <2>1. /\ q \in Ports /\ Target(p, q) /\ (uses[q] = 1 => ~Opening(q)')
        /\ Committed(q)' /\ uses'[q] = 1 => Committed(q)
    BY <1>3, <1>6, <1>8, TargetBefore
  <2> QED BY <1>3, <2>1 DEF Target, Connected
<1>15. Targets(p)'
    BY <1>1, <1>3, <1>14 DEF Targets
<1>16. ASSUME NEW q \in Ports, q \in files, q \notin files', Committed(q)' PROVE FALSE
  <2>1. OwnsFile(table[p][s]) /\ table[p][s].port = q
    BY <1>2, <1>16
  <2>2. Listens(p, s) /\ bound[q] = p
    BY <1>1, <1>4, <1>11, <2>1, ListenerBound DEF OwnsFile, Listens
  <2>3. PICK r \in Procs, t \in Slots : /\ bound'[q] = r /\ Served(r, t)'
                                       /\ table'[r][t].state = "open" /\ table'[r][t].port = q
    BY <1>16 DEF Committed
  <2>4. r = p /\ t # s /\ Served(p, t) /\ table[p][t].state = "open" /\ table[p][t].port = q
    BY <1>3, <1>7, <2>2, <2>3
  <2>5. Listens(p, t)
    BY <2>4, IsFreeIn DEF Listens, Served
  <2> QED BY <1>1, <1>11, <2>1, <2>2, <2>4, <2>5 DEF Local, Listeners
<1>17. Loses
    BY <1>16 DEF Loses
<1> QED BY <1>5, <1>6, <1>8, <1>9, <1>10, <1>12, <1>13, <1>15, <1>17 DEF Step, Local

LEMMA CleanSocketStep ==
    ASSUME Inv, NEW p \in Procs, CleanSocket(p)
    PROVE  Step(p) /\ TypeOK'
<1> USE DEF CleanSocket, appVars, histVars
<1>1. TypeOK /\ Local(p) /\ Targets(p) /\ Kept(p) /\ rpc[p] = "close"
    BY DEF Inv, Local
<1>2. PICK k \in Slots : k = closing[p]
    BY <1>1 DEF TypeOK, Local, Control
<1>3. PICK gone : gone = IF OwnsFile(table[p][k]) THEN {table[p][k].port} ELSE {}
    OBVIOUS
<1>4. /\ bound' = [q \in Ports |-> IF q \in gone THEN NULL ELSE bound[q]]
      /\ listening' = listening \ gone
      /\ rpc' = [rpc EXCEPT ![p] = "clear"]
      /\ UNCHANGED <<files, paths, table, free, pc, cur, todo, targets, closing, refused, uses>>
    BY <1>2, <1>3 DEF Release
<1> HIDE DEF CleanSocket
<1>5. /\ k \notin Free(p) /\ \A s \in Slots : ~Released(p, s) /\ (Released(p, s)' <=> s = k)
      /\ Free(p)' = Free(p) /\ Opens(p)' = Opens(p) /\ rpc'[p] = "clear"
    BY <1>1, <1>2, <1>4, Types DEF Local, Control, Released, Free, Opens, TypeOK
<1>6. \A q \in gone : q \in Ports /\ bound[q] = p /\ Listens(p, k) /\ table[p][k].port = q
    BY <1>1, <1>3, <1>5, ListenerBound DEF OwnsFile, Listens
<1>7. Listens(p, k) => table[p][k].port \in gone
    BY <1>1, <1>3, <1>5, ListenerBound DEF OwnsFile, Listens
<1>8. TypeOK'
  <2>1. rpc' \in [Procs -> {"poll", "close", "clear"}] /\ bound' \in [Ports -> Procs \cup {NULL}]
    BY <1>1, <1>4 DEF TypeOK
  <2> QED BY <1>1, <1>4, <2>1 DEF TypeOK
<1>9. /\ p # NULL
      /\ \A q \in Ports : IF q \in gone THEN bound'[q] = NULL ELSE bound'[q] = bound[q]
    BY <1>4, Types
<1>10. Frame(p)
  <2>1. \A q \in Ports : Rebinds(p, q)
    BY <1>1, <1>4, <1>6, <1>9 DEF Rebinds, TypeOK
  <2> QED BY <1>1, <1>4, <2>1 DEF Frame, Same, TypeOK
<1>11. Gains(p)
    BY <1>4, <1>5 DEF Gains, Served, IsFree, Port
<1>12. Control(p)'
    BY <1>1, <1>2, <1>4, <1>5, Types DEF Local, Control
<1>13. Kept(p)'
    BY <1>1, <1>4, <1>5 DEF Kept
<1>14. \A s \in Slots : Listens(p, s)' <=> Listens(p, s)
    BY <1>4, <1>5 DEF Listens
<1>15. \A s \in Slots : Listens(p, s) /\ s # k => table[p][s].port \notin gone
    BY <1>1, <1>5, <1>6 DEF Local, Listeners
<1>16. Listeners(p)'
  <2>1. ASSUME NEW s \in Slots, Listens(p, s)' PROVE Listener(p, s)'
    <3>1. Listens(p, s) /\ Listener(p, s)
      BY <1>1, <1>14, <2>1 DEF Local, Listeners
    <3>2. CASE s = k
      BY <1>4, <1>5, <1>7, <1>9, <3>1, <3>2 DEF Listener
    <3>3. CASE s # k
      BY <1>4, <1>5, <1>9, <1>15, <3>1, <3>3 DEF Listener
    <3> QED BY <3>2, <3>3
  <2>2. ASSUME NEW s \in Slots, NEW t \in Slots, Listens(p, s)', Listens(p, t)', table'[p][s].port = table'[p][t].port
        PROVE  s = t
    BY <1>1, <1>4, <1>5, <1>14, <2>2 DEF Local, Listeners
  <2>3. ASSUME NEW q \in Ports, bound'[q] = p
        PROVE  \E s \in Slots : Listens(p, s)' /\ ~Released(p, s)' /\ table'[p][s].port = q
    <3>1. q \notin gone /\ bound[q] = p
      BY <1>9, <2>3
    <3>2. PICK s \in Slots : Listens(p, s) /\ table[p][s].port = q
      BY <1>1, <3>1 DEF Local, Listeners
    <3>3. s # k
      BY <1>7, <3>1, <3>2
    <3> QED BY <1>4, <1>5, <1>14, <3>2, <3>3
  <2> QED BY <2>1, <2>2, <2>3 DEF Listeners
<1>17. Peers(p)'
    BY <1>1, <1>4, <1>9, Types DEF Local, Peers
<1>18. ASSUME NEW q \in targets[p] PROVE Target(p, q)'
  <2>1. /\ q \in Ports /\ Target(p, q) /\ (uses[q] = 1 => ~Opening(q)')
        /\ Committed(q)' /\ uses'[q] = 1 => Committed(q)
    BY <1>4, <1>10, <1>11, TargetBefore
  <2>2. bound[q] # p => bound'[q] # p
    BY <1>9, <2>1
  <2> QED BY <1>4, <2>1, <2>2 DEF Target, Connected
<1>19. Targets(p)'
    BY <1>1, <1>4, <1>18 DEF Targets
<1> QED BY <1>4, <1>8, <1>10, <1>11, <1>12, <1>13, <1>16, <1>17, <1>19 DEF Step, Loses, Local

LEMMA CleanClearStep ==
    ASSUME Inv, NEW p \in Procs, CleanClear(p)
    PROVE  Step(p) /\ TypeOK'
<1> USE DEF CleanClear, appVars, histVars, osVars
<1>1. TypeOK /\ Local(p) /\ Targets(p) /\ Kept(p) /\ rpc[p] = "clear"
    BY DEF Inv, Local
<1>2. PICK k \in Slots : k = closing[p]
    BY <1>1 DEF TypeOK, Local, Control
<1>3. k \notin Free(p) /\ table[p][k].shutdown /\ (Opens(p) => cur[p] \in Slots \ {k})
    BY <1>1, <1>2, OpeningBound, Types DEF Local, Control
<1>4. /\ free' \in [Procs -> Seq(Slots)] /\ Free(p)' = Free(p) \cup {k} /\ Distinct(free'[p])
      /\ \A r \in Procs \ {p} : free'[r] = free[r]
    BY <1>1, <1>2, <1>3, ReturnType
<1>5. Set(p, k, Cleared) /\ Cleared \in Records
    BY <1>2, ContextType DEF Set
<1>6. /\ table' \in [Procs -> [Slots -> Records]] /\ table'[p][k] = Cleared
      /\ \A t \in Slots \ {k} : table'[p][t] = table[p][t]
      /\ \A r \in Procs \ {p} : table'[r] = table[r]
    BY <1>1, <1>5, SetType
<1>7. table'[p][k].peer = NULL /\ table'[p][k].state = "closed" /\ table'[p][k].port = 0
    BY <1>6, ContextType
<1>8. /\ rpc' = [rpc EXCEPT ![p] = "poll"] /\ closing' = [closing EXCEPT ![p] = NULL]
      /\ UNCHANGED <<files, paths, bound, listening, pc, cur, todo, targets, refused, uses>>
    OBVIOUS
<1> HIDE DEF CleanClear
<1>9. rpc'[p] = "poll" /\ closing'[p] = NULL /\ Opens(p)' = Opens(p)
    BY <1>1, <1>8 DEF TypeOK, Opens
<1>10. TypeOK'
  <2>1. rpc' \in [Procs -> {"poll", "close", "clear"}] /\ closing' \in [Procs -> Slots \cup {NULL}]
    BY <1>1, <1>8 DEF TypeOK
  <2> QED BY <1>1, <1>4, <1>6, <1>8, <2>1 DEF TypeOK
<1>11. Frame(p)
    BY <1>1, <1>4, <1>6, <1>8, SocketsKept DEF Frame, Same, TypeOK
<1>12. \A s \in Slots : Served(p, s)' => Served(p, s) /\ s # k
    BY <1>2, <1>4, <1>8, IsFreeIn DEF Served
<1>13. Gains(p)
    BY <1>3, <1>6, <1>8, <1>9, <1>12 DEF Gains, Port
<1>14. Control(p)'
  <2>1. Opens(p) => table'[p][cur[p]] = table[p][cur[p]]
    BY <1>3, <1>6
  <2> QED BY <1>1, <1>3, <1>4, <1>8, <1>9, <2>1, Types DEF Local, Control
<1>15. Kept(p)'
  <2>1. ASSUME NEW s \in Free(p) PROVE s # k /\ table'[p][s] = table[p][s]
    BY <1>1, <1>3, <1>6, FreeSlots
  <2> QED BY <1>1, <1>4, <1>7, <1>8, <2>1 DEF Kept
<1>16. \A s \in Slots : ~Released(p, s)' /\ (Released(p, s) <=> s = k)
    BY <1>1, <1>2, <1>9 DEF Released
<1>17. Listeners(p)'
    BY <1>1, <1>4, <1>6, <1>8, <1>16, ListenersKept DEF Listens
<1>18. Peers(p)'
    BY <1>1, <1>6, <1>7, <1>8 DEF Local, Peers
<1>19. ASSUME NEW q \in targets[p] PROVE Target(p, q)'
  <2>1. /\ q \in Ports /\ Target(p, q) /\ (uses[q] = 1 => ~Opening(q)')
        /\ Committed(q)' /\ uses'[q] = 1 => Committed(q)
    BY <1>8, <1>11, <1>13, TargetBefore
  <2>2. \A s \in Slots : table'[p][s].port = q => ~Ended(table'[p][s])
    BY <1>6, <1>7, <2>1, Types DEF Target
  <2>3. Connected(p, q) => Connected(p, q)'
    BY <1>3, <1>6, <2>1 DEF Connected, Target, Ended
  <2> QED BY <1>8, <2>1, <2>2, <2>3 DEF Target
<1>20. Targets(p)'
    BY <1>1, <1>8, <1>19 DEF Targets
<1> QED BY <1>8, <1>10, <1>11, <1>13, <1>14, <1>15, <1>17, <1>18, <1>20 DEF Step, Loses, Local

LEMMA DieStep ==
    ASSUME Inv, NEW p \in Procs, Die(p)
    PROVE  Step(p) /\ TypeOK'
<1> USE DEF Die
<1>1. TypeOK /\ Local(p)
    BY DEF Inv
<1> DEFINE all == [s \in Slots |-> s]
           empty == [s \in Slots |-> Cleared]
<1>2. all \in Seq(Slots) /\ Distinct(all) /\ Elements(all) = Slots
    BY AllElements
<1>3. empty \in [Slots -> Records] /\ \A s \in Slots : empty[s] = Cleared
    BY ContextType
<1>4. /\ table' = [table EXCEPT ![p] = empty] /\ free' = [free EXCEPT ![p] = all]
      /\ pc' = [pc EXCEPT ![p] = "idle"] /\ rpc' = [rpc EXCEPT ![p] = "poll"]
      /\ cur' = [cur EXCEPT ![p] = NULL] /\ closing' = [closing EXCEPT ![p] = NULL]
      /\ todo' = [todo EXCEPT ![p] = {}] /\ targets' = [targets EXCEPT ![p] = {}]
      /\ bound' = [q \in Ports |-> IF bound[q] = p THEN NULL ELSE bound[q]]
      /\ listening' \subseteq listening
      /\ UNCHANGED <<files, paths, uses, refused>>
    BY DEF Release
<1> HIDE DEF Die, all, empty
<1>5. /\ table'[p] = empty /\ Free(p)' = Slots /\ Distinct(free'[p]) /\ pc'[p] = "idle" /\ rpc'[p] = "poll"
      /\ closing'[p] = NULL /\ targets'[p] = {} /\ ~Opens(p)'
    BY <1>1, <1>2, <1>4 DEF TypeOK, Free, Opens
<1>6. TypeOK'
  <2>1. table' \in [Procs -> [Slots -> Records]] /\ free' \in [Procs -> Seq(Slots)]
    BY <1>1, <1>2, <1>3, <1>4 DEF TypeOK
  <2>2. pc' \in [Procs -> Points] /\ rpc' \in [Procs -> {"poll", "close", "clear"}]
    BY <1>1, <1>4 DEF TypeOK, Points
  <2>3. cur' \in [Procs -> Slots \cup Ports \cup Paths \cup {NULL}] /\ closing' \in [Procs -> Slots \cup {NULL}]
    BY <1>1, <1>4 DEF TypeOK
  <2>4. todo' \in [Procs -> SUBSET (Ports \cup Paths)] /\ targets' \in [Procs -> SUBSET Ports]
    BY <1>1, <1>4 DEF TypeOK
  <2>5. bound' \in [Ports -> Procs \cup {NULL}]
    BY <1>1, <1>4 DEF TypeOK
  <2> QED BY <1>1, <1>4, <2>1, <2>2, <2>3, <2>4, <2>5 DEF TypeOK
<1>7. Frame(p)
  <2>1. \A q \in Ports : Rebinds(p, q)
    BY <1>1, <1>4 DEF Rebinds, TypeOK
  <2> QED BY <1>1, <1>4, <2>1 DEF Frame, Same, TypeOK
<1>8. Gains(p)
    BY <1>5, IsFreeIn DEF Gains, Served
<1>9. Control(p)'
    BY <1>5 DEF Control
<1>10. \A s \in Slots : table'[p][s].peer = NULL /\ table'[p][s].state = "closed"
    BY <1>3, <1>5, ContextType
<1>11. Kept(p)'
    BY <1>5, <1>10 DEF Kept
<1>12. Listeners(p)'
    BY <1>4, <1>5, Types DEF Listeners, Listens
<1>13. Peers(p)'
    BY <1>5, <1>10 DEF Peers
<1>14. Targets(p)'
    BY <1>5 DEF Targets
<1> QED BY <1>4, <1>6, <1>7, <1>8, <1>9, <1>11, <1>12, <1>13, <1>14 DEF Step, Loses, Local

-----------------------------------------------------------------------------
(* The theorems                                                            *)

LEMMA InitInv == Init => Inv
<1> SUFFICES ASSUME Init PROVE Inv
    OBVIOUS
<1> USE DEF Init
<1> DEFINE all == [s \in Slots |-> s]
<1>1. all \in Seq(Slots) /\ Distinct(all) /\ Elements(all) = Slots
    BY AllElements
<1>2. \A p \in Procs : free[p] = all
    OBVIOUS
<1>3. \A p \in Procs, s \in Slots : table[p][s] = Cleared
    OBVIOUS
<1> HIDE DEF all
<1>4. TypeOK
  <2>1. table \in [Procs -> [Slots -> Records]]
    BY ContextType
  <2>2. free \in [Procs -> Seq(Slots)]
    BY <1>1 DEF all
  <2> QED BY <2>1, <2>2 DEF TypeOK, Points
<1>5. ASSUME NEW p \in Procs PROVE Local(p) /\ Targets(p)
  <2>1. Free(p) = Slots /\ Distinct(free[p]) /\ ~Opens(p)
    BY <1>1, <1>2 DEF Free, Opens
  <2>2. \A s \in Slots : table[p][s].peer = NULL /\ table[p][s].state = "closed"
    BY <1>3, ContextType
  <2>3. Control(p)
    BY <2>1 DEF Control
  <2>4. Kept(p)
    BY <2>1, <2>2 DEF Kept
  <2>5. Listeners(p)
    BY <2>1, Types DEF Listeners, Listens
  <2>6. Peers(p)
    BY <2>2 DEF Peers
  <2> QED BY <2>3, <2>4, <2>5, <2>6 DEF Local, Targets
<1>6. ListenerHasFile
    BY DEF ListenerHasFile, Committed
<1> QED BY <1>4, <1>5, <1>6 DEF Inv

\* Every step is one of those above.
LEMMA NextStep ==
    ASSUME Inv, NEW p \in Procs,
           \/ Open(p) \/ OpenInUse(p) \/ OpenUnix(p)
           \/ OpenListen(p) \/ OpenListenFails(p) \/ OpenCommit(p)
           \/ BroadcastTcp(p) \/ BroadcastUnix(p)
           \/ ScanSkip(p) \/ ScanTry(p) \/ ScanEnd(p)
           \/ ConnectCall(p) \/ ConnectSucceeds(p) \/ ConnectFails(p) \/ Remove(p)
           \/ Accept(p) \/ CloseContext(p) \/ HangUp(p) \/ SeeHangup(p)
           \/ CleanFile(p) \/ CleanSocket(p) \/ CleanClear(p)
           \/ Die(p) \/ OpenDefaultUnix(p) \/ ScanOverrun(p)
    PROVE  Step(p) /\ TypeOK'
<1>1. CASE Open(p)
    BY <1>1, OpenStep
<1>2. CASE OpenInUse(p) \/ OpenUnix(p)
    BY <1>2, OpenFailsStep DEF OpenInUse, OpenUnix
<1>3. CASE OpenListen(p)
    BY <1>3, OpenListenStep
<1>4. CASE OpenListenFails(p)
    BY <1>4, OpenListenFailsStep
<1>5. CASE OpenCommit(p)
    BY <1>5, OpenCommitStep
<1>6. CASE BroadcastTcp(p) \/ BroadcastUnix(p)
    BY <1>6, BroadcastStep
<1>7. CASE ScanSkip(p)
    BY <1>7, ScanSkipStep
<1>8. CASE ScanTry(p)
    BY <1>8, ScanTryStep
<1>9. CASE ScanEnd(p)
    BY <1>9, ScanEndStep
<1>10. CASE ConnectCall(p)
    BY <1>10, ConnectCallStep
<1>11. CASE ConnectSucceeds(p)
    BY <1>11, ConnectSucceedsStep
<1>12. CASE ConnectFails(p)
    BY <1>12, ConnectFailsStep
<1>13. CASE Remove(p)
    BY <1>13, RemoveStep
<1>14. CASE Accept(p)
    BY <1>14, AcceptStep
<1>15. CASE CloseContext(p) \/ HangUp(p) \/ SeeHangup(p)
    BY <1>15, EndsStep
<1>16. CASE CleanFile(p)
    BY <1>16, CleanFileStep
<1>17. CASE CleanSocket(p)
    BY <1>17, CleanSocketStep
<1>18. CASE CleanClear(p)
    BY <1>18, CleanClearStep
<1>19. CASE Die(p) \/ OpenDefaultUnix(p) \/ ScanOverrun(p)
    BY <1>19, DieStep DEF OpenDefaultUnix, ScanOverrun
<1> QED BY <1>1, <1>2, <1>3, <1>4, <1>5, <1>6, <1>7, <1>8, <1>9, <1>10, <1>11, <1>12, <1>13,
           <1>14, <1>15, <1>16, <1>17, <1>18, <1>19

LEMMA Stutter ==
    ASSUME Inv, UNCHANGED vars
    PROVE  Inv'
<1> USE DEF vars, osVars, appVars, readVars, histVars
<1>1. TypeOK'
    BY DEF Inv, TypeOK
<1>2. ASSUME NEW p \in Procs PROVE Local(p)'
  <2>1. Free(p)' = Free(p)
    BY DEF Free
  <2>2. Kept(p)' /\ Listeners(p)'
    BY QuietLocal
  <2>3. Control(p)' /\ Peers(p)'
    BY <2>1 DEF Inv, Local, Control, Peers, Opens
  <2> QED BY <2>2, <2>3 DEF Local
<1>3. \A q \in Ports : (Committed(q)' <=> Committed(q)) /\ (Opening(q)' <=> Opening(q))
    BY DEF Committed, Opening, Opens, Port, Served, IsFree
<1>4. ASSUME NEW p \in Procs PROVE Targets(p)'
    BY <1>3 DEF Inv, Targets, Target, Connected, TypeOK
<1>5. ListenerHasFile'
    BY <1>3 DEF Inv, ListenerHasFile
<1> QED BY <1>1, <1>2, <1>4, <1>5 DEF Inv

\* The processes of the port directory keep their invariant: contexts are
\* free, opened, closed or serving, ports are bound to the contexts that
\* listen on them, and broadcasts know what they still have to reach.
THEOREM AutoconnectInv == Spec => []Inv
<1>1. Init => Inv
    BY InitInv
<1>2. Inv /\ [Next]_vars => Inv'
  <2>1. SUFFICES ASSUME Inv, [Next]_vars PROVE Inv'
    OBVIOUS
  <2>2. CASE Next
    <3>1. PICK p \in Procs :
             \/ Open(p) \/ OpenInUse(p) \/ OpenUnix(p)
             \/ OpenListen(p) \/ OpenListenFails(p) \/ OpenCommit(p)
             \/ BroadcastTcp(p) \/ BroadcastUnix(p)
             \/ ScanSkip(p) \/ ScanTry(p) \/ ScanEnd(p)
             \/ ConnectCall(p) \/ ConnectSucceeds(p) \/ ConnectFails(p) \/ Remove(p)
             \/ Accept(p) \/ CloseContext(p) \/ HangUp(p) \/ SeeHangup(p)
             \/ CleanFile(p) \/ CleanSocket(p) \/ CleanClear(p)
             \/ Die(p) \/ OpenDefaultUnix(p) \/ ScanOverrun(p)
      BY <2>2 DEF Next
    <3>2. Step(p) /\ TypeOK'
      BY <2>1, <3>1, NextStep
    <3> QED BY <2>1, <3>2, Stepped
  <2>3. CASE UNCHANGED vars
    BY <2>1, <2>3, Stutter
  <2> QED BY <2>1, <2>2, <2>3
<1> QED BY <1>1, <1>2, PTL DEF Spec

\* Broadcasts connect no process to itself, and give it one connection per
\* port at most (test_tcp_validity in autoconnect.c).
THEOREM AutoconnectOnce == Spec => []ConnectedOnce
<1>1. Inv => ConnectedOnce
  <2>1. SUFFICES ASSUME Inv, NEW p \in Procs, NEW s \in Slots, NEW t \in Slots
                 PROVE  /\ table[p][s].peer # p
                        /\ (table[p][s].peer # NULL /\ table[p][t].peer # NULL /\ table[p][s].port = table[p][t].port)
                              => s = t
    BY DEF ConnectedOnce
  <2>2. Peers(p)
    BY <2>1 DEF Inv, Local
  <2> QED BY <2>2, Types DEF Peers
<1> QED BY <1>1, AutoconnectInv, PTL

\* A port that accepts connections and refused nobody has its file in the
\* directory (connector_commit_open_tcp_port, connector_close_connection, and
\* the removal in broadcast_connect_impl).
THEOREM AutoconnectFiles == Spec => []ListenerHasFile
<1>1. Inv => ListenerHasFile
    BY DEF Inv
<1> QED BY <1>1, AutoconnectInv, PTL

\* When a broadcast ends it has a connection, open at both ends, to every port
\* that was listened on when it began and still is, unless one ended meanwhile
\* or an ended one still has its context (broadcast_connect_impl).
THEOREM AutoconnectReaches == Spec => []BroadcastReaches
<1>1. Inv => BroadcastReaches
  <2>1. SUFFICES ASSUME Inv, NEW p \in Procs, pc[p] = "scan", todo[p] = {}, NEW q \in targets[p],
                        Committed(q), uses[q] = 1, q \notin refused
                 PROVE  \E s \in Slots : /\ table[p][s].state = "connected" /\ table[p][s].port = q
                                         /\ ~Ended(table[p][s])
    BY DEF BroadcastReaches
  <2>2. Target(p, q)
    BY <2>1 DEF Inv, Targets
  <2> QED BY <2>1, <2>2 DEF Target, Connected
<1> QED BY <1>1, AutoconnectInv, PTL

=============================================================================
