CONSTANTS
    p1 = p1
    p2 = p2
    q1 = q1
    q2 = q2
    u1 = u1
    NULL = NULL
    Procs = {p1, p2}
    Ports = {q1, q2}
    Paths = {u1}
    ContextCount = 3
    ListSize = 2
    MaxOps = 4
    MaxCrashes = 1
SYMMETRY Symmetry
SPECIFICATION Spec
INVARIANTS ConnectedOnce ListenerHasFile BroadcastReaches
CHECK_DEADLOCK FALSE
