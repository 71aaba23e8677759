CONSTANTS
    p1 = p1
    p2 = p2
    q1 = q1
    q2 = q2
    u1 = u1
    NULL = NULL
    Procs = {p1, p2}
    Ports = {q1, q2}
    Paths = {u1}
    ContextCount = 2
    ListSize = 16
    MaxOps = 4
    MaxCrashes = 0
SPECIFICATION Spec
INVARIANTS FreesOnlyOwned
CHECK_DEADLOCK FALSE
