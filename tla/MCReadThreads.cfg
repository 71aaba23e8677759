CONSTANTS
    r1 = r1
    r2 = r2
    a1 = a1
    NULL = NULL
    ContextCount = 2
    Apps = {a1}
    MaxOps = 2
    MaxCloses = 1
    Exhaustion = FALSE
    Readers = {r1, r2}
    MaxAssigned = 2
    MaxEvents = 2
SYMMETRY ReaderSymmetry
SPECIFICATION Spec
INVARIANTS OneOwner SocketsServed ExitClosesAll
CHECK_DEADLOCK FALSE
