CONSTANTS
    n1 = n1
    n2 = n2
    n3 = n3
    NULL = NULL
    Nodes = {n1, n2, n3}
    MaxClears = 2
SPECIFICATION ListSpec
INVARIANT NoWriteToFreed
CHECK_DEADLOCK FALSE
