CONSTANTS
    r1 = r1
    a1 = a1
    NULL = NULL
    ContextCount = 2
    Apps = {a1}
    MaxOps = 1
    MaxCloses = 1
    Exhaustion = FALSE
    Readers = {r1}
    MaxAssigned = 2
    MaxEvents = 0
SPECIFICATION Spec
PROPERTIES CloseIsKept
CHECK_DEADLOCK FALSE
