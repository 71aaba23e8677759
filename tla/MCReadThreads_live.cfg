CONSTANTS
    r1 = r1
    r2 = r2
    a1 = a1
    NULL = NULL
    ContextCount = 2
    Apps = {a1}
    MaxOps = 1
    MaxCloses = 1
    Exhaustion = FALSE
    Readers = {r1, r2}
    MaxAssigned = 2
    MaxEvents = 1
SPECIFICATION FairSpec
PROPERTIES ShutdownCompletes CloseTakesEffect
CHECK_DEADLOCK FALSE
