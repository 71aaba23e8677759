CONSTANTS
    r1 = r1
    r2 = r2
    a1 = a1
    NULL = NULL
    ContextCount = 1
    Apps = {a1}
    MaxOps = 2
    MaxCloses = 0
    Exhaustion = TRUE
    Readers = {r1, r2}
    MaxAssigned = 2
    MaxEvents = 0
SPECIFICATION Spec
INVARIANTS NewContextIsNew
CHECK_DEADLOCK FALSE
