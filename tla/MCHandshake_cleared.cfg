CONSTANTS
    c1 = c1
    d1 = d1
    d2 = d2
    w1 = w1
    NULL = NULL
    Contexts = {c1}
    Dispatchers = {d1, d2}
    Writers = {w1}
    MaxConns = 1
    MaxCloses = 1
SPECIFICATION Spec
INVARIANTS ClearedBetweenReuses
CHECK_DEADLOCK FALSE
