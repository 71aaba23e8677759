CONSTANTS
    c1 = c1
    d1 = d1
    w1 = w1
    NULL = NULL
    Contexts = {c1}
    Dispatchers = {d1}
    Writers = {w1}
    MaxConns = 2
    MaxCloses = 1
SPECIFICATION Spec
INVARIANTS OncePerConnection
CHECK_DEADLOCK FALSE
