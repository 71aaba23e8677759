CONSTANTS
    c1 = c1
    d1 = d1
    d2 = d2
    w1 = w1
    NULL = NULL
    Contexts = {c1}
    Dispatchers = {d1, d2}
    Writers = {w1}
    MaxConns = 2
    MaxCloses = 2
SPECIFICATION FairSpec
INVARIANTS EstablishedOnce NameIsPeers ClosedFirst
PROPERTIES CloseIsTold
CHECK_DEADLOCK FALSE
