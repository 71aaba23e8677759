CONSTANTS
    t1 = t1
    t2 = t2
    Threads = {t1, t2}
    Values = {0, 1}
    Requested = 2
    Wrap = 16
    MaxPush = 3
SPECIFICATION Spec
PROPERTY HoldsRequested
