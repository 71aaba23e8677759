CONSTANTS
    s1 = s1
    m1 = m1
    m2 = m2
    t1 = t1
    t2 = t2
    d1 = d1
    NULL = NULL
    Apps = {s1, m1, m2}
    KindOf <- KindsOfApps
    QtKinds = {"system"}
    Callers = {t1, t2}
    Dispatchers = {d1}
    MaxInits = 1
SYMMETRY Symmetry
SPECIFICATION Spec
INVARIANTS ClearedAfterShutdown
CHECK_DEADLOCK FALSE
