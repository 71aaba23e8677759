CONSTANTS
    c1 = c1
    c2 = c2
    c3 = c3
    Callers = {c1, c2, c3}
    SerialShutdown = TRUE
SYMMETRY CallerSymmetry
SPECIFICATION Spec
INVARIANTS ContextsOutliveThreads
