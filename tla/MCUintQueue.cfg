CONSTANTS
    t1 = t1
    t2 = t2
    t3 = t3
    Threads = {t1, t2, t3}
    Values = {0, 1}
    Requested = 2
    Wrap = 16
    MaxPush = 4
SYMMETRY ThreadSymmetry
SPECIFICATION Spec
INVARIANTS NoOverwrite Tickets SpinHasOwner
PROPERTIES FifoSpec ErrorsAreFullEmptyOrStale

