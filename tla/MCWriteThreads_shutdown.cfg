CONSTANTS
    w1 = w1
    w2 = w2
    s1 = s1
    NULL = NULL
    Writers = {w1, w2}
    Senders = {s1}
    PerSender = 2
    MaxRestarts = 0
    TimedWait = FALSE
SPECIFICATION FairSpec
PROPERTY ShutdownCompletes
CHECK_DEADLOCK FALSE
