CONSTANTS
    w1 = w1
    w2 = w2
    s1 = s1
    NULL = NULL
    Writers = {w1, w2}
    Senders = {s1}
    PerSender = 2
    MaxRestarts = 1
    TimedWait = TRUE
SPECIFICATION FairSpec
INVARIANTS OnePlace SessionKept TakenInOrder
PROPERTIES ShutdownCompletes MessageTaken
CHECK_DEADLOCK FALSE
