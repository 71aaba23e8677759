CONSTANTS
    d1 = d1
    d2 = d2
    r1 = r1
    NULL = NULL
    Dispatchers = {d1, d2}
    Readers = {r1}
    PerReader = 2
    MaxRestarts = 1
SPECIFICATION FairSpec
INVARIANTS OnePlace QuietAfterJoin
PROPERTIES TerminationCompletes InitCompletes MessageTaken
CHECK_DEADLOCK FALSE
