CONSTANTS
    Procs = {p1, p2, p3, p4}
    InitVals = {0, 1, 2}
    INTMAX = 7
    MaxCount = 3
SPECIFICATION FairSpec
INVARIANT SemInv
PROPERTIES CountingSemaphore WaitersServed
CHECK_DEADLOCK FALSE
