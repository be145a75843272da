CONSTANTS
    Readers = {r1}
    Writers = {w1, w2}
    Nobody = Nobody
    Bytes = {0, 1}
    PIPESIZE = 2
    UINT = 4
    Counts = {1, 3}
SPECIFICATION FairSpec
INVARIANT SleepersCannotGoOn
PROPERTIES PipeIsFifo ClosedEndReleases
CHECK_DEADLOCK FALSE
