CONSTANTS
    Procs = {1, 2}
    Root = 1
    NPAGES = 24
    SHM = 2
    MAXSZ = 2
    ExecSizes = {}
    Vals = {2}
SPECIFICATION ShmSpec
INVARIANT NoLeafInFreewalk
CHECK_DEADLOCK FALSE
