CONSTANTS
    Procs = {p1, p2}
    Blocks = {b1, b2}
    Vals = {v1, v2}
    Absent = Absent
    LOGSIZE = 4
    NLOG = 5
    MAXOPBLOCKS = 2
    OPBLOCKS = 2
SPECIFICATION FairSpec
INVARIANTS LogInv RecyclableIsClean SpaceInv 
PROPERTIES AtomicCommit SleeperWoken
