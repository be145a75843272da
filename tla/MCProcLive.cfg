CONSTANTS
    NPROC = 3
    CPUs = {c1}
    NoCPU = NoCPU
    NoChan = NoChan
    MAXPID = 3
    KillPids = {2}
SPECIFICATION FairSpec
PROPERTY OrphansReaped
CHECK_DEADLOCK TRUE
