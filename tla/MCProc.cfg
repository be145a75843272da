CONSTANTS
    NPROC = 3
    CPUs = {c1, c2}
    NoCPU = NoCPU
    NoChan = NoChan
    MAXPID = 4
    KillPids = {2, 3}
SPECIFICATION Spec
INVARIANTS WaiterMissesNoZombie
PROPERTIES ProcessTree 
CHECK_DEADLOCK TRUE
