CONSTANTS
    NPROC = 3
    CPUs = {c1, c2}
    NoCPU = NoCPU
    NoChan = NoChan
    Chans = {ch1, ch2}
SPECIFICATION Spec
INVARIANTS StackExclusive RunningIsOnCPU SchedChecks
PROPERTY NoLostWakeup
CHECK_DEADLOCK FALSE
