CONSTANTS
    Procs = {1, 2}
    Root = 1
    NPAGES = 24
    SHM = 3
    MAXSZ = 4
    ExecSizes = {1}
    Vals = {2}
VIEW UpToRenaming
SPECIFICATION Spec
INVARIANTS PagesAccounted NoVmPanic
PROPERTY PrivateMemory
CHECK_DEADLOCK TRUE
