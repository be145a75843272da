CONSTANTS
  p1 = p1
  p2 = p2
  Nobody = Nobody
  Procs = {p1, p2}
  BSIZE = 2
  NDIRECT = 2
  NBLOCKS = 8
  NINODES = 5
  IPB = 2
  NINODE = 6
  NFILE = 2
  NOFILE = 1
  NPIPE = 0
  PIPESIZE = 1
  MAXOPBLOCKS = 7
  NDEV = 2
  MAXPATH = 5
  MaxCalls = 3
  MaxCrashes = 1
SPECIFICATION MCSpec
INVARIANTS CrashConsistent RefsCounted NoLeak  OpFits
