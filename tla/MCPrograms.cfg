SPECIFICATION Spec
CONSTANTS
  BSIZE = 4
  NDIRECT = 2
  NBLOCKS = 27
  NINODES = 22
  IPB = 4
  Procs = {1, 2, 3, 4, 5, 6, 7, 8}
  Nobody = 0
  NINODE = 7
  NFILE = 8
  NOFILE = 6
  NPIPE = 2
  PIPESIZE = 2
  MAXOPBLOCKS = 10
  MAXPATH = 12
  NDEV = 2
  Files <- MCFiles
  Rounds = 1
  NCHILD = 2
  MAXARGS = 4
  Lines <- MCLines
  Chars = {" ", "a", "<", ">", "|", "&", ";", "(", ")"}
  MaxTyped = 4
INVARIANTS
  TestsPass
  ParseMatches
  ShellMeaning
  CleanExit
  NoHang
  
