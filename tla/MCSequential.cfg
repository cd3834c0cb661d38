SPECIFICATION SeqSpec
CONSTANTS
  P0 = P0
  P1 = P1
  Procs = {P0, P1}
  InitProc = P0
  PGSIZE = 6
  NPT = 2
  KERNBASE = 36
  KERNTOP = 48
  DEVSPACE = 60
  ADDRS = 72
  END = 5
  MID = 24
  PHYSTOP = 128
  MAXARG = 2
  Execs <- MCExecs
  Grows <- MCGrows
  BSIZE = 2
  NDIRECT = 1
  NINDIRECT = 2
  NMETA = 1
  FSSIZE = 9
  MAXOPBLOCKS = 6
  MkSizes = {0, 3}
  NewByte <- MCNewByte
  Counts = {1, 4}
  NALLOC = 4
  HEAPMAX = 14
  Requests = {2, 3, 5}
  MAXARGS = 3
  DIRSIZ = 3
  WORD = 32
  MAXSZ = 16
  INTSIZE = 2
  MAXARGV = 3
  MAXLINE = 4
  GREPBUF = 5
CHECK_DEADLOCK FALSE
INVARIANTS
  PagesAccounted
  SizeMapped
  NoPanic
  FilesKept
  WritesFit
  HeapSound
  LinesParsed
  PipesPlumbed
  PathsResolve
  ArgumentsChecked
  GrepFinds
