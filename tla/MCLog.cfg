SPECIFICATION Spec
CONSTANTS
  Procs = {p1, p2}
  Blocks = {b1, b2}
  Val = {0, 1}
  Zero = 0
  MAXOPBLOCKS = 4
  LOGSIZE = 8
  NLOG = 8
  OPBLOCKS = 2
  OPWRITES = 2
  MAXCRASH = 2
  NoBuf = NoBuf
  NoBlock = NoBlock
SYMMETRY Symmetry
INVARIANTS NoPanic UncommittedPinned
PROPERTIES RefinesAtomicDisk
