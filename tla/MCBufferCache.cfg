SPECIFICATION Spec
CONSTANTS
  Procs = {p1, p2}
  Blocks = {b1, b2, b3, b4}
  Val = {v, w}
  Junk = Junk
  BadBlocks = {}
  NBUF = 3
  MAXPIN = 1
  CALLS = 2
  None = None
  NoBlock = NoBlock
SYMMETRY Symmetry
INVARIANTS NoPanic DiskBusy NoLostWakeup
PROPERTY RefinesBlockStore
CHECK_DEADLOCK FALSE
