SPECIFICATION Spec
CONSTANTS
  Readers = {r1, r2}
  Writers = {w1, w2}
  PIPESIZE = 2
  UINT = 4
  Byte = {0, 1}
  Lens = {0, 3}
  None = None
SYMMETRY Symmetry
INVARIANTS NoLostWakeup FreedLast
PROPERTY RefinesFifo
CHECK_DEADLOCK FALSE
