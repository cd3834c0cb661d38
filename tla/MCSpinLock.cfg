SPECIFICATION Spec
CONSTANTS
  CPUs = {c1, c2}
  Threads = {t1, t2}
  Locks = {pt, lk1}
  PT = pt
  None = None
SYMMETRY Symmetry
INVARIANTS MutualExclusion NoPanic FlagRestored
CHECK_DEADLOCK FALSE
