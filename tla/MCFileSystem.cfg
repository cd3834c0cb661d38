SPECIFICATION Spec
CONSTANTS
  P0 = P0
  P1 = P1
  None = None
  Procs <- MCProcs
  Names = {"a", "b"}
  NINODES = 3
  NINODE = 3
  NFILE = 3
  NOFILE = 2
  CRASHES = TRUE
  Menus <- MCMenus
SYMMETRY MCSymmetry
INVARIANTS
  NoPanic
  RefCounts
  LocksInOrder
  Consistent
PROPERTY
  NoEntryLost
CHECK_DEADLOCK FALSE
