SPECIFICATION Spec
CONSTANTS
  P0 = P0
  P1 = P1
  None = None
  Procs <- MCProcs
  Names = {"a", "b"}
  NINODES = 3
  NINODE = 3
  NFILE = 3
  NOFILE = 2
  CRASHES = FALSE
  Menus <- LinkunlinkMenus
SYMMETRY MCSymmetry
INVARIANT
  NoCircularWait
CHECK_DEADLOCK FALSE
