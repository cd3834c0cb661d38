SPECIFICATION InitSpec
CONSTANTS
  CPUs = {c0}
  Cpu0 = c0
  NPROC = 4
  MAXPID = 4
  TICKMOD = 1
  KillArgs = {3}
  SleepArgs = {}
  None = None
INVARIANTS NoLostExit
PROPERTIES OrphanReaped KilledExits
