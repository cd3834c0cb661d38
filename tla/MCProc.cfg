SPECIFICATION Spec
CONSTANTS
  CPUs = {c0, c1}
  Cpu0 = c0
  NPROC = 3
  MAXPID = 3
  TICKMOD = 3
  KillArgs = {0, 2}
  SleepArgs = {1}
  None = None
INVARIANTS StackExclusive NoPanic NoLostTick
