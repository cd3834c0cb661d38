SPECIFICATION FairSpec
CONSTANTS
  Procs = {p1, p2, p3}
  Blocks = {b1, b2}
  Val = {0}
  Zero = 0
  MAXOPBLOCKS = 4
  LOGSIZE = 8
  NLOG = 8
  OPBLOCKS = 1
  OPWRITES = 1
  MAXCRASH = 1
  NoBuf = NoBuf
  NoBlock = NoBlock
PROPERTY SleeperWakes
