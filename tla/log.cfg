CONSTANTS
  Procs = {p1, p2}
  Blocks = {b1, b2}
  Data = {0, 1}
  LOGSIZE = 8
  MAXOPBLOCKS = 4
  NLog = 8
  OpBlocks = 2
  MaxCrashes = 2
SPECIFICATION FairSpec
INVARIANTS NoPanic QuiescentDurable NoLostWakeup
PROPERTIES ImplementsAtomicDisk SleeperWoken
