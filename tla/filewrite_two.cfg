CONSTANTS
  Procs = {p1, p2}
  Blocks <- MCBlocks
  Data = {0}
  LOGSIZE = 30
  MAXOPBLOCKS = 10
  NLog = 30
  OpBlocks = 100
  MaxCrashes = 0
  BSIZE = 2
  NDIRECT = 12
  Bitmap = 1
  InodeBlock = 2
  DataBlocks <- MCDataBlocks
  Requests = {1, 30}
SPECIFICATION FSpec
VIEW ProgressView
INVARIANT WriteNeverPanics
