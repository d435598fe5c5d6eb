SPECIFICATION MCSpec
CONSTANTS
  Procs = {p1}
  Blocks <- MCBlocks
  Data = {0}
  LOGSIZE = 30
  MAXOPBLOCKS = 10
  NLog = 30
  OpBlocks = 100
  MaxCrashes = 0
  BSIZE = 2
  NDIRECT = 12
  Bitmap = 1
  InodeBlock = 2
  DataBlocks <- MCDataBlocks
  Requests = {1, 27, 54}
  Threads = {p1, p2, p3}
  Scheduler = Scheduler
  Calls = {"lock", "wakeup", "wait", "sleep"}
  SwProcs = {1, 2}
  Vectors = {32, 46}
  MaxNest = 2
  FileProcs = {p1, p2, p3}
  FileInit = p1
  NFILE = 4
  NOFILE = 2
  PipePages = {1, 2}
  VmSlots = {1, 2}
  NPages = 18
  PGSIZE = 2
  FANOUT = 2
  Grows = {3}
  Shrinks = {4}
  Images = {3, 6}
  UINT = 100
  NPROC = 4
  MaxPid = 4
  KillPids = {3}
VIEW KernelView
INVARIANTS ChunkBound Masking RegistersRestored FrameIsUser FilesAgree MemoryAgree FamilyKept
