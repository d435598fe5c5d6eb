SPECIFICATION Spec
CONSTANTS
  BSIZE = 2
  NDIRECT = 1
  NINDIRECT = 2
  DIRSIZ = 2
  NMETA = 1
  FSSIZE = 10
  NINODES = 4
  Procs = {p1, p2}
  p1 = p1
  p2 = p2
  NINODE = 3
  Images <- MCImages
  Paths <- MCPaths
  Names <- MCNames
  Appends = {0, 3}
  MaxCalls = 4
SYMMETRY Symmetry
INVARIANTS BlocksOwnedOnce CacheCoherent NothingLeaks NoConsistencyPanic
