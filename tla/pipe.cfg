CONSTANTS
  Procs = {p1, p2}
  Bytes = {0, 1}
  Lengths = {0, 1, 3}
  PIPESIZE = 2
  UINTMAX = 4
  MaxBytes = 4
  Nobody = Nobody
SPECIFICATION FairSpec
INVARIANTS WakeupNotMissed NoUseAfterFree
PROPERTIES ImplementsFifo ZeroMeansEof CloseReleases
CHECK_DEADLOCK FALSE
