SPECIFICATION Spec
CONSTANTS
  Slots = {1, 2}
  INITPROC = 1
  NPages = 18
  PGSIZE = 2
  FANOUT = 2
  Grows = {3}
  Shrinks = {4}
  Images = {3, 6}
  UINT = 100
INVARIANT ExecFailureKeepsProcess
