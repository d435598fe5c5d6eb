CONSTANTS
  b1 = b1
  b2 = b2
  b3 = b3
  p1 = p1
  p2 = p2
  Procs = {p1, p2}
  Blocks = {b1, b2, b3}
  Values = {v0, v1}
  Zero = v0
  NBUF = 2
  Nobody = Nobody
  NoBlock = NoBlock
CHECK_DEADLOCK FALSE
SYMMETRY Symmetry
SPECIFICATION Spec
INVARIANTS OneCopy RefCounted NoLostWakeup
PROPERTIES ImplementsStore
