SPECIFICATION Spec
CONSTANTS
  Procs = {1, 2}
  Vectors = {32, 46}
  MaxNest = 2
INVARIANTS StartsAtForkret
