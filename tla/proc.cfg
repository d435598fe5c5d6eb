CONSTANTS
  NPROC = 3
  MaxPid = 4
  KillPids = {0, 3}
SPECIFICATION FairSpec
INVARIANTS ParentAlive WaiterNotMissed
PROPERTIES DeadStayDead OrphanReaped RunnableRuns
