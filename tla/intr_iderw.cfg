CONSTANTS
  Threads = {p1, p2}
  Scheduler = Scheduler
  Calls = {"lock", "wakeup", "wait", "sleep", "iderw"}
SPECIFICATION IntrSpec
INVARIANT NoWakeupWindow
