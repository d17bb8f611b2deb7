SPECIFICATION Spec
CONSTANTS
  Run = {r1, r2}
  NoRun = NoRun
  Worker = {w1, w2}
  Client = {u1, u2}
  Scripts <- NestedScripts
  MaxRoots = 1
  MaxTasks = 3
  MaxHitl = 1
  MaxFaults = 1
  Faults <- CancelOnly
  Modes <- CeleryMode
PROPERTIES CancelledNotResumed
CHECK_DEADLOCK FALSE
