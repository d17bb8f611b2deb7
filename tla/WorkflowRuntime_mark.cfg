SPECIFICATION Spec
CONSTANTS
  Run = {r1, r2}
  NoRun = NoRun
  Worker = {w1, w2, w3}
  Client = {u1}
  Scripts <- NestedScripts
  MaxRoots = 1
  MaxTasks = 3
  MaxHitl = 1
  MaxFaults = 0
  Faults <- NoFaults
  Modes <- CeleryMode
INVARIANTS InterruptedWhileAsked
CHECK_DEADLOCK FALSE
