SPECIFICATION Spec
CONSTANTS
  Run = {r1}
  NoRun = NoRun
  Worker = {w1, w2}
  Client = {u1, u2}
  Scripts <- SingleHitl
  MaxRoots = 1
  MaxTasks = 3
  MaxHitl = 1
  MaxFaults = 1
  Faults <- DoubleAnswerOnly
  Modes <- CeleryMode
PROPERTIES HitlDecidedOnce
CHECK_DEADLOCK FALSE
