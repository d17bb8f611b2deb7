SPECIFICATION FairSpec
CONSTANTS
  Run = {r1, r2, r3}
  NoRun = NoRun
  Worker = {w1, w2}
  Client = {u1, u2}
  Scripts <- DeepScripts
  MaxRoots = 1
  MaxTasks = 3
  MaxHitl = 1
  MaxFaults = 0
  Faults <- NoFaults
  Modes <- CeleryMode
INVARIANTS NoLostWakeup
PROPERTIES RunsSettle KeepsContract
CHECK_DEADLOCK FALSE
