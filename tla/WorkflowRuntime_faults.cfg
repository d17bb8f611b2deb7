SPECIFICATION Spec
CONSTANTS
  Run = {r1, r2, r3}
  NoRun = NoRun
  Worker = {w1, w2}
  Client = {u1, u2}
  Scripts <- NestedScripts
  MaxRoots = 1
  MaxTasks = 3
  MaxHitl = 2
  MaxFaults = 1
  Faults <- AllFaults
  Modes <- BothModes
SYMMETRY Symmetric
INVARIANTS TypeOK RunningHasExecutor InterruptedCanMove SingleExecutor RecordsClose MessageShowsOutcome
PROPERTIES RowResolvedOnce
CHECK_DEADLOCK FALSE
