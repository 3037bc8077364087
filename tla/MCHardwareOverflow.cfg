\* Two threads of a target under a hardware capture, more work than a ring has
\* room for.
SPECIFICATION MCSpec
CONSTANTS
  Clients = {"perf"}
  Source = {0, 1, 2}
  Named = {0}
  GroupFrames = 2
  TargetBytes = 4
  MaxSourceFrames = 3
  MaxPendingFrames = 4
  MaxRows <- RowsOf
  MaxInFlight <- InFlight
  Action = {a1, a2, quit}
  a1 = a1
  a2 = a2
  Workload <- Actions
  Quit = quit
  MaxRun = 3
  MaxSteps = 3
  t1 = t1
  t2 = t2
  Tids <- Threads
  RingUnits = 3
  AuxUnits = 3
  MaxWork <- Works
  MaxCalls = 5
INVARIANT
  OverflowRaises
CHECK_DEADLOCK FALSE
