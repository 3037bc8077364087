\* Every kind of run and every end of the connection after every frame; a free
\* client, the Gymnasium wrapper and the three example programs; two threads of a
\* target under a hardware capture.  CHECK_DEADLOCK: all of them end.
SPECIFICATION MCSpec
CONSTANTS
  Clients = {"pool", "environment", "perf", "wpr"}
  Source = {0, 1, 2}
  Named = {0}
  GroupFrames = 2
  TargetBytes = 4
  MaxSourceFrames = 3
  MaxPendingFrames = 4
  MaxRows <- RowsOf
  MaxInFlight <- InFlight
  Action = {a1, a2, quit}
  a1 = a1
  a2 = a2
  Workload <- Actions
  Quit = quit
  MaxRun = 3
  MaxSteps = 3
  t1 = t1
  t2 = t2
  Tids <- Threads
  RingUnits = 3
  AuxUnits = 3
  MaxWork <- Works
  MaxCalls = 5
INVARIANTS
  PrefixDelivered
  OutcomeTrue
  CollatorSound
  FieldsTrue
  EpisodeHonest
  NothingLeaks
  BatchesTrue
  SessionOwned
PROPERTY
  StaleIteratorHarmless
CHECK_DEADLOCK FALSE
