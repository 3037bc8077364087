\* Reader threads with the observer of one endpoint closing; two episodes of a
\* worker whose target asks for input twice or is observed with a budget.  The
\* threads of both run.  CHECK_DEADLOCK: the worker exits.
SPECIFICATION MCFairSpec
CONSTANTS
  Parts = {"readers", "user"}
  Worker = {0, 1}
  Addresses = 1
  ObserverCloses = {0}
  MaxBatches <- OneSided
  WorkerOptions <- MCWorkerOptions
  Episodes = 2
  Fits = {"line"}
  TracePipe = 2
  MaxWritten = 3
  SocketParts = 1
  Inputs = {"line", "long"}
  MaxInputs = 2
INVARIANTS
  RelayTrue
  ActionsAtBoundary
PROPERTIES
  CloseReturns
  RunEnds
CHECK_DEADLOCK FALSE
