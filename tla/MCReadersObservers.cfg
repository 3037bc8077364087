\* The observers of both endpoints may call close.
SPECIFICATION MCFairSpec
CONSTANTS
  Parts = {"readers"}
  Worker = {0, 1}
  Addresses = 1
  ObserverCloses = {0, 1}
  MaxBatches <- OneSided
  WorkerOptions <- MCWorkerOptions
  Episodes = 1
  Fits = {"line"}
  TracePipe = 2
  MaxWritten = 3
  SocketParts = 1
  Inputs = {"line", "long"}
  MaxInputs = 2
PROPERTY
  CloseReturns
CHECK_DEADLOCK FALSE
