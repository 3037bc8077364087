\* Two endpoints, host names with two addresses; another thread may close, and so
\* may the observer of one endpoint.  Two repeats of a child that may write whole
\* streams of two sources.
SPECIFICATION MCSpec
CONSTANTS
  Worker = {0, 1}
  Addresses = 2
  ObserverCloses = {0}
  MaxBatches <- Batches
  Sources = {s1, s2}
  MaxFrames = 6
  MaxEvents = 2
  PipeParts = 1
  Repeats = 2
SYMMETRY Sym
INVARIANTS
  LosslessInOrder
  NoLostWakeup
  ServedInTurn
  CloseReaps
  OkMeansSealed
