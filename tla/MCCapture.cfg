\* Ring publication under a kernel worker: both vCPUs capture rows, one action
\* boundary, exit at any point.  Direct publication, one kind of row per frame,
\* no action boundaries.
SPECIFICATION Spec
CONSTANTS
  Source = {0, 1}
  Modes <- RingAndDirect
  RingCapacity = 1
  FrameRows = 2
  MaxBoundaries = 1
INVARIANTS
  EveryFrameAccepted
  CompleteMeansEverything
  BoundaryHasEverything
  BufferExclusive
