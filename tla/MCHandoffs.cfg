\* Four slots and positions that wrap every eight pushes; a benchmark of one
\* source and two repeats; three workers and a queue of one batch.
SPECIFICATION MCSpec
CONSTANTS
  Capacity = 4
  Laps = 2
  Frame = {f1, f2}
  Torn = Torn
  NoFrame = NoFrame
  Sources = {s1}
  MaxFrames = 4
  MaxEvents = 2
  PipeParts = 1
  Repeats = 2
  Streams <- MCStreams
  TrainWorkers = 2
  QueueBatches = 1
  BatchSize = 2
  Budgets = {1, 3}
  TestBatches = 1
INVARIANTS
  SlotOwnership
  PairsFollow
PROPERTIES
  ImplementsQueue
  FullRingDrains
  BenchmarkEnds
  TrainingEnds
CHECK_DEADLOCK FALSE
