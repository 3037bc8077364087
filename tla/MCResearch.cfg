\* CHECK_DEADLOCK: a training run and an experiment end.
SPECIFICATION MCSpec
CONSTANTS
  Checkpoint = {c1, c2}
  MaxElapsed = 3
  Cooldown = 2
  MaxRecords = 5
  InitialBatch = {3, 4}
  Segments = 5
  MaximumSpan = 2
  MaskAttempts = 2
  Precision = 2
  TargetCpu = 0
  Captures <- MCCaptures
  Family = {f1, f2}
  Repetition = {r1, r2, r3}
  TrainingRows = 1
  CalibrationRows = 1
  HeldoutCount = 1
  Retries = 1
  MaxRuns = 2
SYMMETRY Sym
INVARIANTS
  RecoveryBounded
  TokensExact
  EveryModalityUsed
  SealedLoads
  EvaluationUnseen
CHECK_DEADLOCK FALSE
