\* The same threads under fairness: one vCPU captures rows, the other only
\* starts, idles and ends; one action boundary.
SPECIFICATION FairSpec
CONSTANTS
  Source = {0, 1}
  Modes <- RingOnly
  RingCapacity = 1
  FrameRows = 2
  MaxBoundaries = 1
PROPERTY
  CaptureProgresses
