\* The guests of the kernel worker, and what it says when the budget has passed.
SPECIFICATION MCSpec
CONSTANTS
  Parts = {"kernel"}
  Source = {0, 1}
  TableCapacity = 2
  Hash <- Collide
  Address = {0, 1}
  CaptureBlocks = TRUE
  FrameRows = 3
  RowsPerFrame = 1
  MaxBlocks <- Blocks
  MaxContexts <- Contexts
  MaxActions = 2
  Cr3 = {0, 1, 2}
  PageSize = 2
  MaxAccesses <- Accesses
  MaxFiltered <- Filtered
  KernelOptions <- MCKernelOptions
  Lines = {"line"}
  GuestPipe = 2
  MaxRowFrames = 1
  MaxRounds = 2
  SocketParts = 2
  Inputs = {"line", "long"}
  MaxInputs = 2
INVARIANT
  KernelReportAtBoundary
