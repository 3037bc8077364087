\* Action windows without raw block rows, with address contexts selected.
SPECIFICATION MCSpec
CONSTANTS
  Parts = {"windows"}
  Source = {0, 1}
  TableCapacity = 2
  Hash <- Collide
  Address = {0, 1}
  CaptureBlocks = FALSE
  FrameRows = 3
  RowsPerFrame = 1
  MaxBlocks <- Blocks
  MaxContexts <- Contexts
  MaxActions = 2
  Cr3 = {0, 1, 2}
  PageSize = 2
  MaxAccesses <- Accesses
  MaxFiltered <- Filtered
  KernelOptions <- MCKernelOptions
  Lines = {"line"}
  GuestPipe = 2
  MaxRowFrames = 1
  MaxRounds = 2
  SocketParts = 2
  Inputs = {"line", "long"}
  MaxInputs = 2
INVARIANT
  SignalsIndependent
