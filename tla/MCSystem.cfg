\* Two vCPUs and two windows, tables of two slots for four transitions; both
\* filter policies, with two vCPUs that may reach the gate; a guest that asks for
\* two actions, and an observed one with a budget, pipes that hold two frames and a
\* socket that holds one.
SPECIFICATION MCSpec
CONSTANTS
  Parts = {"windows", "filter", "kernel"}
  Source = {0, 1}
  TableCapacity = 2
  Hash <- Collide
  Address = {0, 1}
  CaptureBlocks = TRUE
  FrameRows = 3
  RowsPerFrame = 1
  MaxBlocks <- Blocks
  MaxContexts <- Contexts
  MaxActions = 2
  Cr3 = {0, 1, 2}
  PageSize = 2
  MaxAccesses <- Accesses
  MaxFiltered <- Filtered
  KernelOptions <- MCKernelOptions
  Lines = {"line"}
  GuestPipe = 2
  MaxRowFrames = 1
  MaxRounds = 2
  SocketParts = 2
  Inputs = {"line", "long"}
  MaxInputs = 2
INVARIANTS
  WindowsAccepted
  RowsExact
  WindowPerAction
  FilterExact
  KernelBoundary
PROPERTIES
  ForeignNeverForwarded
