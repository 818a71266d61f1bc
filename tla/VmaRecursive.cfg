SPECIFICATION Spec
CONSTANTS
  PageSize = 7
  BitsPerByte = 4
  AddrSpace = 343
  KernelBase = 196
  SystemAreas <- MCSystemAreas
  KernelStart = 14
  KernelEnd = 20
  KernelSlack = 7
  N = 7
  KernelPde = 4
  PdFrame = 2
  PtFrame = 3
  NumFrames = 11
  NotPresent = NotPresent
  BootInfos <- UpperBootInfos
  Leftovers <- NoLeftovers
  Requests <- SmallRequests
  MaxFrees = 0
INVARIANT LivePagesMapped
CHECK_DEADLOCK FALSE
