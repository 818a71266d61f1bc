SPECIFICATION Spec
CONSTANTS
  PageSize = 4
  BitsPerByte = 4
  AddrSpace = 64
  KernelBase = 48
  SystemAreas <- MCSystemAreas
  KernelStart = 16
  KernelEnd = 18
  KernelSlack = 4
  BootInfos <- MCBootInfos
INVARIANT MultibootInfoReserved
