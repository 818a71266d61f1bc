SPECIFICATION Spec
CONSTANTS
  VGA_WIDTH = 2
  VGA_HEIGHT = 2
  SCROLLBACK_LINES = 2
  TabStop = 2
  SizeMod = 64
  a = a
  Printable = {a}
  Blank = Blank
  Nul = Nul
  Other = Other
  Unmapped = Unmapped
  ByteMod = 3
  unshifted_table <- MCTable
  shifted_table <- MCTable
  UnhandledMessage <- MCMessage
  IrqMessage <- MCMessage
  KernelChars <- MCKernelChars
INVARIANT CountIsLinesKept
