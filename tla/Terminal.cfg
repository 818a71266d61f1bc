SPECIFICATION Spec
CONSTANTS
  VGA_WIDTH = 3
  VGA_HEIGHT = 2
  SCROLLBACK_LINES = 3
  TabStop = 2
  SizeMod = 64
  Printable = {a}
  Blank = Blank
  Nul = Nul
  Other = Other
INVARIANTS TypeOK ScrollbackHoldsLastLines FullViewIsHistoryWindow HardwareCursorFollows
