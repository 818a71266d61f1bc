SPECIFICATION Spec
CONSTANTS
  unshifted_table <- MCUnshifted
  shifted_table <- MCShifted
  Unmapped = "none"
  UnhandledMessage <- MCMessage
  TypedKeys = {"left_shift", "right_shift", "caps_lock", "unmapped"}
  OtherLines = {0, 8}
  Faults = {0, 8, 10, 14, 17, 31}
  Nibble = 4
  TssBase = 50000
  TssSize = 104
  MaxQueue = 2
  MaxEvents = 5
CHECK_DEADLOCK FALSE
INVARIANTS TypeOK NeverReset ServiceMatchesFrame FramesFitStack SegmentsFit KeyboardStaysArmed ModifiersFollowBytes
PROPERTIES RequestsKept RequestsServed
