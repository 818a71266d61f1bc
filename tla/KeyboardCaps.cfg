SPECIFICATION Spec
CONSTANTS
  unshifted_table <- MCUnshifted
  shifted_table <- MCShifted
  Unmapped = "none"
  UnhandledMessage <- MCMessage
  TypedKeys = {"caps_lock", "symbol"}
  OtherLines = {0, 8}
  Faults = {0, 8, 10, 14, 17, 31}
  Nibble = 4
  TssBase = 50000
  TssSize = 104
  MaxQueue = 3
  MaxEvents = 6
CHECK_DEADLOCK FALSE
INVARIANT CapsLockIsForLetters
