------------------------------ MODULE Keyboard ------------------------------
(***************************************************************************)
(* keyboard_handler of terminal/keyboard.h: the modifier state it keeps    *)
(* and the characters it prints for each scancode.  A scancode is the key  *)
(* it belongs to and the release bit; keys that the code treats alike are  *)
(* one key here, and the tables give the character of each.                *)
(***************************************************************************)
EXTENDS Integers, Sequences

CONSTANTS
  unshifted_table,   \* the character of a key
  shifted_table,     \* its character with shift
  Unmapped,          \* 0 in the tables
  UnhandledMessage   \* the text printed for such a key

ShiftKeys == {"left_shift", "right_shift"}
Letters == {"letter"}
Keys == ShiftKeys \union Letters
          \union {"caps_lock", "symbol", "enter", "backspace", "tab", "escape", "unmapped"}
Scancodes == [key : Keys, release : BOOLEAN]
Modifiers == [shift_pressed : BOOLEAN, caps_lock : BOOLEAN]

ASSUME TablesAssumption == DOMAIN unshifted_table = Keys /\ DOMAIN shifted_table = Keys

\* Caps lock and shift cancel each other.
scancode_to_ascii(kbd, key) ==
  IF kbd.shift_pressed # kbd.caps_lock THEN shifted_table[key] ELSE unshifted_table[key]

\* What a press of a key that is no modifier prints: the newline and the
\* backspace of these keys come from the table and once more from the code.
Printed(kbd, key) ==
  LET ascii == scancode_to_ascii(kbd, key)
      again == CASE key = "enter"     -> <<"newline">>
                 [] key = "backspace" -> <<"backspace">>
                 [] OTHER             -> << >>
  IN  IF ascii = Unmapped THEN UnhandledMessage ELSE <<ascii>> \o again

\* Mutant of keyboard_handler: the release of the right shift key is ignored.
keyboard_handler_RightStays(kbd, scancode) ==
  LET key == scancode.key
      Keep(out) == [kbd |-> kbd, out |-> out]
      Shift(on) == [kbd |-> [kbd EXCEPT !.shift_pressed = on], out |-> << >>]
  IN  IF key = "left_shift" THEN Shift(~ scancode.release)
      ELSE IF scancode.release THEN Keep(<< >>)
      ELSE CASE key = "right_shift" -> Shift(TRUE)
             [] key = "caps_lock"   -> [kbd |-> [kbd EXCEPT !.caps_lock = ~ @], out |-> << >>]
             [] OTHER               -> Keep(Printed(kbd, key))

\* The new modifiers and the printed characters.
keyboard_handler(kbd, scancode) ==
  LET key == scancode.key
      Keep(out) == [kbd |-> kbd, out |-> out]
      Shift(on) == [kbd |-> [kbd EXCEPT !.shift_pressed = on], out |-> << >>]
  IN  IF key \in ShiftKeys THEN Shift(~ scancode.release)
      ELSE IF scancode.release THEN Keep(<< >>)
      ELSE IF key = "caps_lock" THEN [kbd |-> [kbd EXCEPT !.caps_lock = ~ @], out |-> << >>]
      ELSE Keep(Printed(kbd, key))
=============================================================================
