---------------------------- MODULE TerminalCalls ----------------------------
(***************************************************************************)
(* The VGA text terminal of terminal/terminal.h with its scrollback: a     *)
(* ring of the last SCROLLBACK_LINES lines that were scrolled off the      *)
(* screen, and a mode in which the screen shows a window of that ring.     *)
(*                                                                         *)
(* The operations are functions on the value of the global term (its field *)
(* hardware_cursor is the position in the VGA controller), so that every   *)
(* call they make is part of them.  A cell is the character it shows;      *)
(* colours, which nothing but a cell's attribute depends on, are left out. *)
(***************************************************************************)
EXTENDS Integers, SequencesExt

CONSTANTS
  VGA_WIDTH, VGA_HEIGHT,   \* 80, 25
  SCROLLBACK_LINES,        \* 100
  TabStop,                 \* 8
  SizeMod,                 \* 2^32, the modulus of size_t arithmetic
  Printable,               \* the characters 32 .. 126 but the space
  Blank,                   \* the space
  Nul,                     \* what the static scrollback storage is filled with
  Other                    \* a character that is neither printable nor control

ASSUME TerminalAssumption ==
  /\ {VGA_WIDTH, VGA_HEIGHT, SCROLLBACK_LINES, TabStop} \subseteq Nat \ {0}
  /\ SizeMod \in Nat /\ SizeMod > VGA_HEIGHT + 2 * SCROLLBACK_LINES
  /\ Other \notin Printable \union {Blank}
  /\ {"newline", "return", "tab", "backspace"} \intersect (Printable \union {Blank}) = {}
  /\ Blank \notin Printable /\ Nul \notin Printable \union {Blank}

Rows == 0 .. VGA_HEIGHT - 1
Cols == 0 .. VGA_WIDTH - 1
Slots == 0 .. SCROLLBACK_LINES - 1
Line == [Cols -> Printable \union {Blank, Nul}]
BlankLine == [x \in Cols |-> Blank]
BlankScreen == [y \in Rows |-> BlankLine]
OffScreen == VGA_WIDTH * VGA_HEIGHT

Chars == Printable \union {Blank, Other, "newline", "return", "tab", "backspace"}

-----------------------------------------------------------------------------
(* Output.                                                                 *)

\* The place of a cell in the framebuffer.
CellIndex(x, y) == y * VGA_WIDTH + x

\* What lies behind the screen in the video memory is not shown, and not kept.
StoreCell(t, index, c) ==
  IF index >= OffScreen THEN t
  ELSE [t EXCEPT !.framebuffer[index \div VGA_WIDTH][index % VGA_WIDTH] = c]

CursorPosition(t) ==
  IF ~ t.cursor_visible \/ t.in_scrollback_mode THEN OffScreen
  ELSE CellIndex(t.cursor_x, t.cursor_y)

update_hardware_cursor(t) == [t EXCEPT !.hardware_cursor = CursorPosition(t)]

terminal_clear(t) ==
  update_hardware_cursor(
    [t EXCEPT !.framebuffer = BlankScreen, !.cursor_x = 0, !.cursor_y = 0])

\* Without the greeting it prints.
terminal_init ==
  update_hardware_cursor(
    [ framebuffer |-> BlankScreen, cursor_x |-> 0, cursor_y |-> 0,
      scrollback_buffer |-> [s \in Slots |-> [x \in Cols |-> Nul]],
      scrollback_head |-> 0, scrollback_count |-> 0, view_offset |-> 0,
      cursor_visible |-> TRUE, in_scrollback_mode |-> FALSE, hardware_cursor |-> 0 ])

\* Mutant of save_line_to_scrollback: a full ring keeps its oldest line.
save_line_to_scrollback_HeadKept(t, line_num) ==
  LET slot == (t.scrollback_head + t.scrollback_count) % SCROLLBACK_LINES
      full == t.scrollback_count >= SCROLLBACK_LINES
  IN  [t EXCEPT !.scrollback_buffer[slot] = t.framebuffer[line_num],
                !.scrollback_count = IF full THEN @ ELSE @ + 1]

\* The line becomes the newest one; in a full ring it replaces the oldest.
save_line_to_scrollback(t, line_num) ==
  LET slot == (t.scrollback_head + t.scrollback_count) % SCROLLBACK_LINES
      full == t.scrollback_count >= SCROLLBACK_LINES
  IN  [t EXCEPT !.scrollback_buffer[slot] = t.framebuffer[line_num],
                !.scrollback_count = IF full THEN @ ELSE @ + 1,
                !.scrollback_head = IF full THEN (@ + 1) % SCROLLBACK_LINES ELSE @]

scroll_display(t) ==
  [save_line_to_scrollback(t, 0) EXCEPT !.framebuffer =
     [y \in Rows |-> IF y = VGA_HEIGHT - 1 THEN BlankLine ELSE t.framebuffer[y + 1]]]

\* The mode ends before the screen is cleared, so the cursor reappears at once.
terminal_scrollbottom(t) ==
  update_hardware_cursor(
    terminal_clear([t EXCEPT !.view_offset = 0, !.in_scrollback_mode = FALSE]))

\* The switch in terminal_putchar.
PutAtCursor(t, c) ==
  CASE c = "newline"   -> [t EXCEPT !.cursor_x = 0, !.cursor_y = @ + 1]
    [] c = "return"    -> [t EXCEPT !.cursor_x = 0]
    [] c = "tab"       -> [t EXCEPT !.cursor_x = (@ \div TabStop + 1) * TabStop]
    [] c = "backspace" -> IF t.cursor_x = 0 THEN t
                          ELSE [StoreCell(t, CellIndex(t.cursor_x - 1, t.cursor_y), Blank)
                                  EXCEPT !.cursor_x = @ - 1]
    [] c \in Printable \union {Blank} ->
                          [StoreCell(t, CellIndex(t.cursor_x, t.cursor_y), c)
                             EXCEPT !.cursor_x = @ + 1]
    [] OTHER           -> t

\* Mutant of WrapLine: the cursor may stand behind the last column.
WrapLine_OneMore(t) ==
  IF t.cursor_x <= VGA_WIDTH THEN t
  ELSE [t EXCEPT !.cursor_x = 0, !.cursor_y = @ + 1]

WrapLine(t) ==
  IF t.cursor_x < VGA_WIDTH THEN t
  ELSE [t EXCEPT !.cursor_x = 0, !.cursor_y = @ + 1]

\* terminal_putchar up to the question whether to scroll.
Written(t, c) ==
  WrapLine(PutAtCursor(IF t.in_scrollback_mode THEN terminal_scrollbottom(t) ELSE t, c))

terminal_putchar(t, c) ==
  LET w == Written(t, c)
  IN  update_hardware_cursor(
        IF w.cursor_y < VGA_HEIGHT THEN w
        ELSE [scroll_display(w) EXCEPT !.cursor_y = VGA_HEIGHT - 1])

-----------------------------------------------------------------------------
(* Scrollback.                                                             *)

\* The number of lines to show and the first of them.
LinesToShow(t) ==
  IF t.view_offset < VGA_HEIGHT THEN VGA_HEIGHT - t.view_offset ELSE VGA_HEIGHT

StartLine(t) ==
  (t.scrollback_count
     - (IF t.view_offset < VGA_HEIGHT THEN LinesToShow(t) ELSE t.view_offset)) % SizeMod

\* Mutant of ShownSlot: the ring is taken to start at slot 0.
ShownSlot_NoHead(t, y) == ((StartLine(t) + y) % SizeMod) % SCROLLBACK_LINES

\* The slot of the line copied to a row.
ShownSlot(t, y) ==
  ((t.scrollback_head + StartLine(t) + y) % SizeMod) % SCROLLBACK_LINES

refresh_from_scrollback(t) ==
  [t EXCEPT !.framebuffer =
     [y \in Rows |->
        IF y < LinesToShow(t) /\ y < t.scrollback_count
        THEN t.scrollback_buffer[ShownSlot(t, y)] ELSE BlankLine]]

\* Mutant of terminal_scrollup: the mode is left as it is.
terminal_scrollup_ModeKept(t, lines) ==
  LET offset == IF t.view_offset + lines > t.scrollback_count
                THEN t.scrollback_count ELSE t.view_offset + lines
  IN  update_hardware_cursor(refresh_from_scrollback([t EXCEPT !.view_offset = offset]))

terminal_scrollup(t, lines) ==
  LET offset == IF t.view_offset + lines > t.scrollback_count
                THEN t.scrollback_count ELSE t.view_offset + lines
  IN  update_hardware_cursor(
        refresh_from_scrollback(
          [t EXCEPT !.view_offset = offset, !.in_scrollback_mode = offset > 0]))

terminal_scrolldown(t, lines) ==
  LET offset == IF t.view_offset >= lines THEN t.view_offset - lines ELSE 0
      moved  == [t EXCEPT !.view_offset = offset, !.in_scrollback_mode = offset > 0]
  IN  update_hardware_cursor(
        IF offset > 0 THEN refresh_from_scrollback(moved) ELSE terminal_clear(moved))

terminal_scrolltop(t) ==
  update_hardware_cursor(
    refresh_from_scrollback(
      [t EXCEPT !.view_offset = t.scrollback_count, !.in_scrollback_mode = TRUE]))

-----------------------------------------------------------------------------
(* Cursor.                                                                 *)

terminal_setcursor(t, x, y) ==
  IF x < VGA_WIDTH /\ y < VGA_HEIGHT
  THEN update_hardware_cursor([t EXCEPT !.cursor_x = x, !.cursor_y = y]) ELSE t

terminal_showcursor(t, show) == update_hardware_cursor([t EXCEPT !.cursor_visible = show])
=============================================================================
