------------------------------ MODULE Terminal ------------------------------
(***************************************************************************)
(* The terminal as its callers use it: each call runs to its end before    *)
(* the next one.  TerminalIrq has the calls that interrupts break up.      *)
(***************************************************************************)
EXTENDS TerminalCalls

VARIABLES
  term,      \* the terminal
  history    \* history: the last SCROLLBACK_LINES lines scrolled off the screen

vars == <<term, history>>

\* cursor_x < VGA_WIDTH and cursor_y < VGA_HEIGHT between calls: the index of every
\* store into the framebuffer relies on it.
TypeOK ==
  /\ term \in
       [ framebuffer        : [Rows -> Line],
         cursor_x           : Cols,
         cursor_y           : Rows,
         scrollback_buffer  : [Slots -> Line],
         scrollback_head    : Slots,
         scrollback_count   : 0 .. SCROLLBACK_LINES,
         view_offset        : 0 .. SCROLLBACK_LINES,
         cursor_visible     : BOOLEAN,
         in_scrollback_mode : BOOLEAN,
         hardware_cursor    : 0 .. OffScreen ]
  /\ history \in Seq(Line)

-----------------------------------------------------------------------------
Init == term = terminal_init /\ history = << >>

\* The last SCROLLBACK_LINES elements.
Newest(lines) ==
  IF Len(lines) <= SCROLLBACK_LINES THEN lines ELSE Tail(lines)

Putchar(c) ==
  /\ term' = terminal_putchar(term, c)
  /\ LET w == Written(term, c)
     IN  history' = IF w.cursor_y < VGA_HEIGHT THEN history
                    ELSE Newest(Append(history, w.framebuffer[0]))

Scrollup(lines) == term' = terminal_scrollup(term, lines) /\ UNCHANGED history
Scrolldown(lines) == term' = terminal_scrolldown(term, lines) /\ UNCHANGED history
Scrolltop == term' = terminal_scrolltop(term) /\ UNCHANGED history
Scrollbottom == term' = terminal_scrollbottom(term) /\ UNCHANGED history
Clear == term' = terminal_clear(term) /\ UNCHANGED history
Setcursor(x, y) == term' = terminal_setcursor(term, x, y) /\ UNCHANGED history
Showcursor(show) == term' = terminal_showcursor(term, show) /\ UNCHANGED history

Next ==
  \/ \E c \in Chars : Putchar(c)
  \/ \E lines \in 1 .. VGA_HEIGHT : Scrollup(lines) \/ Scrolldown(lines)
  \/ Scrolltop
  \/ Scrollbottom
  \/ Clear
  \/ \E x \in 0 .. VGA_WIDTH, y \in 0 .. VGA_HEIGHT : Setcursor(x, y)
  \/ \E show \in BOOLEAN : Showcursor(show)

Spec == Init /\ [][Next]_vars

-----------------------------------------------------------------------------
(***************************************************************************)
(* "Number of lines to keep in history" (terminal.h:11): whatever is       *)
(* printed and viewed, the ring holds the last SCROLLBACK_LINES lines that *)
(* were scrolled off the screen, oldest first from its head, also after it *)
(* has wrapped around.                                                     *)
(***************************************************************************)
ScrollbackHoldsLastLines ==
  /\ Len(history) = term.scrollback_count
  /\ \A k \in 1 .. Len(history) :
       history[k] = term.scrollback_buffer
                      [(term.scrollback_head + k - 1) % SCROLLBACK_LINES]

(***************************************************************************)
(* Scrolled back by a screen or more, the screen shows the window of       *)
(* VGA_HEIGHT consecutive lines of the history that lies view_offset lines *)
(* before its end, or nothing after terminal_clear, which does not leave   *)
(* the mode: the offset never exceeds the history (no size_t underflow in  *)
(* start_line), and moving it never leaves old rows behind.                *)
(***************************************************************************)
FullViewIsHistoryWindow ==
  term.in_scrollback_mode /\ term.view_offset >= VGA_HEIGHT =>
    /\ term.view_offset <= Len(history)
    /\ \/ term.framebuffer = BlankScreen
       \/ \A y \in Rows :
            term.framebuffer[y] = history[Len(history) - term.view_offset + y + 1]

(***************************************************************************)
(* The cursor the hardware shows is where the next character goes, and it  *)
(* is hidden exactly while it is switched off or the screen shows history: *)
(* a non-zero view_offset, or the mode that terminal_scrolltop enters with *)
(* an empty history.  The clear inside terminal_scrollbottom, which        *)
(* updates it as well, must not run before the mode has ended.             *)
(***************************************************************************)
HardwareCursorFollows ==
  /\ term.hardware_cursor = CursorPosition(term)
  /\ term.view_offset > 0 => term.hardware_cursor = OffScreen
=============================================================================
