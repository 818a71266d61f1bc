------------------------- MODULE TerminalCallsProofs -------------------------
(***************************************************************************)
(* What the operations of the terminal do to its fields, for every size of *)
(* screen and scrollback: the lemmas that TerminalProofs and               *)
(* TerminalIrqProofs rest on.                                              *)
(***************************************************************************)
EXTENDS TerminalCalls, TLAPS

Terminals ==
  [ framebuffer        : [Rows -> Line],
    cursor_x           : Nat,
    cursor_y           : Nat,
    scrollback_buffer  : [Slots -> Line],
    scrollback_head    : Slots,
    scrollback_count   : Nat,
    view_offset        : Nat,
    cursor_visible     : BOOLEAN,
    in_scrollback_mode : BOOLEAN,
    hardware_cursor    : Nat ]

\* Two terminals with the same history, and with the same view of it.
SameHistory(t, u) ==
  /\ u.scrollback_buffer = t.scrollback_buffer
  /\ u.scrollback_head = t.scrollback_head
  /\ u.scrollback_count = t.scrollback_count

SameView(t, u) ==
  /\ u.view_offset = t.view_offset
  /\ u.in_scrollback_mode = t.in_scrollback_mode
  /\ u.cursor_visible = t.cursor_visible

-----------------------------------------------------------------------------
(* Division.                                                               *)

\* Two places of which one would lie in an earlier row are different.
LEMMA EarlierRow ==
  ASSUME NEW w \in Nat, NEW q \in Nat, NEW y \in Nat, NEW r \in Nat, NEW x \in Nat,
         r < w, q < y
  PROVE  q * w + r < y * w + x
<1>1. PICK d \in Nat : y = q + 1 + d
  <2>1. y - q - 1 \in Nat
    OBVIOUS
  <2> QED
    BY <2>1
<1>2. y * w = q * w + w + d * w
  BY <1>1
<1>3. d * w \in Nat /\ q * w \in Nat
  OBVIOUS
<1> QED
  BY <1>2, <1>3

\* Quotient and remainder are the only ones.
LEMMA DivisionIs ==
  ASSUME NEW n \in Nat, NEW w \in Nat, w > 0, NEW q \in Nat, NEW r \in Nat,
         n = q * w + r, r < w
  PROVE  n \div w = q /\ n % w = r
<1> DEFINE p == n \div w
           l == n % w
<1>1. n = p * w + l /\ p \in Nat /\ l \in Nat /\ l < w
  OBVIOUS
<1> HIDE DEF p, l
<1>2. p < q => p * w + l < q * w + r
  BY <1>1, EarlierRow
<1>3. q < p => q * w + r < p * w + l
  BY <1>1, EarlierRow
<1>4. p = q
  BY <1>1, <1>2, <1>3
<1>5. q * w \in Nat
  OBVIOUS
<1> QED
  BY <1>1, <1>4, <1>5 DEF p, l

-----------------------------------------------------------------------------
(* Cells.                                                                  *)

LEMMA ScreenSize ==
  /\ VGA_WIDTH \in Nat /\ VGA_WIDTH > 0 /\ VGA_HEIGHT \in Nat /\ VGA_HEIGHT > 0
  /\ SCROLLBACK_LINES \in Nat /\ SCROLLBACK_LINES > 0
  /\ TabStop \in Nat /\ TabStop > 0
  /\ OffScreen \in Nat
BY TerminalAssumption DEF OffScreen

LEMMA CellOfIndex ==
  ASSUME NEW index \in Nat, index < OffScreen
  PROVE  index \div VGA_WIDTH \in Rows /\ index % VGA_WIDTH \in Cols
<1>1. VGA_WIDTH \in Nat /\ VGA_WIDTH > 0 /\ VGA_HEIGHT \in Nat
      /\ index < VGA_WIDTH * VGA_HEIGHT
  BY ScreenSize DEF OffScreen
<1>2. index \div VGA_WIDTH \in Nat /\ index \div VGA_WIDTH < VGA_HEIGHT
  BY <1>1
<1>3. index % VGA_WIDTH \in 0 .. VGA_WIDTH - 1
  BY <1>1
<1> QED
  BY <1>1, <1>2, <1>3 DEF Rows, Cols

\* A cell of row y lies before the first one of row y + 1.
LEMMA IndexOfCell ==
  ASSUME NEW x \in Nat, NEW y \in Nat
  PROVE  /\ CellIndex(x, y) \in Nat
         /\ x < VGA_WIDTH /\ y < VGA_HEIGHT => CellIndex(x, y) < OffScreen
         /\ x <= VGA_WIDTH /\ y < VGA_HEIGHT => CellIndex(x, y) <= OffScreen
         /\ x < VGA_WIDTH /\ y <= VGA_HEIGHT => CellIndex(x, y) < OffScreen + VGA_WIDTH
<1>1. VGA_WIDTH \in Nat /\ VGA_HEIGHT \in Nat /\ OffScreen = VGA_HEIGHT * VGA_WIDTH
  BY ScreenSize DEF OffScreen
<1>2. y * VGA_WIDTH \in Nat /\ OffScreen \in Nat
  BY <1>1
<1>3. y < VGA_HEIGHT => y * VGA_WIDTH + VGA_WIDTH <= OffScreen
  <2>1. SUFFICES ASSUME y < VGA_HEIGHT
                 PROVE  y * VGA_WIDTH + VGA_WIDTH <= OffScreen
    OBVIOUS
  <2>2. PICK d \in Nat : VGA_HEIGHT = y + 1 + d
    <3>1. VGA_HEIGHT - y - 1 \in Nat
      BY <1>1, <2>1
    <3> QED
      BY <1>1, <3>1
  <2>3. OffScreen = y * VGA_WIDTH + VGA_WIDTH + d * VGA_WIDTH
    BY <1>1, <2>2
  <2>4. d * VGA_WIDTH \in Nat
    BY <1>1
  <2> QED
    BY <1>1, <1>2, <2>3, <2>4
<1>4. y = VGA_HEIGHT => y * VGA_WIDTH = OffScreen
  BY <1>1
<1> QED
  BY <1>1, <1>2, <1>3, <1>4 DEF CellIndex

LEMMA StoreCellEffect ==
  ASSUME NEW t \in Terminals, NEW index \in Nat, NEW c \in Printable \union {Blank, Nul}
  PROVE  LET u == StoreCell(t, index, c)
         IN  /\ u \in Terminals
             /\ SameHistory(t, u) /\ SameView(t, u)
             /\ u.cursor_x = t.cursor_x /\ u.cursor_y = t.cursor_y
             /\ u.hardware_cursor = t.hardware_cursor
<1>1. CASE index >= OffScreen
  BY <1>1 DEF StoreCell, SameHistory, SameView
<1>2. CASE ~ (index >= OffScreen)
  <2> DEFINE row == index \div VGA_WIDTH
             col == index % VGA_WIDTH
             line == [t.framebuffer[row] EXCEPT ![col] = c]
             screen == [t.framebuffer EXCEPT ![row] = line]
  <2>1. row \in Rows /\ col \in Cols
    BY <1>2, ScreenSize, CellOfIndex
  <2>2. t.framebuffer \in [Rows -> Line]
    BY DEF Terminals
  <2>3. line \in Line
    BY <2>1, <2>2 DEF Line
  <2>4. screen \in [Rows -> Line]
    BY <2>1, <2>2, <2>3
  <2>5. StoreCell(t, index, c) = [t EXCEPT !.framebuffer = screen]
    BY <1>2 DEF StoreCell
  <2> HIDE DEF screen
  <2> QED
    BY <2>4, <2>5 DEF Terminals, SameHistory, SameView
<1> QED
  BY <1>1, <1>2

LEMMA UpdateCursorEffect ==
  ASSUME NEW t \in Terminals
  PROVE  LET u == update_hardware_cursor(t)
         IN  /\ u \in Terminals
             /\ SameHistory(t, u) /\ SameView(t, u)
             /\ u.cursor_x = t.cursor_x /\ u.cursor_y = t.cursor_y
             /\ u.framebuffer = t.framebuffer
             /\ u.hardware_cursor = CursorPosition(u)
<1>1. CursorPosition(t) \in Nat
  BY ScreenSize, IndexOfCell DEF CursorPosition, Terminals
<1> DEFINE u == [t EXCEPT !.hardware_cursor = CursorPosition(t)]
<1>2. /\ u \in Terminals
      /\ SameHistory(t, u) /\ SameView(t, u)
      /\ u.cursor_x = t.cursor_x /\ u.cursor_y = t.cursor_y
      /\ u.framebuffer = t.framebuffer
      /\ u.hardware_cursor = CursorPosition(t)
  BY <1>1 DEF Terminals, SameHistory, SameView
<1>3. CursorPosition(u) = CursorPosition(t)
  BY <1>2 DEF CursorPosition, SameView
<1> QED
  BY <1>2, <1>3 DEF update_hardware_cursor

LEMMA BlankScreenType == BlankScreen \in [Rows -> Line] /\ BlankLine \in Line
BY DEF BlankScreen, BlankLine, Line

LEMMA ClearEffect ==
  ASSUME NEW t \in Terminals
  PROVE  LET u == terminal_clear(t)
         IN  /\ u \in Terminals
             /\ SameHistory(t, u) /\ SameView(t, u)
             /\ u.cursor_x = 0 /\ u.cursor_y = 0
             /\ u.framebuffer = BlankScreen
             /\ u.hardware_cursor = CursorPosition(u)
<1> DEFINE v == [t EXCEPT !.framebuffer = BlankScreen, !.cursor_x = 0, !.cursor_y = 0]
<1>1. /\ v \in Terminals
      /\ SameHistory(t, v) /\ SameView(t, v)
      /\ v.cursor_x = 0 /\ v.cursor_y = 0
      /\ v.framebuffer = BlankScreen
  BY BlankScreenType DEF Terminals, SameHistory, SameView
<1>2. terminal_clear(t) = update_hardware_cursor(v)
  BY DEF terminal_clear
<1> HIDE DEF v
<1> QED
  BY <1>1, <1>2, UpdateCursorEffect DEF SameHistory, SameView

LEMMA ScrollbottomEffect ==
  ASSUME NEW t \in Terminals
  PROVE  LET u == terminal_scrollbottom(t)
         IN  /\ u \in Terminals
             /\ SameHistory(t, u)
             /\ u.view_offset = 0 /\ u.in_scrollback_mode = FALSE
             /\ u.cursor_visible = t.cursor_visible
             /\ u.cursor_x = 0 /\ u.cursor_y = 0
             /\ u.framebuffer = BlankScreen
             /\ u.hardware_cursor = CursorPosition(u)
<1> DEFINE v == [t EXCEPT !.view_offset = 0, !.in_scrollback_mode = FALSE]
           w == terminal_clear(v)
<1>1. /\ v \in Terminals
      /\ SameHistory(t, v)
      /\ v.view_offset = 0 /\ v.in_scrollback_mode = FALSE
      /\ v.cursor_visible = t.cursor_visible
  BY DEF Terminals, SameHistory
<1>2. terminal_scrollbottom(t) = update_hardware_cursor(w)
  BY DEF terminal_scrollbottom
<1> HIDE DEF v
<1>3. /\ w \in Terminals
      /\ SameHistory(v, w) /\ SameView(v, w)
      /\ w.cursor_x = 0 /\ w.cursor_y = 0
      /\ w.framebuffer = BlankScreen
  BY <1>1, ClearEffect
<1> HIDE DEF w
<1> QED
  BY <1>1, <1>2, <1>3, UpdateCursorEffect DEF SameHistory, SameView

-----------------------------------------------------------------------------
(* Output.                                                                 *)

\* A terminal but for the column of its cursor.
InColumn(t, x) == [t EXCEPT !.cursor_x = x]

LEMMA InColumnEffect ==
  ASSUME NEW t \in Terminals, NEW x \in Nat
  PROVE  LET u == InColumn(t, x)
         IN  /\ u \in Terminals
             /\ SameHistory(t, u) /\ SameView(t, u)
             /\ u.hardware_cursor = t.hardware_cursor
             /\ u.framebuffer = t.framebuffer
             /\ u.cursor_x = x /\ u.cursor_y = t.cursor_y
BY DEF InColumn, Terminals, SameHistory, SameView

\* And but for the row, and at the start of the next row.
InRow(t, y) == [t EXCEPT !.cursor_y = y]

LEMMA InRowEffect ==
  ASSUME NEW t \in Terminals, NEW y \in Nat
  PROVE  LET u == InRow(t, y)
         IN  /\ u \in Terminals
             /\ SameHistory(t, u) /\ SameView(t, u)
             /\ u.hardware_cursor = t.hardware_cursor
             /\ u.framebuffer = t.framebuffer
             /\ u.cursor_x = t.cursor_x /\ u.cursor_y = y
BY DEF InRow, Terminals, SameHistory, SameView

NextRow(t) == [t EXCEPT !.cursor_x = 0, !.cursor_y = t.cursor_y + 1]

LEMMA NextRowEffect ==
  ASSUME NEW t \in Terminals
  PROVE  LET u == NextRow(t)
         IN  /\ u \in Terminals
             /\ SameHistory(t, u) /\ SameView(t, u)
             /\ u.hardware_cursor = t.hardware_cursor
             /\ u.framebuffer = t.framebuffer
             /\ u.cursor_x = 0 /\ u.cursor_y = t.cursor_y + 1
<1> DEFINE v == InColumn(t, 0)
<1>1. t.cursor_y + 1 \in Nat
  BY DEF Terminals
<1>2. /\ v \in Terminals
      /\ SameHistory(t, v) /\ SameView(t, v)
      /\ v.hardware_cursor = t.hardware_cursor
      /\ v.framebuffer = t.framebuffer
      /\ v.cursor_x = 0 /\ v.cursor_y = t.cursor_y
  BY InColumnEffect
<1>3. NextRow(t) = InRow(v, t.cursor_y + 1)
  BY DEF NextRow, InRow, InColumn
<1> HIDE DEF v
<1> QED
  BY <1>1, <1>2, <1>3, InRowEffect DEF SameHistory, SameView

\* A character moves the cursor: down by one row at most, and not beyond the end of
\* a row that it is not already at, but for a tab.
LEMMA PutAtCursorEffect ==
  ASSUME NEW t \in Terminals, NEW c \in Chars
  PROVE  LET u == PutAtCursor(t, c)
         IN  /\ u \in Terminals
             /\ SameHistory(t, u) /\ SameView(t, u)
             /\ u.hardware_cursor = t.hardware_cursor
             /\ u.cursor_y \in {t.cursor_y, t.cursor_y + 1}
             /\ u.cursor_y = t.cursor_y + 1 => u.cursor_x = 0
<1>1. t.cursor_x \in Nat /\ t.cursor_y \in Nat
  BY DEF Terminals
<1>2. /\ c = "newline" => c \notin Printable \union {Blank}
      /\ c = "return" => c \notin Printable \union {Blank}
      /\ c = "tab" => c \notin Printable \union {Blank}
      /\ c = "backspace" => c \notin Printable \union {Blank}
  BY TerminalAssumption
<1>3. CASE c = "newline"
  <2>1. PutAtCursor(t, c) = NextRow(t)
    BY <1>2, <1>3 DEF PutAtCursor, NextRow
  <2> QED
    BY <2>1, NextRowEffect
<1>4. CASE c = "return"
  <2>1. PutAtCursor(t, c) = InColumn(t, 0)
    BY <1>2, <1>4 DEF PutAtCursor, InColumn
  <2>2. InColumn(t, 0).cursor_y = t.cursor_y /\ t.cursor_y # t.cursor_y + 1
    BY <1>1, InColumnEffect
  <2>3. 0 \in Nat
    OBVIOUS
  <2> QED
    BY <2>1, <2>2, <2>3, InColumnEffect
<1>5. CASE c = "tab"
  <2>1. PutAtCursor(t, c) = InColumn(t, (t.cursor_x \div TabStop + 1) * TabStop)
    BY <1>2, <1>5 DEF PutAtCursor, InColumn
  <2>2. (t.cursor_x \div TabStop + 1) * TabStop \in Nat
    <3>1. t.cursor_x \div TabStop \in Nat
      BY <1>1, ScreenSize
    <3> QED
      BY <3>1, ScreenSize
  <2> DEFINE n == (t.cursor_x \div TabStop + 1) * TabStop
  <2>3. n \in Nat /\ PutAtCursor(t, c) = InColumn(t, n)
    BY <2>1, <2>2
  <2> HIDE DEF n
  <2>4. InColumn(t, n).cursor_y = t.cursor_y
    BY <2>3, InColumnEffect, Zenon
  <2>5. t.cursor_y # t.cursor_y + 1
    BY <1>1
  <2> QED
    BY <2>3, <2>4, <2>5, InColumnEffect
<1>6. CASE c = "backspace" /\ t.cursor_x = 0
  <2>1. PutAtCursor(t, c) = t
    BY <1>2, <1>6 DEF PutAtCursor
  <2> QED
    BY <1>1, <2>1 DEF SameHistory, SameView
<1>7. CASE c = "backspace" /\ t.cursor_x # 0
  <2> DEFINE v == StoreCell(t, CellIndex(t.cursor_x - 1, t.cursor_y), Blank)
             u == [v EXCEPT !.cursor_x = v.cursor_x - 1]
  <2>1. PutAtCursor(t, c) = u
    BY <1>2, <1>7 DEF PutAtCursor
  <2>2. t.cursor_x - 1 \in Nat
    BY <1>1, <1>7
  <2>3. CellIndex(t.cursor_x - 1, t.cursor_y) \in Nat
    BY <1>1, <2>2, IndexOfCell
  <2>4. /\ v \in Terminals
        /\ SameHistory(t, v) /\ SameView(t, v)
        /\ v.cursor_x = t.cursor_x /\ v.cursor_y = t.cursor_y
        /\ v.hardware_cursor = t.hardware_cursor
    BY <2>3, StoreCellEffect
  <2> HIDE DEF v
  <2>5. /\ u \in Terminals
        /\ SameHistory(t, u) /\ SameView(t, u)
        /\ u.cursor_y = t.cursor_y
        /\ u.hardware_cursor = t.hardware_cursor
    BY <2>2, <2>4 DEF Terminals, SameHistory, SameView
  <2> QED
    BY <1>1, <2>1, <2>5
<1>8. CASE c \in Printable \union {Blank}
  <2> DEFINE v == StoreCell(t, CellIndex(t.cursor_x, t.cursor_y), c)
             u == [v EXCEPT !.cursor_x = v.cursor_x + 1]
  <2>1. PutAtCursor(t, c) = u
    <3>1. c \notin {"newline", "return", "tab", "backspace"}
      BY <1>8, TerminalAssumption
    <3> QED
      BY <1>8, <3>1 DEF PutAtCursor
  <2>2. CellIndex(t.cursor_x, t.cursor_y) \in Nat
    BY <1>1, IndexOfCell
  <2>3. /\ v \in Terminals
        /\ SameHistory(t, v) /\ SameView(t, v)
        /\ v.cursor_x = t.cursor_x /\ v.cursor_y = t.cursor_y
        /\ v.hardware_cursor = t.hardware_cursor
    BY <1>8, <2>2, StoreCellEffect
  <2> HIDE DEF v
  <2>4. /\ u \in Terminals
        /\ SameHistory(t, u) /\ SameView(t, u)
        /\ u.cursor_y = t.cursor_y
        /\ u.hardware_cursor = t.hardware_cursor
    BY <1>1, <2>3 DEF Terminals, SameHistory, SameView
  <2> QED
    BY <1>1, <2>1, <2>4
<1>9. CASE c \notin Printable \union {Blank, "newline", "return", "tab", "backspace"}
  <2>1. PutAtCursor(t, c) = t
    BY <1>9 DEF PutAtCursor
  <2> QED
    BY <1>1, <2>1 DEF SameHistory, SameView
<1> QED
  BY <1>3, <1>4, <1>5, <1>6, <1>7, <1>8, <1>9

LEMMA WrapLineEffect ==
  ASSUME NEW t \in Terminals
  PROVE  LET u == WrapLine(t)
         IN  /\ u \in Terminals
             /\ SameHistory(t, u) /\ SameView(t, u)
             /\ u.hardware_cursor = t.hardware_cursor
             /\ u.framebuffer = t.framebuffer
             /\ u.cursor_x < VGA_WIDTH
             /\ \/ u.cursor_y = t.cursor_y /\ u.cursor_x = t.cursor_x
                \/ u.cursor_y = t.cursor_y + 1 /\ t.cursor_x >= VGA_WIDTH
<1>1. t.cursor_x \in Nat /\ t.cursor_y \in Nat
  BY DEF Terminals
<1>2. CASE t.cursor_x < VGA_WIDTH
  BY <1>2 DEF WrapLine, SameHistory, SameView
<1>3. CASE ~ (t.cursor_x < VGA_WIDTH)
  <2>1. WrapLine(t) = NextRow(t)
    BY <1>3 DEF WrapLine, NextRow
  <2> QED
    BY <1>1, <1>3, <2>1, NextRowEffect, ScreenSize
<1> QED
  BY <1>2, <1>3

\* Before the question whether to scroll: the mode has ended, the cursor is in a
\* column of the screen, and from a row of the screen it went down by one at most.
LEMMA WrittenEffect ==
  ASSUME NEW t \in Terminals, NEW c \in Chars
  PROVE  LET u == Written(t, c)
         IN  /\ u \in Terminals
             /\ SameHistory(t, u)
             /\ u.in_scrollback_mode = FALSE
             /\ u.cursor_visible = t.cursor_visible
             /\ u.view_offset = IF t.in_scrollback_mode THEN 0 ELSE t.view_offset
             /\ u.cursor_x < VGA_WIDTH
             /\ u.hardware_cursor \in Nat
<1> DEFINE s == IF t.in_scrollback_mode THEN terminal_scrollbottom(t) ELSE t
           p == PutAtCursor(s, c)
<1>1. /\ s \in Terminals
      /\ SameHistory(t, s)
      /\ s.in_scrollback_mode = FALSE
      /\ s.cursor_visible = t.cursor_visible
      /\ s.view_offset = IF t.in_scrollback_mode THEN 0 ELSE t.view_offset
  <2>1. CASE t.in_scrollback_mode
    BY <2>1, ScrollbottomEffect
  <2>2. CASE ~ t.in_scrollback_mode
    <3>1. t.in_scrollback_mode = FALSE
      BY <2>2 DEF Terminals
    <3> QED
      BY <2>2, <3>1 DEF SameHistory
  <2> QED
    BY <2>1, <2>2
<1> HIDE DEF s
<1>2. p \in Terminals /\ SameHistory(s, p) /\ SameView(s, p)
  BY <1>1, PutAtCursorEffect
<1> HIDE DEF p
<1>3. /\ WrapLine(p) \in Terminals /\ SameHistory(p, WrapLine(p)) /\ SameView(p, WrapLine(p))
      /\ WrapLine(p).cursor_x < VGA_WIDTH
  BY <1>2, WrapLineEffect
<1>4. Written(t, c) = WrapLine(p)
  BY DEF Written, p, s
<1>5. WrapLine(p).hardware_cursor \in Nat
  BY <1>3 DEF Terminals
<1> QED
  BY <1>1, <1>2, <1>3, <1>4, <1>5 DEF SameHistory, SameView

\* The ring: the slot behind the newest line, and what the line changes.
NextSlot(t) == (t.scrollback_head + t.scrollback_count) % SCROLLBACK_LINES

Saved(t, u, line) ==
  /\ u.scrollback_buffer = [t.scrollback_buffer EXCEPT ![NextSlot(t)] = line]
  /\ IF t.scrollback_count >= SCROLLBACK_LINES
     THEN /\ u.scrollback_count = t.scrollback_count
          /\ u.scrollback_head = (t.scrollback_head + 1) % SCROLLBACK_LINES
     ELSE /\ u.scrollback_count = t.scrollback_count + 1
          /\ u.scrollback_head = t.scrollback_head

LEMMA SlotType ==
  ASSUME NEW n \in Nat
  PROVE  n % SCROLLBACK_LINES \in Slots
BY ScreenSize DEF Slots

LEMMA SaveLineEffect ==
  ASSUME NEW t \in Terminals, NEW y \in Rows
  PROVE  LET u == save_line_to_scrollback(t, y)
         IN  /\ u \in Terminals
             /\ SameView(t, u) /\ Saved(t, u, t.framebuffer[y])
             /\ u.cursor_x = t.cursor_x /\ u.cursor_y = t.cursor_y
             /\ u.framebuffer = t.framebuffer
             /\ u.hardware_cursor = t.hardware_cursor
<1> DEFINE full   == t.scrollback_count >= SCROLLBACK_LINES
           buffer == [t.scrollback_buffer EXCEPT ![NextSlot(t)] = t.framebuffer[y]]
           count  == IF full THEN t.scrollback_count ELSE t.scrollback_count + 1
           head   == IF full THEN (t.scrollback_head + 1) % SCROLLBACK_LINES
                     ELSE t.scrollback_head
           u == [t EXCEPT !.scrollback_buffer = buffer, !.scrollback_count = count,
                          !.scrollback_head = head]
<1>1. /\ t.scrollback_head \in Nat /\ t.scrollback_count \in Nat
      /\ t.scrollback_head \in Slots
      /\ t.framebuffer[y] \in Line /\ t.scrollback_buffer \in [Slots -> Line]
  BY DEF Terminals, Slots
<1>2. NextSlot(t) \in Slots
  BY <1>1, SlotType DEF NextSlot
<1>3. buffer \in [Slots -> Line]
  BY <1>1, <1>2
<1>4. head \in Slots
  <2>1. t.scrollback_head + 1 \in Nat
    BY <1>1
  <2> QED
    BY <1>1, <2>1, SlotType
<1>5. count \in Nat
  BY <1>1
<1>6. save_line_to_scrollback(t, y) = u
  BY DEF save_line_to_scrollback, NextSlot
<1>7. Saved(t, [scrollback_buffer |-> buffer, scrollback_count |-> count,
                scrollback_head |-> head], t.framebuffer[y])
  BY DEF Saved
<1> HIDE DEF buffer, head, count
<1>8. /\ u \in Terminals
      /\ SameView(t, u)
      /\ u.scrollback_buffer = buffer /\ u.scrollback_count = count
      /\ u.scrollback_head = head
      /\ u.cursor_x = t.cursor_x /\ u.cursor_y = t.cursor_y
      /\ u.framebuffer = t.framebuffer
      /\ u.hardware_cursor = t.hardware_cursor
  BY <1>3, <1>4, <1>5 DEF Terminals, SameView
<1>9. Saved(t, u, t.framebuffer[y])
  BY <1>7, <1>8 DEF Saved
<1> QED
  BY <1>6, <1>8, <1>9

LEMMA ScrollDisplayEffect ==
  ASSUME NEW t \in Terminals
  PROVE  LET u == scroll_display(t)
         IN  /\ u \in Terminals
             /\ SameView(t, u) /\ Saved(t, u, t.framebuffer[0])
             /\ u.cursor_x = t.cursor_x /\ u.cursor_y = t.cursor_y
             /\ u.hardware_cursor = t.hardware_cursor
<1> DEFINE s == save_line_to_scrollback(t, 0)
           screen == [y \in Rows |-> IF y = VGA_HEIGHT - 1 THEN BlankLine
                                     ELSE t.framebuffer[y + 1]]
           u == [s EXCEPT !.framebuffer = screen]
<1>1. 0 \in Rows
  BY ScreenSize DEF Rows
<1>2. /\ s \in Terminals
      /\ SameView(t, s) /\ Saved(t, s, t.framebuffer[0])
      /\ s.cursor_x = t.cursor_x /\ s.cursor_y = t.cursor_y
      /\ s.hardware_cursor = t.hardware_cursor
  BY <1>1, SaveLineEffect
<1>3. screen \in [Rows -> Line]
  <2>1. \A y \in Rows : y # VGA_HEIGHT - 1 => y + 1 \in Rows
    BY ScreenSize DEF Rows
  <2>2. t.framebuffer \in [Rows -> Line]
    BY DEF Terminals
  <2> QED
    BY <2>1, <2>2, BlankScreenType
<1>4. scroll_display(t) = u
  BY DEF scroll_display
<1> HIDE DEF s, screen
<1>5. /\ u \in Terminals
      /\ SameView(s, u) /\ SameHistory(s, u)
      /\ u.cursor_x = s.cursor_x /\ u.cursor_y = s.cursor_y
      /\ u.hardware_cursor = s.hardware_cursor
  BY <1>2, <1>3 DEF Terminals, SameView, SameHistory
<1>6. Saved(t, u, t.framebuffer[0])
  BY <1>2, <1>5 DEF Saved, SameHistory
<1>7. SameView(t, u)
  BY <1>2, <1>5 DEF SameView
<1> QED
  BY <1>2, <1>4, <1>5, <1>6, <1>7

\* The whole of terminal_putchar: from the row behind the screen at most, the cursor
\* is on the screen again.
LEMMA PutcharEffect ==
  ASSUME NEW t \in Terminals, NEW c \in Chars
  PROVE  LET u == terminal_putchar(t, c)
             w == Written(t, c)
         IN  /\ u \in Terminals
             /\ u.in_scrollback_mode = FALSE
             /\ u.cursor_visible = t.cursor_visible
             /\ u.view_offset = IF t.in_scrollback_mode THEN 0 ELSE t.view_offset
             /\ u.cursor_x < VGA_WIDTH /\ u.cursor_y < VGA_HEIGHT
             /\ u.hardware_cursor = CursorPosition(u)
             /\ w.framebuffer[0] \in Line
             /\ IF w.cursor_y < VGA_HEIGHT THEN SameHistory(t, u)
                ELSE Saved(t, u, w.framebuffer[0])
<1> DEFINE w == Written(t, c)
           s == scroll_display(w)
           r == [s EXCEPT !.cursor_y = VGA_HEIGHT - 1]
           v == IF w.cursor_y < VGA_HEIGHT THEN w ELSE r
<1>1. /\ w \in Terminals
      /\ SameHistory(t, w)
      /\ w.in_scrollback_mode = FALSE
      /\ w.cursor_visible = t.cursor_visible
      /\ w.view_offset = IF t.in_scrollback_mode THEN 0 ELSE t.view_offset
      /\ w.cursor_x < VGA_WIDTH
  BY WrittenEffect
<1>2. terminal_putchar(t, c) = update_hardware_cursor(v)
  BY DEF terminal_putchar
<1> HIDE DEF w
<1>3. /\ s \in Terminals
      /\ SameView(w, s) /\ Saved(w, s, w.framebuffer[0])
      /\ s.cursor_x = w.cursor_x
  BY <1>1, ScrollDisplayEffect
<1> HIDE DEF s
<1>4. /\ r \in Terminals
      /\ SameView(s, r) /\ SameHistory(s, r)
      /\ r.cursor_x = s.cursor_x /\ r.cursor_y = VGA_HEIGHT - 1
  BY <1>3, ScreenSize DEF Terminals, SameView, SameHistory
<1> HIDE DEF r
<1>5. Saved(t, r, w.framebuffer[0])
  BY <1>1, <1>3, <1>4 DEF Saved, SameHistory, NextSlot
<1>6. /\ v \in Terminals /\ SameView(w, v)
      /\ v.cursor_x < VGA_WIDTH /\ v.cursor_y < VGA_HEIGHT
      /\ IF w.cursor_y < VGA_HEIGHT THEN SameHistory(t, v) ELSE Saved(t, v, w.framebuffer[0])
  <2>1. CASE w.cursor_y < VGA_HEIGHT
    BY <1>1, <2>1 DEF SameView
  <2>2. CASE ~ (w.cursor_y < VGA_HEIGHT)
    BY <1>1, <1>3, <1>4, <1>5, <2>2, ScreenSize DEF SameView
  <2> QED
    BY <2>1, <2>2
<1> HIDE DEF v
<1>7. w.framebuffer[0] \in Line
  BY <1>1, ScreenSize DEF Terminals, Rows
<1> DEFINE u == update_hardware_cursor(v)
<1>8. /\ u \in Terminals
      /\ SameHistory(v, u) /\ SameView(v, u)
      /\ u.cursor_x = v.cursor_x /\ u.cursor_y = v.cursor_y
      /\ u.hardware_cursor = CursorPosition(u)
  BY <1>6, UpdateCursorEffect
<1> HIDE DEF u
<1>9. IF w.cursor_y < VGA_HEIGHT THEN SameHistory(t, u) ELSE Saved(t, u, w.framebuffer[0])
  BY <1>6, <1>8 DEF SameHistory, Saved
<1> QED
  BY <1>1, <1>2, <1>6, <1>7, <1>8, <1>9 DEF SameView, u, w
=============================================================================
