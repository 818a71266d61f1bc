-------------------------- MODULE TerminalIrqProofs --------------------------
(***************************************************************************)
(* Proofs about terminal_putchar under interrupts, for every size of the   *)
(* screen and of the scrollback, every layout of the keyboard and every    *)
(* message the handlers print.                                             *)
(*                                                                         *)
(* The inductive invariant says, for each place in terminal_putchar, where *)
(* the cursor may be and what a loaded value is still good for.  What a    *)
(* handler prints always leaves the cursor on the screen, which is within  *)
(* every one of these bounds; what kernel_main loaded before an interrupt  *)
(* it may store long after, so that reg is bounded by itself and never by  *)
(* what the terminal holds now.                                            *)
(*                                                                         *)
(* The second half proves that a call nobody interrupts is atomic.         *)
(***************************************************************************)
EXTENDS TerminalIrq, TerminalCallsProofs, SequenceTheorems

-----------------------------------------------------------------------------
(* The inductive invariant.                                                *)

TermInv(t) ==
  /\ t \in Terminals
  /\ t.cursor_x <= VGA_WIDTH /\ t.cursor_y <= VGA_HEIGHT
  /\ t.view_offset = 0 /\ t.cursor_visible = TRUE /\ t.in_scrollback_mode = FALSE
  /\ t.hardware_cursor < ByteMod * ByteMod
  /\ t.scrollback_count <= SCROLLBACK_LINES + 1

OnScreen(t) == t.cursor_x < VGA_WIDTH /\ t.cursor_y < VGA_HEIGHT

\* Before the wrap the cursor may be one cell to the right of the screen or one row
\* below it, but not both; until the scroll is done it may be below it.
CursorInv(t, at) ==
  CASE at = "wrap"   -> \/ t.cursor_y < VGA_HEIGHT
                        \/ t.cursor_x < VGA_WIDTH
    [] at = "wrap_x" -> t.cursor_y < VGA_HEIGHT
    [] at \in {"bottom", "slot_head", "slot_count", "save_line", "full", "count_load",
               "count_store", "head_load", "head_store", "shift", "last_row"}
                     -> t.cursor_x < VGA_WIDTH
    [] OTHER         -> OnScreen(t)

\* A slot is loaded before it is used, and the count that was below the size when it
\* was tested is at most the size when it is loaded.
CountInv(t, at) == at = "count_load" => t.scrollback_count <= SCROLLBACK_LINES

RegInv(value, at) ==
  /\ value \in Nat
  /\ at \in {"newline_store", "cell_x", "wrap_store"} => value < VGA_HEIGHT
  /\ at = "cell_store" => value < OffScreen
  /\ at = "next_store" => value < VGA_WIDTH
  /\ at \in {"slot_count", "save_line"} => value \in Slots
  /\ at = "count_store" => value <= SCROLLBACK_LINES

LoopInv(n, at) ==
  /\ n \in Nat
  /\ IF at = "save_line" THEN n < VGA_WIDTH
     ELSE IF at = "shift" THEN n < OffScreen
     ELSE n = 0

CharInv(c, at) ==
  /\ c \in Chars
  /\ at \in {"cell_y", "cell_x", "cell_store"} => c \in Printable \union {Blank}

IInv ==
  /\ TermInv(term) /\ CursorInv(term, pc) /\ CountInv(term, pc)
  /\ RegInv(reg, pc) /\ LoopInv(i, pc) /\ CharInv(char, pc)
  /\ crtc_index \in {"low", "high"}
  /\ printing \in Seq(Chars)

-----------------------------------------------------------------------------
(* What the parts of IInv say of the pieces a step is made of.             *)

LEMMA SmallestCase == 1 <= VGA_WIDTH /\ VGA_WIDTH <= OffScreen /\ 0 \in Rows
<1>1. VGA_WIDTH \in Nat /\ VGA_HEIGHT \in Nat /\ VGA_WIDTH > 0 /\ VGA_HEIGHT > 0
  BY ScreenSize
<1>2. PICK h \in Nat : VGA_HEIGHT = h + 1
  <2>1. VGA_HEIGHT - 1 \in Nat
    BY <1>1
  <2> QED
    BY <1>1, <2>1
<1>3. OffScreen = VGA_WIDTH * h + VGA_WIDTH /\ VGA_WIDTH * h \in Nat
  BY <1>1, <1>2 DEF OffScreen
<1> QED
  BY <1>1, <1>3 DEF Rows

\* The position of a cursor fits the two registers.
LEMMA PositionFits ==
  ASSUME NEW t \in Terminals, t.cursor_visible = TRUE, t.in_scrollback_mode = FALSE,
         OnScreen(t)
  PROVE  CursorPosition(t) \in Nat /\ CursorPosition(t) < ByteMod * ByteMod
<1>1. CursorPosition(t) = CellIndex(t.cursor_x, t.cursor_y)
  BY DEF CursorPosition
<1>2. CellIndex(t.cursor_x, t.cursor_y) \in Nat /\ CellIndex(t.cursor_x, t.cursor_y) < OffScreen
  BY IndexOfCell DEF Terminals, OnScreen
<1>3. VGA_WIDTH * (VGA_HEIGHT + 1) = OffScreen + VGA_WIDTH
  BY ScreenSize DEF OffScreen
<1>4. ByteMod * ByteMod \in Nat /\ ByteMod * ByteMod > VGA_WIDTH * (VGA_HEIGHT + 1)
  BY TerminalIrqAssumption
<1> QED
  BY <1>1, <1>2, <1>3, <1>4, ScreenSize

\* A character that a handler prints leaves the cursor on the screen, and does not
\* overrun the ring.
LEMMA PutcharInv ==
  ASSUME NEW t, TermInv(t), NEW c \in Chars
  PROVE  LET u == terminal_putchar(t, c)
         IN  /\ TermInv(u) /\ OnScreen(u)
             /\ t.scrollback_count <= SCROLLBACK_LINES
                  => u.scrollback_count <= SCROLLBACK_LINES
<1> DEFINE u == terminal_putchar(t, c)
           w == Written(t, c)
<1>1. t \in Terminals /\ t.in_scrollback_mode = FALSE /\ t.view_offset = 0
      /\ t.cursor_visible = TRUE /\ t.scrollback_count <= SCROLLBACK_LINES + 1
  BY DEF TermInv
<1>2. /\ u \in Terminals
      /\ u.in_scrollback_mode = FALSE /\ u.cursor_visible = TRUE /\ u.view_offset = 0
      /\ u.cursor_x < VGA_WIDTH /\ u.cursor_y < VGA_HEIGHT
      /\ u.hardware_cursor = CursorPosition(u)
      /\ IF w.cursor_y < VGA_HEIGHT THEN SameHistory(t, u)
         ELSE Saved(t, u, w.framebuffer[0])
  BY <1>1, PutcharEffect
<1> HIDE DEF u, w
<1>3. u.hardware_cursor < ByteMod * ByteMod
  BY <1>2, PositionFits DEF OnScreen
<1>4. u.cursor_x \in Nat /\ u.cursor_y \in Nat
  BY <1>2 DEF Terminals
<1>5. /\ u.scrollback_count <= SCROLLBACK_LINES + 1
      /\ t.scrollback_count <= SCROLLBACK_LINES => u.scrollback_count <= SCROLLBACK_LINES
  <2>1. t.scrollback_count \in Nat
    BY <1>1 DEF Terminals
  <2>2. CASE SameHistory(t, u)
    BY <1>1, <2>2 DEF SameHistory
  <2>3. CASE Saved(t, u, w.framebuffer[0])
    BY <1>1, <2>1, <2>3, ScreenSize DEF Saved
  <2> QED
    BY <1>2, <2>2, <2>3
<1>6. TermInv(u) /\ OnScreen(u)
  BY <1>2, <1>3, <1>4, <1>5, ScreenSize DEF TermInv, OnScreen
<1> QED
  BY <1>5, <1>6 DEF u

\* Wherever kernel_main is, it can take up a cursor on the screen.
LEMMA CursorAnywhere ==
  ASSUME NEW t, NEW at, OnScreen(t)
  PROVE  CursorInv(t, at)
BY DEF OnScreen, CursorInv

\* Handlers print characters.
LEMMA PrintedType ==
  ASSUME NEW kbd, NEW key \in Keys
  PROVE  Printed(kbd, key) \in Seq(Chars)
<1> DEFINE ascii == scancode_to_ascii(kbd, key)
           again == CASE key = "enter"     -> <<"newline">>
                      [] key = "backspace" -> <<"backspace">>
                      [] OTHER             -> << >>
<1>1. ascii \in Chars \union {Unmapped} /\ UnhandledMessage \in Seq(Chars)
  BY TerminalIrqAssumption DEF scancode_to_ascii
<1>2. again \in Seq(Chars)
  <2>1. "newline" \in Chars /\ "backspace" \in Chars
    BY DEF Chars
  <2>2. \A c \in Chars : <<c>> \in Seq(Chars)
    OBVIOUS
  <2>3. << >> \in Seq(Chars)
    OBVIOUS
  <2>4. again \in {<<"newline">>, <<"backspace">>, << >>}
    <3>1. "enter" # "backspace"
      OBVIOUS
    <3>2. CASE key = "enter"
      BY <3>1, <3>2
    <3>3. CASE key = "backspace"
      BY <3>1, <3>3
    <3>4. CASE key \notin {"enter", "backspace"}
      BY <3>4
    <3> QED
      BY <3>2, <3>3, <3>4
  <2> HIDE DEF again
  <2> QED
    BY <2>1, <2>2, <2>3, <2>4
<1>3. Printed(kbd, key) = IF ascii = Unmapped THEN UnhandledMessage ELSE <<ascii>> \o again
  BY DEF Printed
<1> HIDE DEF ascii, again
<1>4. ascii # Unmapped => <<ascii>> \in Seq(Chars)
  BY <1>1
<1>5. ascii # Unmapped => <<ascii>> \o again \in Seq(Chars)
  BY <1>2, <1>4, ConcatProperties
<1> QED
  BY <1>1, <1>3, <1>5

LEMMA HandlerOutputsType == HandlerOutputs \subseteq Seq(Chars)
<1>1. IrqMessage \in Seq(Chars) /\ << >> \in Seq(Chars)
  BY TerminalIrqAssumption
<1>2. ASSUME NEW kbd \in Modifiers, NEW scancode \in Scancodes
      PROVE  keyboard_handler(kbd, scancode).out \in Seq(Chars)
  <2>1. scancode.key \in Keys
    BY DEF Scancodes
  <2>2. Printed(kbd, scancode.key) \in Seq(Chars)
    BY <2>1, PrintedType
  <2>3. keyboard_handler(kbd, scancode).out \in {<< >>, Printed(kbd, scancode.key)}
    BY DEF keyboard_handler
  <2> QED
    BY <1>1, <2>2, <2>3
<1> QED
  BY <1>1, <1>2 DEF HandlerOutputs

-----------------------------------------------------------------------------
(* Kinds of steps: what is left to show for each.                          *)

LEMMA LoadInv ==
  ASSUME IInv, NEW from, NEW value, NEW to, Load(from, value, to),
         pc = from =>
           /\ CursorInv(term, to) /\ CountInv(term, to)
           /\ RegInv(value, to) /\ LoopInv(i, to) /\ CharInv(char, to)
  PROVE  IInv'
BY DEF IInv, Load, Goto

LEMMA StoreInv ==
  ASSUME IInv, NEW from, NEW value, NEW to, Store(from, value, to),
         pc = from =>
           /\ TermInv(value) /\ CursorInv(value, to) /\ CountInv(value, to)
           /\ RegInv(0, to) /\ LoopInv(i, to) /\ CharInv(char, to)
  PROVE  IInv'
BY DEF IInv, Store, Goto

\* The places at which nothing but the cursor matters.
Plain ==
  {"idle", "newline", "newline_load", "next_load", "wrap", "wrap_x", "wrap_load",
   "bottom", "slot_head", "full", "head_load", "head_store", "last_row", "pos_y", "pos_x",
   "select_high", "high", "select_low", "low"}

LEMMA PlainInv ==
  ASSUME NEW t, NEW n \in Nat, NEW c, NEW from, NEW k, NEW to \in Plain,
         CharInv(c, from), LoopInv(k, from), from \notin {"save_line", "shift"}
  PROVE  /\ CountInv(t, to) /\ RegInv(n, to) /\ LoopInv(k, to) /\ CharInv(c, to)
BY DEF CountInv, RegInv, LoopInv, CharInv, Plain

\* A cursor moved.
LEMMA ColumnInv ==
  ASSUME NEW t, TermInv(t), NEW x \in Nat, x <= VGA_WIDTH
  PROVE  LET u == InColumn(t, x)
         IN  TermInv(u) /\ u.cursor_x = x /\ u.cursor_y = t.cursor_y
BY InColumnEffect DEF TermInv, SameHistory, SameView

LEMMA RowInv ==
  ASSUME NEW t, TermInv(t), NEW y \in Nat, y <= VGA_HEIGHT
  PROVE  LET u == InRow(t, y)
         IN  TermInv(u) /\ u.cursor_x = t.cursor_x /\ u.cursor_y = y
BY InRowEffect DEF TermInv, SameHistory, SameView

-----------------------------------------------------------------------------
(* The steps of kernel_main.                                               *)

LEMMA CursorType ==
  ASSUME IInv
  PROVE  term.cursor_x \in Nat /\ term.cursor_y \in Nat /\ term.scrollback_count \in Nat
         /\ term.scrollback_head \in Slots /\ term \in Terminals
BY DEF IInv, TermInv, Terminals

LEMMA CallStep ==
  ASSUME IInv, NEW c \in KernelChars, Call(c)
  PROVE  IInv'
<1>1. c \in Chars /\ (c # "newline" => c \in Printable \union {Blank})
  BY TerminalIrqAssumption DEF Chars
<1>2. OnScreen(term) /\ i = 0
  BY DEF IInv, Call, CursorInv, LoopInv
<1>3. CursorInv(term, pc')
  BY <1>2, CursorAnywhere
<1>4. /\ CountInv(term, pc') /\ LoopInv(i, pc')
      /\ CharInv(c, pc') /\ RegInv(reg, pc')
  BY <1>1, <1>2 DEF IInv, Call, CountInv, LoopInv, CharInv, RegInv
<1> QED
  BY <1>3, <1>4 DEF IInv, Call

LEMMA PutNewlineStep ==
  ASSUME IInv, PutNewline
  PROVE  IInv'
<1>1. CASE Store("newline", [term EXCEPT !.cursor_x = 0], "newline_load")
  <2> DEFINE u == [term EXCEPT !.cursor_x = 0]
  <2>1. TermInv(u) /\ u.cursor_x = 0 /\ u.cursor_y = term.cursor_y
    BY ColumnInv, ScreenSize DEF IInv, InColumn
  <2> HIDE DEF u
  <2>2. pc = "newline" => CursorInv(u, "newline_load")
    BY <2>1, ScreenSize DEF IInv, CursorInv, OnScreen
  <2>3. pc = "newline" => /\ CountInv(u, "newline_load") /\ RegInv(0, "newline_load")
                          /\ LoopInv(i, "newline_load") /\ CharInv(char, "newline_load")
    BY PlainInv DEF IInv, Plain
  <2> QED
    BY <1>1, <2>1, <2>2, <2>3, StoreInv DEF u
<1>2. CASE Load("newline_load", term.cursor_y, "newline_store")
  <2>1. pc = "newline_load" =>
          /\ CursorInv(term, "newline_store") /\ CountInv(term, "newline_store")
          /\ RegInv(term.cursor_y, "newline_store")
          /\ LoopInv(i, "newline_store") /\ CharInv(char, "newline_store")
    BY CursorType DEF IInv, CursorInv, OnScreen, CountInv, RegInv, LoopInv, CharInv
  <2> QED
    BY <1>2, <2>1, LoadInv
<1>3. CASE Store("newline_store", [term EXCEPT !.cursor_y = reg + 1], "wrap")
  <2> DEFINE u == [term EXCEPT !.cursor_y = reg + 1]
  <2>1. pc = "newline_store" => reg \in Nat /\ reg < VGA_HEIGHT /\ term.cursor_x < VGA_WIDTH
    BY DEF IInv, RegInv, CursorInv, OnScreen
  <2>2. pc = "newline_store" => reg + 1 \in Nat /\ reg + 1 <= VGA_HEIGHT /\ u = InRow(term, reg + 1)
    BY <2>1, ScreenSize DEF InRow
  <2>3. pc = "newline_store" => TermInv(u) /\ u.cursor_x = term.cursor_x
    BY <2>2, RowInv DEF IInv
  <2> HIDE DEF u
  <2>4. pc = "newline_store" => CursorInv(u, "wrap")
    BY <2>1, <2>3, ScreenSize DEF CursorInv
  <2>5. pc = "newline_store" => /\ CountInv(u, "wrap") /\ RegInv(0, "wrap")
                                /\ LoopInv(i, "wrap") /\ CharInv(char, "wrap")
    BY PlainInv DEF IInv, Plain
  <2> QED
    BY <1>3, <2>3, <2>4, <2>5, StoreInv DEF u
<1> QED
  BY <1>1, <1>2, <1>3 DEF PutNewline

LEMMA PutCellStep ==
  ASSUME IInv, PutCell
  PROVE  IInv'
<1>1. CASE Load("cell_y", term.cursor_y, "cell_x")
  <2>1. pc = "cell_y" =>
          /\ CursorInv(term, "cell_x") /\ CountInv(term, "cell_x")
          /\ RegInv(term.cursor_y, "cell_x")
          /\ LoopInv(i, "cell_x") /\ CharInv(char, "cell_x")
    BY CursorType DEF IInv, CursorInv, OnScreen, CountInv, RegInv, LoopInv, CharInv
  <2> QED
    BY <1>1, <2>1, LoadInv
<1>2. CASE Load("cell_x", CellIndex(term.cursor_x, reg), "cell_store")
  <2> DEFINE index == CellIndex(term.cursor_x, reg)
  <2>1. pc = "cell_x" => /\ term.cursor_x \in Nat /\ term.cursor_x < VGA_WIDTH
                         /\ reg \in Nat /\ reg < VGA_HEIGHT
    BY CursorType DEF IInv, CursorInv, OnScreen, RegInv
  <2>2. pc = "cell_x" => index \in Nat /\ index < OffScreen
    BY <2>1, IndexOfCell
  <2> HIDE DEF index
  <2>3. pc = "cell_x" =>
          /\ CursorInv(term, "cell_store") /\ CountInv(term, "cell_store")
          /\ RegInv(index, "cell_store")
          /\ LoopInv(i, "cell_store") /\ CharInv(char, "cell_store")
    BY <2>2 DEF IInv, CursorInv, CountInv, RegInv, LoopInv, CharInv
  <2> QED
    BY <1>2, <2>3, LoadInv DEF index
<1>3. CASE Store("cell_store", StoreCell(term, reg, char), "next_load")
  <2> DEFINE u == StoreCell(term, reg, char)
  <2>1. pc = "cell_store" => reg \in Nat /\ char \in Printable \union {Blank}
    BY DEF IInv, RegInv, CharInv
  <2>2. pc = "cell_store" =>
          /\ u \in Terminals /\ SameHistory(term, u) /\ SameView(term, u)
          /\ u.cursor_x = term.cursor_x /\ u.cursor_y = term.cursor_y
          /\ u.hardware_cursor = term.hardware_cursor
    BY <2>1, CursorType, StoreCellEffect
  <2> HIDE DEF u
  <2>3. pc = "cell_store" => TermInv(u) /\ CursorInv(u, "next_load")
    BY <2>2 DEF IInv, TermInv, SameHistory, SameView, CursorInv, OnScreen
  <2>4. pc = "cell_store" => /\ CountInv(u, "next_load") /\ RegInv(0, "next_load")
                             /\ LoopInv(i, "next_load") /\ CharInv(char, "next_load")
    BY PlainInv DEF IInv, Plain
  <2> QED
    BY <1>3, <2>3, <2>4, StoreInv DEF u
<1>4. CASE Load("next_load", term.cursor_x, "next_store")
  <2>1. pc = "next_load" =>
          /\ CursorInv(term, "next_store") /\ CountInv(term, "next_store")
          /\ RegInv(term.cursor_x, "next_store")
          /\ LoopInv(i, "next_store") /\ CharInv(char, "next_store")
    BY CursorType DEF IInv, CursorInv, OnScreen, CountInv, RegInv, LoopInv, CharInv
  <2> QED
    BY <1>4, <2>1, LoadInv
<1>5. CASE Store("next_store", [term EXCEPT !.cursor_x = reg + 1], "wrap")
  <2> DEFINE u == [term EXCEPT !.cursor_x = reg + 1]
  <2>1. pc = "next_store" => reg \in Nat /\ reg < VGA_WIDTH /\ term.cursor_y < VGA_HEIGHT
    BY DEF IInv, RegInv, CursorInv, OnScreen
  <2>2. pc = "next_store" => reg + 1 \in Nat /\ reg + 1 <= VGA_WIDTH /\ u = InColumn(term, reg + 1)
    BY <2>1, ScreenSize DEF InColumn
  <2>3. pc = "next_store" => TermInv(u) /\ u.cursor_y = term.cursor_y
    BY <2>2, ColumnInv DEF IInv
  <2> HIDE DEF u
  <2>4. pc = "next_store" => CursorInv(u, "wrap")
    BY <2>1, <2>3 DEF CursorInv
  <2>5. pc = "next_store" => /\ CountInv(u, "wrap") /\ RegInv(0, "wrap")
                             /\ LoopInv(i, "wrap") /\ CharInv(char, "wrap")
    BY PlainInv DEF IInv, Plain
  <2> QED
    BY <1>5, <2>3, <2>4, <2>5, StoreInv DEF u
<1> QED
  BY <1>1, <1>2, <1>3, <1>4, <1>5 DEF PutCell

LEMMA WrapCursorStep ==
  ASSUME IInv, WrapCursor
  PROVE  IInv'
<1>0. 0 \in Nat /\ (pc \notin {"save_line", "shift"} => i = 0)
  BY DEF IInv, LoopInv
<1>1. CASE Branch("wrap", term.cursor_x >= VGA_WIDTH, "wrap_x", "bottom")
  <2> DEFINE to == IF term.cursor_x >= VGA_WIDTH THEN "wrap_x" ELSE "bottom"
  <2>1. pc = "wrap" => CursorInv(term, to)
    BY CursorType, ScreenSize DEF IInv, CursorInv
  <2>2. to \in Plain
    BY DEF Plain
  <2> HIDE DEF to
  <2>3. pc = "wrap" => /\ CountInv(term, to) /\ RegInv(0, to)
                       /\ LoopInv(i, to) /\ CharInv(char, to)
    BY <1>0, <2>2, PlainInv DEF IInv
  <2>4. Load("wrap", 0, to)
    BY <1>1 DEF Branch, to
  <2> QED
    BY <2>1, <2>3, <2>4, LoadInv
<1>2. CASE Store("wrap_x", [term EXCEPT !.cursor_x = 0], "wrap_load")
  <2> DEFINE u == [term EXCEPT !.cursor_x = 0]
  <2>1. TermInv(u) /\ u.cursor_x = 0 /\ u.cursor_y = term.cursor_y
    BY ColumnInv, ScreenSize DEF IInv, InColumn
  <2> HIDE DEF u
  <2>2. pc = "wrap_x" => CursorInv(u, "wrap_load")
    BY <2>1, ScreenSize DEF IInv, CursorInv, OnScreen
  <2>3. pc = "wrap_x" => /\ CountInv(u, "wrap_load") /\ RegInv(0, "wrap_load")
                         /\ LoopInv(i, "wrap_load") /\ CharInv(char, "wrap_load")
    BY PlainInv DEF IInv, Plain
  <2> QED
    BY <1>2, <2>1, <2>2, <2>3, StoreInv DEF u
<1>3. CASE Load("wrap_load", term.cursor_y, "wrap_store")
  <2>1. pc = "wrap_load" =>
          /\ CursorInv(term, "wrap_store") /\ CountInv(term, "wrap_store")
          /\ RegInv(term.cursor_y, "wrap_store")
          /\ LoopInv(i, "wrap_store") /\ CharInv(char, "wrap_store")
    BY CursorType DEF IInv, CursorInv, OnScreen, CountInv, RegInv, LoopInv, CharInv
  <2> QED
    BY <1>3, <2>1, LoadInv
<1>4. CASE Store("wrap_store", [term EXCEPT !.cursor_y = reg + 1], "bottom")
  <2> DEFINE u == [term EXCEPT !.cursor_y = reg + 1]
  <2>1. pc = "wrap_store" => reg \in Nat /\ reg < VGA_HEIGHT /\ term.cursor_x < VGA_WIDTH
    BY DEF IInv, RegInv, CursorInv, OnScreen
  <2>2. pc = "wrap_store" => reg + 1 \in Nat /\ reg + 1 <= VGA_HEIGHT /\ u = InRow(term, reg + 1)
    BY <2>1, ScreenSize DEF InRow
  <2>3. pc = "wrap_store" => TermInv(u) /\ u.cursor_x = term.cursor_x
    BY <2>2, RowInv DEF IInv
  <2> HIDE DEF u
  <2>4. pc = "wrap_store" => CursorInv(u, "bottom")
    BY <2>1, <2>3 DEF CursorInv
  <2>5. pc = "wrap_store" => /\ CountInv(u, "bottom") /\ RegInv(0, "bottom")
                             /\ LoopInv(i, "bottom") /\ CharInv(char, "bottom")
    BY PlainInv DEF IInv, Plain
  <2> QED
    BY <1>4, <2>3, <2>4, <2>5, StoreInv DEF u
<1>5. CASE Branch("bottom", term.cursor_y >= VGA_HEIGHT, "slot_head", "pos_y")
  <2> DEFINE to == IF term.cursor_y >= VGA_HEIGHT THEN "slot_head" ELSE "pos_y"
  <2>1. pc = "bottom" => CursorInv(term, to)
    BY CursorType, ScreenSize DEF IInv, CursorInv, OnScreen
  <2>2. to \in Plain
    BY DEF Plain
  <2> HIDE DEF to
  <2>3. pc = "bottom" => /\ CountInv(term, to) /\ RegInv(0, to)
                         /\ LoopInv(i, to) /\ CharInv(char, to)
    BY <1>0, <2>2, PlainInv DEF IInv
  <2>4. Load("bottom", 0, to)
    BY <1>5 DEF Branch, to
  <2> QED
    BY <2>1, <2>3, <2>4, LoadInv
<1> QED
  BY <1>1, <1>2, <1>3, <1>4, <1>5 DEF WrapCursor

\* One cell of the copy to the ring.
LEMMA CopyTopLineStep ==
  ASSUME IInv, CopyTopLine
  PROVE  IInv'
<1> DEFINE line == [term.scrollback_buffer[reg] EXCEPT ![i] = term.framebuffer[0][i]]
           buffer == [term.scrollback_buffer EXCEPT ![reg] = line]
           u == [term EXCEPT !.scrollback_buffer = buffer]
<1>1. /\ term \in Terminals /\ reg \in Slots /\ i \in Nat /\ i < VGA_WIDTH
      /\ term.cursor_x < VGA_WIDTH
  BY CursorType DEF IInv, CopyTopLine, Cells, Goto, RegInv, LoopInv, CursorInv
<1>2. term.scrollback_buffer[reg] \in Line /\ term.framebuffer[0] \in Line
  BY <1>1, SmallestCase DEF Terminals
<1>3. i \in Cols
  BY <1>1, ScreenSize DEF Cols
<1>4. line \in Line
  BY <1>2, <1>3 DEF Line
<1>5. buffer \in [Slots -> Line]
  BY <1>1, <1>4 DEF Terminals
<1>6. term' = u
  BY DEF CopyTopLine, Cells
<1> HIDE DEF buffer
<1>7. TermInv(u) /\ u.cursor_x = term.cursor_x
  BY <1>1, <1>5 DEF IInv, TermInv, Terminals
<1> HIDE DEF u
<1>8. CASE i = VGA_WIDTH - 1
  <2>1. pc' = "full" /\ i' = 0 /\ UNCHANGED <<reg, crtc_index, char, printing>>
    BY <1>8 DEF CopyTopLine, Cells, Goto
  <2>2. CursorInv(u, "full")
    BY <1>1, <1>7 DEF CursorInv
  <2>3. CountInv(u, "full") /\ RegInv(reg, "full") /\ LoopInv(0, "full") /\ CharInv(char, "full")
    BY DEF IInv, CountInv, RegInv, LoopInv, CharInv
  <2> QED
    BY <1>6, <1>7, <2>1, <2>2, <2>3 DEF IInv
<1>9. CASE i # VGA_WIDTH - 1
  <2>1. /\ pc = "save_line" /\ pc' = "save_line" /\ i' = i + 1
        /\ UNCHANGED <<reg, crtc_index, char, printing>>
    BY <1>9 DEF CopyTopLine, Cells, Goto
  <2>2. CursorInv(u, "save_line")
    BY <1>1, <1>7 DEF CursorInv
  <2>3. LoopInv(i + 1, "save_line")
    BY <1>1, <1>9, ScreenSize DEF LoopInv
  <2>4. CountInv(u, "save_line") /\ RegInv(reg, "save_line") /\ CharInv(char, "save_line")
    BY <2>1 DEF IInv, CountInv, RegInv, CharInv
  <2> QED
    BY <1>6, <1>7, <2>1, <2>2, <2>3, <2>4 DEF IInv
<1> QED
  BY <1>8, <1>9

\* The fields of the ring, stored one at a time.
LEMMA CountStoredInv ==
  ASSUME NEW t, TermInv(t), NEW n \in Nat, n <= SCROLLBACK_LINES + 1
  PROVE  LET u == [t EXCEPT !.scrollback_count = n]
         IN  TermInv(u) /\ u.cursor_x = t.cursor_x
BY DEF TermInv, Terminals

LEMMA HeadStoredInv ==
  ASSUME NEW t, TermInv(t), NEW n \in Slots
  PROVE  LET u == [t EXCEPT !.scrollback_head = n]
         IN  TermInv(u) /\ u.cursor_x = t.cursor_x
BY DEF TermInv, Terminals

LEMMA SaveLineStep ==
  ASSUME IInv, SaveLine
  PROVE  IInv'
<1>0. 0 \in Nat /\ (pc \notin {"save_line", "shift"} => i = 0)
  BY DEF IInv, LoopInv
<1>1. CASE Load("slot_head", term.scrollback_head, "slot_count")
  <2>1. pc = "slot_head" =>
          /\ CursorInv(term, "slot_count") /\ CountInv(term, "slot_count")
          /\ RegInv(term.scrollback_head, "slot_count")
          /\ LoopInv(i, "slot_count") /\ CharInv(char, "slot_count")
    BY CursorType DEF IInv, CursorInv, CountInv, RegInv, LoopInv, CharInv, Slots
  <2> QED
    BY <1>1, <2>1, LoadInv
<1>2. CASE Load("slot_count", (reg + term.scrollback_count) % SCROLLBACK_LINES, "save_line")
  <2> DEFINE slot == (reg + term.scrollback_count) % SCROLLBACK_LINES
  <2>1. reg + term.scrollback_count \in Nat
    BY CursorType DEF IInv, RegInv
  <2>2. slot \in Slots
    BY <2>1, SlotType
  <2> HIDE DEF slot
  <2>3. pc = "slot_count" =>
          /\ CursorInv(term, "save_line") /\ CountInv(term, "save_line")
          /\ RegInv(slot, "save_line")
          /\ LoopInv(i, "save_line") /\ CharInv(char, "save_line")
    BY <2>2, ScreenSize DEF IInv, CursorInv, CountInv, RegInv, LoopInv, CharInv, Slots
  <2> QED
    BY <1>2, <2>3, LoadInv DEF slot
<1>3. CASE Branch("full", term.scrollback_count < SCROLLBACK_LINES, "count_load", "head_load")
  <2>1. CASE term.scrollback_count < SCROLLBACK_LINES
    <3>1. Load("full", 0, "count_load")
      BY <1>3, <2>1 DEF Branch
    <3>2. pc = "full" =>
            /\ CursorInv(term, "count_load") /\ CountInv(term, "count_load")
            /\ RegInv(0, "count_load")
            /\ LoopInv(i, "count_load") /\ CharInv(char, "count_load")
      BY <2>1, CursorType, ScreenSize
         DEF IInv, CursorInv, CountInv, RegInv, LoopInv, CharInv
    <3> QED
      BY <3>1, <3>2, LoadInv
  <2>2. CASE ~ (term.scrollback_count < SCROLLBACK_LINES)
    <3>1. Load("full", 0, "head_load")
      BY <1>3, <2>2 DEF Branch
    <3>2. pc = "full" =>
            /\ CursorInv(term, "head_load") /\ CountInv(term, "head_load")
            /\ RegInv(0, "head_load")
            /\ LoopInv(i, "head_load") /\ CharInv(char, "head_load")
      BY DEF IInv, CursorInv, CountInv, RegInv, LoopInv, CharInv
    <3> QED
      BY <3>1, <3>2, LoadInv
  <2> QED
    BY <2>1, <2>2
<1>4. CASE Load("count_load", term.scrollback_count, "count_store")
  <2>1. pc = "count_load" =>
          /\ CursorInv(term, "count_store") /\ CountInv(term, "count_store")
          /\ RegInv(term.scrollback_count, "count_store")
          /\ LoopInv(i, "count_store") /\ CharInv(char, "count_store")
    BY CursorType DEF IInv, CursorInv, CountInv, RegInv, LoopInv, CharInv
  <2> QED
    BY <1>4, <2>1, LoadInv
<1>5. CASE Store("count_store", [term EXCEPT !.scrollback_count = reg + 1], "shift")
  <2> DEFINE u == [term EXCEPT !.scrollback_count = reg + 1]
  <2>1. pc = "count_store" => reg + 1 \in Nat /\ reg + 1 <= SCROLLBACK_LINES + 1
    BY ScreenSize DEF IInv, RegInv
  <2>2. pc = "count_store" => TermInv(u) /\ u.cursor_x = term.cursor_x
    BY <2>1, CountStoredInv DEF IInv
  <2> HIDE DEF u
  <2>3. pc = "count_store" => /\ CursorInv(u, "shift") /\ CountInv(u, "shift")
                              /\ RegInv(0, "shift")
                              /\ LoopInv(i, "shift") /\ CharInv(char, "shift")
    BY <1>0, <2>2, SmallestCase, ScreenSize
       DEF IInv, CursorInv, CountInv, RegInv, LoopInv, CharInv
  <2> QED
    BY <1>5, <2>2, <2>3, StoreInv DEF u
<1>6. CASE Load("head_load", term.scrollback_head, "head_store")
  <2>1. pc = "head_load" =>
          /\ CursorInv(term, "head_store") /\ CountInv(term, "head_store")
          /\ RegInv(term.scrollback_head, "head_store")
          /\ LoopInv(i, "head_store") /\ CharInv(char, "head_store")
    BY CursorType DEF IInv, CursorInv, CountInv, RegInv, LoopInv, CharInv, Slots
  <2> QED
    BY <1>6, <2>1, LoadInv
<1>7. CASE Store("head_store",
                 [term EXCEPT !.scrollback_head = (reg + 1) % SCROLLBACK_LINES], "shift")
  <2> DEFINE head == (reg + 1) % SCROLLBACK_LINES
             u == [term EXCEPT !.scrollback_head = head]
  <2>1. head \in Slots
    BY SlotType DEF IInv, RegInv
  <2> HIDE DEF head
  <2>2. TermInv(u) /\ u.cursor_x = term.cursor_x
    BY <2>1, HeadStoredInv DEF IInv
  <2>3. Store("head_store", u, "shift")
    BY <1>7 DEF head
  <2> HIDE DEF u
  <2>4. pc = "head_store" => /\ CursorInv(u, "shift") /\ CountInv(u, "shift")
                             /\ RegInv(0, "shift")
                             /\ LoopInv(i, "shift") /\ CharInv(char, "shift")
    BY <1>0, <2>2, SmallestCase, ScreenSize
       DEF IInv, CursorInv, CountInv, RegInv, LoopInv, CharInv
  <2> QED
    BY <2>2, <2>3, <2>4, StoreInv
<1> QED
  BY <1>1, <1>2, <1>3, <1>4, <1>5, <1>6, <1>7, CopyTopLineStep DEF SaveLine

\* One cell of the shift of the screen: the row below it exists.
LEMMA ShiftCellEffect ==
  ASSUME NEW t \in Terminals, i \in Nat, i < OffScreen
  PROVE  LET u == ShiftCell(t)
         IN  /\ u \in Terminals
             /\ SameHistory(t, u) /\ SameView(t, u)
             /\ u.cursor_x = t.cursor_x /\ u.cursor_y = t.cursor_y
             /\ u.hardware_cursor = t.hardware_cursor
<1>1. CASE i >= OffScreen - VGA_WIDTH
  <2>1. ShiftCell(t) = StoreCell(t, i, Blank)
    BY <1>1 DEF ShiftCell
  <2> QED
    BY <2>1, StoreCellEffect
<1>2. CASE ~ (i >= OffScreen - VGA_WIDTH)
  <2> DEFINE below == t.framebuffer[i \div VGA_WIDTH + 1][i % VGA_WIDTH]
  <2>1. i + VGA_WIDTH \in Nat /\ i + VGA_WIDTH < OffScreen
    BY <1>2, ScreenSize
  <2>2. (i + VGA_WIDTH) \div VGA_WIDTH = i \div VGA_WIDTH + 1
    BY ScreenSize
  <2>3. i \div VGA_WIDTH + 1 \in Rows /\ i % VGA_WIDTH \in Cols
    BY <2>1, <2>2, CellOfIndex
  <2>4. t.framebuffer \in [Rows -> Line]
    BY DEF Terminals
  <2>5. below \in Printable \union {Blank, Nul}
    BY <2>3, <2>4 DEF Line
  <2>6. ShiftCell(t) = StoreCell(t, i, below)
    BY <1>2 DEF ShiftCell
  <2> HIDE DEF below
  <2> QED
    BY <2>5, <2>6, StoreCellEffect
<1> QED
  BY <1>1, <1>2

LEMMA ScrollDisplayStep ==
  ASSUME IInv, ScrollDisplay
  PROVE  IInv'
<1>1. CASE Cells("shift", OffScreen - 1, ShiftCell(term), "last_row")
  <2> DEFINE u == ShiftCell(term)
  <2>1. /\ pc = "shift" /\ i \in Nat /\ i < OffScreen /\ term.cursor_x < VGA_WIDTH
        /\ term' = u /\ UNCHANGED <<reg, crtc_index, char, printing>>
    BY <1>1 DEF IInv, Cells, Goto, LoopInv, CursorInv
  <2>2. /\ u \in Terminals /\ SameHistory(term, u) /\ SameView(term, u)
        /\ u.cursor_x = term.cursor_x /\ u.cursor_y = term.cursor_y
        /\ u.hardware_cursor = term.hardware_cursor
    BY <2>1, CursorType, ShiftCellEffect
  <2> HIDE DEF u
  <2>3. TermInv(u)
    BY <2>2 DEF IInv, TermInv, SameHistory, SameView
  <2>4. CASE i = OffScreen - 1
    <3>1. pc' = "last_row" /\ i' = 0
      BY <1>1, <2>4 DEF Cells, Goto
    <3>2. /\ CursorInv(u, "last_row") /\ CountInv(u, "last_row") /\ RegInv(reg, "last_row")
          /\ LoopInv(0, "last_row") /\ CharInv(char, "last_row")
      BY <2>1, <2>2 DEF IInv, CursorInv, CountInv, RegInv, LoopInv, CharInv
    <3> QED
      BY <2>1, <2>3, <3>1, <3>2 DEF IInv
  <2>5. CASE i # OffScreen - 1
    <3>1. pc' = "shift" /\ i' = i + 1
      BY <1>1, <2>5 DEF Cells, Goto
    <3>2. LoopInv(i + 1, "shift")
      BY <2>1, <2>5, ScreenSize DEF LoopInv
    <3>3. /\ CursorInv(u, "shift") /\ CountInv(u, "shift") /\ RegInv(reg, "shift")
          /\ CharInv(char, "shift")
      BY <2>1, <2>2 DEF IInv, CursorInv, CountInv, RegInv, CharInv
    <3> QED
      BY <2>1, <2>3, <3>1, <3>2, <3>3 DEF IInv
  <2> QED
    BY <2>4, <2>5
<1>2. CASE Store("last_row", [term EXCEPT !.cursor_y = VGA_HEIGHT - 1], "pos_y")
  <2> DEFINE u == InRow(term, VGA_HEIGHT - 1)
  <2>1. VGA_HEIGHT - 1 \in Nat /\ VGA_HEIGHT - 1 < VGA_HEIGHT /\ VGA_HEIGHT - 1 <= VGA_HEIGHT
    BY ScreenSize
  <2>2. TermInv(u) /\ u.cursor_x = term.cursor_x /\ u.cursor_y = VGA_HEIGHT - 1
    BY <2>1, RowInv DEF IInv
  <2>3. Store("last_row", u, "pos_y")
    BY <1>2 DEF InRow
  <2> HIDE DEF u
  <2>4. pc = "last_row" => CursorInv(u, "pos_y")
    BY <2>1, <2>2 DEF IInv, CursorInv, OnScreen
  <2>5. pc = "last_row" => /\ CountInv(u, "pos_y") /\ RegInv(0, "pos_y")
                           /\ LoopInv(i, "pos_y") /\ CharInv(char, "pos_y")
    BY PlainInv DEF IInv, Plain
  <2> QED
    BY <2>2, <2>3, <2>4, <2>5, StoreInv
<1> QED
  BY <1>1, <1>2 DEF ScrollDisplay

\* A byte of the position, whichever register it goes to.
LEMMA WithByteInv ==
  ASSUME NEW t, TermInv(t), NEW byte \in Nat, byte < ByteMod
  PROVE  LET u == WithByte(t, byte)
         IN  TermInv(u) /\ u.cursor_x = t.cursor_x /\ u.cursor_y = t.cursor_y
<1> DEFINE h == t.hardware_cursor
           position == IF crtc_index = "high" THEN byte * ByteMod + (h % ByteMod)
                       ELSE (h \div ByteMod) * ByteMod + byte
<1>1. h \in Nat /\ h < ByteMod * ByteMod /\ ByteMod \in Nat
  BY TerminalIrqAssumption DEF TermInv, Terminals
<1>2. \A high, low \in 0 .. ByteMod - 1 :
        high * ByteMod + low \in Nat /\ high * ByteMod + low < ByteMod * ByteMod
  <2> SUFFICES ASSUME NEW high \in 0 .. ByteMod - 1, NEW low \in 0 .. ByteMod - 1
               PROVE  /\ high * ByteMod + low \in Nat
                      /\ high * ByteMod + low < ByteMod * ByteMod
    OBVIOUS
  <2>1. PICK d \in Nat : ByteMod = high + 1 + d
    <3>1. ByteMod - 1 - high \in Nat
      BY <1>1
    <3> QED
      BY <1>1, <3>1
  <2>2. ByteMod * ByteMod = high * ByteMod + ByteMod + d * ByteMod
    BY <1>1, <2>1
  <2>3. d * ByteMod \in Nat /\ high * ByteMod \in Nat
    BY <1>1
  <2> QED
    BY <1>1, <2>2, <2>3
<1>3. ByteMod > 0 /\ byte \in 0 .. ByteMod - 1
  BY <1>1
<1>4. h % ByteMod \in 0 .. ByteMod - 1 /\ h \div ByteMod \in Nat
  BY <1>1, <1>3
<1>5. h \div ByteMod \in 0 .. ByteMod - 1
  BY <1>1, <1>3
<1>6. position \in Nat /\ position < ByteMod * ByteMod
  BY <1>2, <1>3, <1>4, <1>5
<1>7. WithByte(t, byte) = [t EXCEPT !.hardware_cursor = position]
  BY DEF WithByte
<1> HIDE DEF position
<1> QED
  BY <1>6, <1>7 DEF TermInv, Terminals

LEMMA ByteOf ==
  ASSUME NEW n \in Nat
  PROVE  /\ n % ByteMod \in Nat /\ n % ByteMod < ByteMod
         /\ (n \div ByteMod) % ByteMod \in Nat /\ (n \div ByteMod) % ByteMod < ByteMod
<1>1. ByteMod \in Nat /\ ByteMod > 0
  <2>1. VGA_WIDTH * (VGA_HEIGHT + 1) \in Nat
    BY ScreenSize
  <2>2. ByteMod \in Nat /\ ByteMod * ByteMod > 0
    BY <2>1, TerminalIrqAssumption
  <2>3. ByteMod # 0
    BY <2>2
  <2> QED
    BY <2>2, <2>3
<1>2. n \div ByteMod \in Nat
  BY <1>1
<1> QED
  BY <1>1, <1>2

LEMMA UpdateCursorStep ==
  ASSUME IInv, UpdateCursor
  PROVE  IInv'
<1>1. CASE Load("pos_y", term.cursor_y, "pos_x")
  <2>1. pc = "pos_y" => CursorInv(term, "pos_x")
    BY DEF IInv, CursorInv
  <2>2. pc = "pos_y" => /\ CountInv(term, "pos_x") /\ RegInv(term.cursor_y, "pos_x")
                        /\ LoopInv(i, "pos_x") /\ CharInv(char, "pos_x")
    BY CursorType, PlainInv DEF IInv, Plain
  <2> QED
    BY <1>1, <2>1, <2>2, LoadInv
<1>2. CASE Load("pos_x", CellIndex(term.cursor_x, reg), "select_high")
  <2> DEFINE index == CellIndex(term.cursor_x, reg)
  <2>1. index \in Nat
    BY CursorType, IndexOfCell DEF IInv, RegInv
  <2> HIDE DEF index
  <2>2. pc = "pos_x" => CursorInv(term, "select_high")
    BY DEF IInv, CursorInv
  <2>3. pc = "pos_x" => /\ CountInv(term, "select_high") /\ RegInv(index, "select_high")
                        /\ LoopInv(i, "select_high") /\ CharInv(char, "select_high")
    BY <2>1, PlainInv DEF IInv, Plain
  <2> QED
    BY <1>2, <2>2, <2>3, LoadInv DEF index
<1>3. CASE SelectRegister("select_high", "high", "high")
  <2>1. CursorInv(term, "high")
    BY <1>3 DEF IInv, SelectRegister, Goto, CursorInv
  <2>2. CountInv(term, "high") /\ RegInv(reg, "high") /\ LoopInv(i, "high") /\ CharInv(char, "high")
    BY <1>3 DEF IInv, SelectRegister, Goto, CountInv, RegInv, LoopInv, CharInv
  <2> QED
    BY <1>3, <2>1, <2>2 DEF IInv, SelectRegister, Goto
<1>4. CASE WriteHigh
  <2> DEFINE u == WithByte(term, (reg \div ByteMod) % ByteMod)
  <2>1. TermInv(u) /\ u.cursor_x = term.cursor_x /\ u.cursor_y = term.cursor_y
    BY WithByteInv, ByteOf DEF IInv, RegInv
  <2>2. term' = u
    BY <1>4 DEF WriteHigh
  <2> HIDE DEF u
  <2>3. CursorInv(u, "select_low") /\ CountInv(u, "select_low")
    BY <1>4, <2>1 DEF IInv, WriteHigh, Goto, CursorInv, OnScreen, CountInv
  <2>4. RegInv(reg, "select_low") /\ LoopInv(i, "select_low") /\ CharInv(char, "select_low")
    BY <1>4 DEF IInv, WriteHigh, Goto, RegInv, LoopInv, CharInv
  <2> QED
    BY <1>4, <2>1, <2>2, <2>3, <2>4 DEF IInv, WriteHigh, Goto
<1>5. CASE SelectRegister("select_low", "low", "low")
  <2>1. CursorInv(term, "low")
    BY <1>5 DEF IInv, SelectRegister, Goto, CursorInv
  <2>2. CountInv(term, "low") /\ RegInv(reg, "low") /\ LoopInv(i, "low") /\ CharInv(char, "low")
    BY <1>5 DEF IInv, SelectRegister, Goto, CountInv, RegInv, LoopInv, CharInv
  <2> QED
    BY <1>5, <2>1, <2>2 DEF IInv, SelectRegister, Goto
<1>6. CASE WriteLow
  <2> DEFINE u == WithByte(term, reg % ByteMod)
  <2>1. TermInv(u) /\ u.cursor_x = term.cursor_x /\ u.cursor_y = term.cursor_y
    BY WithByteInv, ByteOf DEF IInv, RegInv
  <2>2. term' = u
    BY <1>6 DEF WriteLow
  <2> HIDE DEF u
  <2>3. CursorInv(u, "idle") /\ CountInv(u, "idle")
    BY <1>6, <2>1 DEF IInv, WriteLow, CursorInv, OnScreen, CountInv
  <2>4. RegInv(0, "idle") /\ LoopInv(i, "idle") /\ CharInv(Blank, "idle")
    BY <1>6 DEF IInv, WriteLow, RegInv, LoopInv, CharInv, Chars
  <2> QED
    BY <1>6, <2>1, <2>2, <2>3, <2>4 DEF IInv, WriteLow
<1> QED
  BY <1>1, <1>2, <1>3, <1>4, <1>5, <1>6 DEF UpdateCursor

-----------------------------------------------------------------------------
(* Interrupts.                                                             *)

LEMMA InterruptStep ==
  ASSUME IInv, Interrupt
  PROVE  IInv'
BY HandlerOutputsType DEF IInv, Interrupt

LEMMA HandlerPutsStep ==
  ASSUME IInv, HandlerPuts
  PROVE  IInv'
<1> DEFINE c == Head(printing)
           u == terminal_putchar(term, c)
<1>1. c \in Chars /\ Tail(printing) \in Seq(Chars)
  <2>1. printing \in Seq(Chars) /\ printing # << >>
    BY DEF IInv, HandlerPuts
  <2> QED
    BY <2>1
<1>2. /\ TermInv(u) /\ OnScreen(u)
      /\ term.scrollback_count <= SCROLLBACK_LINES => u.scrollback_count <= SCROLLBACK_LINES
  BY <1>1, PutcharInv DEF IInv
<1>3. term' = u
  BY DEF HandlerPuts
<1> HIDE DEF u
<1>4. CursorInv(u, pc) /\ CountInv(u, pc)
  BY <1>2, CursorAnywhere DEF IInv, CountInv
<1> QED
  BY <1>1, <1>2, <1>3, <1>4 DEF IInv, HandlerPuts

-----------------------------------------------------------------------------
(* The theorems.                                                           *)

LEMMA InitInv == Init => IInv
<1> SUFFICES ASSUME Init PROVE IInv
  OBVIOUS
<1> DEFINE ring == [s \in Slots |-> [x \in Cols |-> Nul]]
           t == [ framebuffer |-> BlankScreen, cursor_x |-> 0, cursor_y |-> 0,
                  scrollback_buffer |-> ring,
                  scrollback_head |-> 0, scrollback_count |-> 0, view_offset |-> 0,
                  cursor_visible |-> TRUE, in_scrollback_mode |-> FALSE,
                  hardware_cursor |-> 0 ]
           u == update_hardware_cursor(t)
<1>1. ring \in [Slots -> Line]
  BY DEF Line
<1>2. 0 \in Slots
  BY ScreenSize DEF Slots
<1> HIDE DEF ring
<1>3. t \in Terminals
  BY <1>1, <1>2, BlankScreenType DEF Terminals
<1>4. /\ t.cursor_x = 0 /\ t.cursor_y = 0 /\ t.view_offset = 0 /\ t.scrollback_count = 0
      /\ t.cursor_visible = TRUE /\ t.in_scrollback_mode = FALSE
  OBVIOUS
<1>5. terminal_init = u
  BY DEF terminal_init, ring
<1> HIDE DEF t
<1>6. /\ u \in Terminals /\ SameHistory(t, u) /\ SameView(t, u)
      /\ u.cursor_x = 0 /\ u.cursor_y = 0 /\ u.hardware_cursor = CursorPosition(u)
  BY <1>3, <1>4, UpdateCursorEffect
<1> HIDE DEF u
<1>7. OnScreen(u)
  BY <1>6, ScreenSize DEF OnScreen
<1>8. u.cursor_visible = TRUE /\ u.in_scrollback_mode = FALSE
      /\ u.view_offset = 0 /\ u.scrollback_count = 0
  BY <1>4, <1>6 DEF SameView, SameHistory
<1>9. u.hardware_cursor < ByteMod * ByteMod
  BY <1>6, <1>7, <1>8, PositionFits
<1>10. TermInv(u) /\ CursorInv(u, "idle") /\ CountInv(u, "idle")
  BY <1>6, <1>7, <1>8, <1>9, ScreenSize DEF TermInv, CursorInv, CountInv
<1>11. RegInv(0, "idle") /\ LoopInv(0, "idle") /\ CharInv(Blank, "idle") /\ << >> \in Seq(Chars)
  BY DEF RegInv, LoopInv, CharInv, Chars
<1> QED
  BY <1>5, <1>10, <1>11 DEF Init, IInv

LEMMA StepInv == IInv /\ [Next]_vars => IInv'
<1> SUFFICES ASSUME IInv, [Next]_vars PROVE IInv'
  OBVIOUS
<1>1. ASSUME NEW c \in KernelChars, Call(c) PROVE IInv'
  BY <1>1, CallStep
<1>2. CASE Step
  BY <1>2, PutNewlineStep, PutCellStep, WrapCursorStep, SaveLineStep, ScrollDisplayStep,
     UpdateCursorStep DEF Step
<1>3. CASE Interrupt
  BY <1>3, InterruptStep
<1>4. CASE HandlerPuts
  BY <1>4, HandlerPutsStep
<1>5. CASE UNCHANGED vars
  BY <1>5 DEF vars, IInv
<1> QED
  BY <1>1, <1>2, <1>3, <1>4, <1>5 DEF Next

\* In every reachable state the parts of terminal_putchar hold what they need.
THEOREM TerminalInvariant == Spec => []IInv
BY InitInv, StepInv, PTL DEF Spec

\* Every field of term keeps its range under every interleaving of kernel_main with
\* the handlers: TypeOK of TerminalIrq.
THEOREM IrqTypeCorrect == Spec => []TypeOK
<1>1. IInv => TypeOK
  <2> SUFFICES ASSUME IInv PROVE TypeOK
    OBVIOUS
  <2>1. /\ term \in Terminals
        /\ term.cursor_x <= VGA_WIDTH /\ term.cursor_y <= VGA_HEIGHT
        /\ term.view_offset = 0 /\ term.cursor_visible = TRUE
        /\ term.in_scrollback_mode = FALSE
        /\ term.hardware_cursor < ByteMod * ByteMod
    BY DEF IInv, TermInv
  <2>2. term.cursor_x \in Nat /\ term.cursor_y \in Nat /\ term.hardware_cursor \in Nat
    BY <2>1 DEF Terminals
  <2>3. term.cursor_x \in 0 .. VGA_WIDTH /\ term.cursor_y \in 0 .. VGA_HEIGHT
    BY <2>1, <2>2, ScreenSize
  <2>4. ByteMod * ByteMod \in Nat
    BY TerminalIrqAssumption
  <2>5. term.hardware_cursor \in 0 .. ByteMod * ByteMod - 1
    BY <2>1, <2>2, <2>4
  <2>6. i \in 0 .. OffScreen - 1
    BY SmallestCase, ScreenSize DEF IInv, LoopInv
  <2>7. crtc_index \in {"low", "high"} /\ char \in Chars /\ reg \in Nat /\ printing \in Seq(Chars)
    BY DEF IInv, CharInv, RegInv
  <2> QED
    BY <2>1, <2>3, <2>5, <2>6, <2>7 DEF TypeOK, Terminals
<1> QED
  BY <1>1, TerminalInvariant, PTL

\* A call of terminal_putchar begins with the cursor on the screen, however many
\* interrupts moved it under the calls before.
THEOREM CursorOnScreen == Spec => []CursorOnScreenBetweenCalls
<1>1. IInv => CursorOnScreenBetweenCalls
  BY DEF IInv, CursorInv, OnScreen, CursorOnScreenBetweenCalls
<1> QED
  BY <1>1, TerminalInvariant, PTL

\* No store of a character, of kernel_main or of a handler, goes beyond the row that
\* lies behind the screen.
THEOREM StoresInVideoMemory == Spec => []StoresStayInVideoMemory
<1>1. IInv => StoresStayInVideoMemory
  <2> SUFFICES ASSUME IInv PROVE StoresStayInVideoMemory
    OBVIOUS
  <2>1. pc = "cell_store" => reg < OffScreen
    BY DEF IInv, RegInv
  <2>2. \/ term.cursor_x <= VGA_WIDTH /\ term.cursor_y < VGA_HEIGHT
        \/ term.cursor_x < VGA_WIDTH /\ term.cursor_y <= VGA_HEIGHT
    BY DEF IInv, TermInv, CursorInv, OnScreen
  <2>3. CellIndex(term.cursor_x, term.cursor_y) < OffScreen + VGA_WIDTH
    <3>1. term.cursor_x \in Nat /\ term.cursor_y \in Nat
      BY CursorType
    <3>2. CellIndex(term.cursor_x, term.cursor_y) \in Nat
      BY <3>1, IndexOfCell
    <3>3. \/ CellIndex(term.cursor_x, term.cursor_y) <= OffScreen
          \/ CellIndex(term.cursor_x, term.cursor_y) < OffScreen + VGA_WIDTH
      BY <2>2, <3>1, IndexOfCell
    <3> QED
      BY <3>2, <3>3, ScreenSize
  <2> QED
    BY <2>1, <2>3 DEF StoresStayInVideoMemory
<1> QED
  BY <1>1, TerminalInvariant, PTL

\* The race of the count costs one line of scrollback_count and no more, and the copy
\* of a line goes to a slot of the ring.
THEOREM RingOverrun == Spec => []RingOverrunByOne
<1>1. IInv => RingOverrunByOne
  BY DEF IInv, TermInv, RegInv, RingOverrunByOne
<1> QED
  BY <1>1, TerminalInvariant, PTL

-----------------------------------------------------------------------------
(***************************************************************************)
(* A call of terminal_putchar that no interrupt breaks up implements, load *)
(* by load and store by store, the operation terminal_putchar.             *)
(*                                                                         *)
(* Rest says at each place what the steps still to come make of the        *)
(* terminal.  At the start it is terminal_putchar, every step but the last *)
(* one leaves it as it is, and the last one ends in it.  That needs Good:  *)
(* what kernel_main has loaded is still true, which is the part that an    *)
(* interrupt would break.                                                  *)
(***************************************************************************)

(* The rest of a call.                                                     *)

\* From the question whether to scroll to the return.
Scrolled(t) ==
  update_hardware_cursor([scroll_display(t) EXCEPT !.cursor_y = VGA_HEIGHT - 1])

Finished(t) ==
  IF t.cursor_y < VGA_HEIGHT THEN update_hardware_cursor(t) ELSE Scrolled(t)

\* From the question whether to wrap.
Wrapped(t) == Finished(WrapLine(t))

Typed(t, c) == [StoreCell(t, CellIndex(t.cursor_x, t.cursor_y), c) EXCEPT !.cursor_x = @ + 1]

\* A screen of which the first k cells have been shifted.
ShiftedScreen(screen, k) ==
  [y \in Rows |-> [x \in Cols |->
     IF CellIndex(x, y) < k THEN screen[y][x]
     ELSE IF y = VGA_HEIGHT - 1 THEN Blank ELSE screen[y + 1][x]]]

Shifted(t, k) == [t EXCEPT !.framebuffer = ShiftedScreen(t.framebuffer, k)]

Saving ==
  {"slot_head", "slot_count", "save_line", "full", "count_load", "count_store",
   "head_load", "head_store"}

Rest(t, r, k, c, at) ==
  CASE at = "newline"       -> Wrapped(NextRow(t))
    [] at = "newline_load"  -> Wrapped(InRow(t, t.cursor_y + 1))
    [] at = "newline_store" -> Wrapped(InRow(t, r + 1))
    [] at \in {"cell_y", "cell_x", "cell_store"}
                            -> Wrapped(Typed(t, c))
    [] at = "next_load"     -> Wrapped(InColumn(t, t.cursor_x + 1))
    [] at = "next_store"    -> Wrapped(InColumn(t, r + 1))
    [] at = "wrap"          -> Wrapped(t)
    [] at = "wrap_x"        -> Finished(NextRow(t))
    [] at = "wrap_load"     -> Finished(InRow(t, t.cursor_y + 1))
    [] at = "wrap_store"    -> Finished(InRow(t, r + 1))
    [] at = "bottom"        -> Finished(t)
    [] at \in Saving        -> Scrolled(t)
    [] at = "shift"         -> update_hardware_cursor(InRow(Shifted(t, k), VGA_HEIGHT - 1))
    [] at = "last_row"      -> update_hardware_cursor(InRow(t, VGA_HEIGHT - 1))
    [] OTHER                -> update_hardware_cursor(t)

\* The slot behind the newest line holds the top line of the screen.
Copied(t) == t.scrollback_buffer[NextSlot(t)] = t.framebuffer[0]

Good(t, r, k, at, index) ==
  /\ at \in {"cell_x", "pos_x"} => r = t.cursor_y
  /\ at \in {"cell_store", "select_high", "high", "select_low", "low"} =>
       r = CellIndex(t.cursor_x, t.cursor_y)
  /\ at = "slot_count" => r = t.scrollback_head
  /\ at = "save_line" =>
       /\ r = NextSlot(t)
       /\ \A x \in Cols : x < k => t.scrollback_buffer[r][x] = t.framebuffer[0][x]
  /\ at \in {"full", "count_load", "count_store", "head_load", "head_store"} => Copied(t)
  /\ at \in {"count_load", "count_store"} => t.scrollback_count < SCROLLBACK_LINES
  /\ at \in {"head_load", "head_store"} => t.scrollback_count >= SCROLLBACK_LINES
  /\ at = "count_store" => r = t.scrollback_count
  /\ at = "head_store" => r = t.scrollback_head
  /\ at \in {"select_low", "low"} =>
       t.hardware_cursor \div ByteMod = (r \div ByteMod) % ByteMod
  /\ at = "high" => index = "high"
  /\ at = "low" => index = "low"

\* While no interrupt has come since the call began.
AInv ==
  expected # << >> =>
    /\ printing = << >>
    /\ pc # "idle" => /\ expected = Rest(term, reg, i, char, pc)
                      /\ Good(term, reg, i, pc, crtc_index)

-----------------------------------------------------------------------------
(* Kinds of steps: what is left to show for each.                          *)

LEMMA LoadAtomic ==
  ASSUME AInv, NEW from, NEW value, NEW to, Load(from, value, to), from # "idle",
         pc = from /\ Good(term, reg, i, from, crtc_index) =>
           /\ Rest(term, value, i, char, to) = Rest(term, reg, i, char, from)
           /\ Good(term, value, i, to, crtc_index)
  PROVE  AInv'
BY DEF AInv, Load, Goto

LEMMA StoreAtomic ==
  ASSUME AInv, NEW from, NEW value, NEW to, Store(from, value, to), from # "idle",
         pc = from /\ Good(term, reg, i, from, crtc_index) =>
           /\ Rest(value, 0, i, char, to) = Rest(term, reg, i, char, from)
           /\ Good(value, 0, i, to, crtc_index)
  PROVE  AInv'
BY DEF AInv, Store, Goto

-----------------------------------------------------------------------------
(* The steps.                                                              *)

LEMMA PutcharIsWrapped ==
  ASSUME NEW t, t.in_scrollback_mode = FALSE, NEW c
  PROVE  terminal_putchar(t, c) = Wrapped(PutAtCursor(t, c))
<1>1. Written(t, c) = WrapLine(PutAtCursor(t, c))
  BY DEF Written
<1> DEFINE w == Written(t, c)
<1>2. terminal_putchar(t, c) = Finished(w)
  <2>1. CASE w.cursor_y < VGA_HEIGHT
    BY <2>1 DEF terminal_putchar, Finished
  <2>2. CASE ~ (w.cursor_y < VGA_HEIGHT)
    BY <2>2 DEF terminal_putchar, Finished, Scrolled
  <2> QED
    BY <2>1, <2>2
<1> QED
  BY <1>1, <1>2 DEF Wrapped

LEMMA CallAtomic ==
  ASSUME IInv, NEW c \in KernelChars, Call(c)
  PROVE  AInv'
<1>1. c = "newline" \/ c \in Printable \union {Blank}
  BY TerminalIrqAssumption
<1>2. \A d \in {"newline", "return", "tab", "backspace"} : d \notin Printable \union {Blank}
  BY TerminalAssumption
<1>3. expected' = Wrapped(PutAtCursor(term, c))
  BY PutcharIsWrapped DEF IInv, TermInv, Call
<1>4. CASE c = "newline"
  <2>1. PutAtCursor(term, c) = NextRow(term)
    BY <1>2, <1>4 DEF PutAtCursor, NextRow
  <2>2. pc' = "newline"
    BY <1>4 DEF Call
  <2>3. Rest(term, reg, i, c, "newline") = Wrapped(NextRow(term))
        /\ Good(term, reg, i, "newline", crtc_index)
    BY DEF Rest, Saving, Good
  <2> QED
    BY <1>3, <2>1, <2>2, <2>3 DEF AInv, Call
<1>5. CASE c \in Printable \union {Blank}
  <2>1. c \notin {"newline", "return", "tab", "backspace"}
    BY <1>2, <1>5
  <2>2. PutAtCursor(term, c) = Typed(term, c)
    BY <1>5, <2>1 DEF PutAtCursor, Typed
  <2>3. pc' = "cell_y"
    BY <2>1 DEF Call
  <2>4. Rest(term, reg, i, c, "cell_y") = Wrapped(Typed(term, c))
        /\ Good(term, reg, i, "cell_y", crtc_index)
    BY DEF Rest, Saving, Good
  <2> QED
    BY <1>3, <2>2, <2>3, <2>4 DEF AInv, Call
<1> QED
  BY <1>1, <1>4, <1>5

LEMMA PutNewlineAtomic ==
  ASSUME IInv, AInv, PutNewline
  PROVE  AInv'
<1>0. term \in Terminals
  BY CursorType
<1>1. CASE Store("newline", [term EXCEPT !.cursor_x = 0], "newline_load")
  <2> DEFINE u == [term EXCEPT !.cursor_x = 0]
  <2>1. u.cursor_y = term.cursor_y /\ InRow(u, term.cursor_y + 1) = NextRow(term)
    BY <1>0 DEF InRow, NextRow, Terminals
  <2> HIDE DEF u
  <2>2. /\ Rest(u, 0, i, char, "newline_load") = Rest(term, reg, i, char, "newline")
        /\ Good(u, 0, i, "newline_load", crtc_index)
    BY <2>1 DEF Rest, Saving, Good
  <2> QED
    BY <1>1, <2>2, StoreAtomic DEF u
<1>2. CASE Load("newline_load", term.cursor_y, "newline_store")
  <2>1. /\ Rest(term, term.cursor_y, i, char, "newline_store")
           = Rest(term, reg, i, char, "newline_load")
        /\ Good(term, term.cursor_y, i, "newline_store", crtc_index)
    BY DEF Rest, Saving, Good
  <2> QED
    BY <1>2, <2>1, LoadAtomic
<1>3. CASE Store("newline_store", [term EXCEPT !.cursor_y = reg + 1], "wrap")
  <2> DEFINE u == InRow(term, reg + 1)
  <2>1. /\ Rest(u, 0, i, char, "wrap") = Rest(term, reg, i, char, "newline_store")
        /\ Good(u, 0, i, "wrap", crtc_index)
    BY DEF Rest, Saving, Good
  <2>2. Store("newline_store", u, "wrap")
    BY <1>3 DEF InRow
  <2> HIDE DEF u
  <2> QED
    BY <2>1, <2>2, StoreAtomic
<1> QED
  BY <1>1, <1>2, <1>3 DEF PutNewline

LEMMA PutCellAtomic ==
  ASSUME IInv, AInv, PutCell
  PROVE  AInv'
<1>1. CASE Load("cell_y", term.cursor_y, "cell_x")
  <2>1. /\ Rest(term, term.cursor_y, i, char, "cell_x") = Rest(term, reg, i, char, "cell_y")
        /\ Good(term, term.cursor_y, i, "cell_x", crtc_index)
    BY DEF Rest, Saving, Good
  <2> QED
    BY <1>1, <2>1, LoadAtomic
<1>2. CASE Load("cell_x", CellIndex(term.cursor_x, reg), "cell_store")
  <2> DEFINE index == CellIndex(term.cursor_x, reg)
  <2>1. Good(term, reg, i, "cell_x", crtc_index) => Good(term, index, i, "cell_store", crtc_index)
    BY DEF Good
  <2> HIDE DEF index
  <2>2. Rest(term, index, i, char, "cell_store") = Rest(term, reg, i, char, "cell_x")
    BY DEF Rest, Saving
  <2> QED
    BY <1>2, <2>1, <2>2, LoadAtomic DEF index
<1>3. CASE Store("cell_store", StoreCell(term, reg, char), "next_load")
  <2> DEFINE u == StoreCell(term, reg, char)
  <2>1. Good(term, reg, i, "cell_store", crtc_index) => reg = CellIndex(term.cursor_x, term.cursor_y)
    BY DEF Good
  <2>2. Good(term, reg, i, "cell_store", crtc_index) => Typed(term, char) = InColumn(u, u.cursor_x + 1)
    BY <2>1 DEF Typed, InColumn
  <2> HIDE DEF u
  <2>3. Good(term, reg, i, "cell_store", crtc_index) =>
          Rest(u, 0, i, char, "next_load") = Rest(term, reg, i, char, "cell_store")
    BY <2>2 DEF Rest, Saving
  <2>4. Good(u, 0, i, "next_load", crtc_index)
    BY DEF Good
  <2> QED
    BY <1>3, <2>3, <2>4, StoreAtomic DEF u
<1>4. CASE Load("next_load", term.cursor_x, "next_store")
  <2>1. /\ Rest(term, term.cursor_x, i, char, "next_store")
           = Rest(term, reg, i, char, "next_load")
        /\ Good(term, term.cursor_x, i, "next_store", crtc_index)
    BY DEF Rest, Saving, Good
  <2> QED
    BY <1>4, <2>1, LoadAtomic
<1>5. CASE Store("next_store", [term EXCEPT !.cursor_x = reg + 1], "wrap")
  <2> DEFINE u == InColumn(term, reg + 1)
  <2>1. /\ Rest(u, 0, i, char, "wrap") = Rest(term, reg, i, char, "next_store")
        /\ Good(u, 0, i, "wrap", crtc_index)
    BY DEF Rest, Saving, Good
  <2>2. Store("next_store", u, "wrap")
    BY <1>5 DEF InColumn
  <2> HIDE DEF u
  <2> QED
    BY <2>1, <2>2, StoreAtomic
<1> QED
  BY <1>1, <1>2, <1>3, <1>4, <1>5 DEF PutCell

LEMMA WrapCursorAtomic ==
  ASSUME IInv, AInv, WrapCursor
  PROVE  AInv'
<1>0. term \in Terminals /\ term.cursor_x \in Nat /\ term.cursor_y \in Nat
  BY CursorType
<1>1. CASE Branch("wrap", term.cursor_x >= VGA_WIDTH, "wrap_x", "bottom")
  <2>1. CASE term.cursor_x >= VGA_WIDTH
    <3>1. WrapLine(term) = NextRow(term)
      BY <1>0, <2>1, ScreenSize DEF WrapLine, NextRow
    <3>2. /\ Rest(term, 0, i, char, "wrap_x") = Rest(term, reg, i, char, "wrap")
          /\ Good(term, 0, i, "wrap_x", crtc_index)
      BY <3>1 DEF Rest, Saving, Good, Wrapped
    <3>3. Load("wrap", 0, "wrap_x")
      BY <1>1, <2>1 DEF Branch
    <3> QED
      BY <3>2, <3>3, LoadAtomic
  <2>2. CASE ~ (term.cursor_x >= VGA_WIDTH)
    <3>1. WrapLine(term) = term
      BY <1>0, <2>2, ScreenSize DEF WrapLine
    <3>2. /\ Rest(term, 0, i, char, "bottom") = Rest(term, reg, i, char, "wrap")
          /\ Good(term, 0, i, "bottom", crtc_index)
      BY <3>1 DEF Rest, Saving, Good, Wrapped
    <3>3. Load("wrap", 0, "bottom")
      BY <1>1, <2>2 DEF Branch
    <3> QED
      BY <3>2, <3>3, LoadAtomic
  <2> QED
    BY <2>1, <2>2
<1>2. CASE Store("wrap_x", [term EXCEPT !.cursor_x = 0], "wrap_load")
  <2> DEFINE u == [term EXCEPT !.cursor_x = 0]
  <2>1. u.cursor_y = term.cursor_y /\ InRow(u, term.cursor_y + 1) = NextRow(term)
    BY <1>0 DEF InRow, NextRow, Terminals
  <2> HIDE DEF u
  <2>2. /\ Rest(u, 0, i, char, "wrap_load") = Rest(term, reg, i, char, "wrap_x")
        /\ Good(u, 0, i, "wrap_load", crtc_index)
    BY <2>1 DEF Rest, Saving, Good
  <2> QED
    BY <1>2, <2>2, StoreAtomic DEF u
<1>3. CASE Load("wrap_load", term.cursor_y, "wrap_store")
  <2>1. /\ Rest(term, term.cursor_y, i, char, "wrap_store")
           = Rest(term, reg, i, char, "wrap_load")
        /\ Good(term, term.cursor_y, i, "wrap_store", crtc_index)
    BY DEF Rest, Saving, Good
  <2> QED
    BY <1>3, <2>1, LoadAtomic
<1>4. CASE Store("wrap_store", [term EXCEPT !.cursor_y = reg + 1], "bottom")
  <2> DEFINE u == InRow(term, reg + 1)
  <2>1. /\ Rest(u, 0, i, char, "bottom") = Rest(term, reg, i, char, "wrap_store")
        /\ Good(u, 0, i, "bottom", crtc_index)
    BY DEF Rest, Saving, Good
  <2>2. Store("wrap_store", u, "bottom")
    BY <1>4 DEF InRow
  <2> HIDE DEF u
  <2> QED
    BY <2>1, <2>2, StoreAtomic
<1>5. CASE Branch("bottom", term.cursor_y >= VGA_HEIGHT, "slot_head", "pos_y")
  <2>1. CASE term.cursor_y >= VGA_HEIGHT
    <3>1. Finished(term) = Scrolled(term)
      BY <1>0, <2>1, ScreenSize DEF Finished
    <3>2. /\ Rest(term, 0, i, char, "slot_head") = Rest(term, reg, i, char, "bottom")
          /\ Good(term, 0, i, "slot_head", crtc_index)
      BY <3>1 DEF Rest, Saving, Good
    <3>3. Load("bottom", 0, "slot_head")
      BY <1>5, <2>1 DEF Branch
    <3> QED
      BY <3>2, <3>3, LoadAtomic
  <2>2. CASE ~ (term.cursor_y >= VGA_HEIGHT)
    <3>1. Finished(term) = update_hardware_cursor(term)
      BY <1>0, <2>2, ScreenSize DEF Finished
    <3>2. /\ Rest(term, 0, i, char, "pos_y") = Rest(term, reg, i, char, "bottom")
          /\ Good(term, 0, i, "pos_y", crtc_index)
      BY <3>1 DEF Rest, Saving, Good
    <3>3. Load("bottom", 0, "pos_y")
      BY <1>5, <2>2 DEF Branch
    <3> QED
      BY <3>2, <3>3, LoadAtomic
  <2> QED
    BY <2>1, <2>2
<1> QED
  BY <1>1, <1>2, <1>3, <1>4, <1>5 DEF WrapCursor

-----------------------------------------------------------------------------
(* The copy to the ring.                                                   *)

WithSlot(t, slot, line) == [t EXCEPT !.scrollback_buffer = [@ EXCEPT ![slot] = line]]

\* What was in the slot before does not matter: the line replaces it.
LEMMA ScrolledOverwrites ==
  ASSUME NEW t \in Terminals, NEW line \in Line
  PROVE  LET u == WithSlot(t, NextSlot(t), line)
         IN  /\ Scrolled(u) = Scrolled(t)
             /\ u \in Terminals
             /\ NextSlot(u) = NextSlot(t)
             /\ u.framebuffer = t.framebuffer
             /\ u.scrollback_buffer = [t.scrollback_buffer EXCEPT ![NextSlot(t)] = line]
<1> DEFINE slot == NextSlot(t)
           buffer == [t.scrollback_buffer EXCEPT ![slot] = line]
           u == [t EXCEPT !.scrollback_buffer = buffer]
<1>1. slot \in Slots
  <2>1. t.scrollback_head \in Slots /\ t.scrollback_count \in Nat
    BY DEF Terminals
  <2>2. t.scrollback_head + t.scrollback_count \in Nat
    BY <2>1 DEF Slots
  <2> QED
    BY <2>2, SlotType DEF NextSlot
<1>2. t.scrollback_buffer \in [Slots -> Line] /\ buffer \in [Slots -> Line]
  BY <1>1 DEF Terminals
<1>3. u = WithSlot(t, NextSlot(t), line)
  BY DEF WithSlot
<1>4. \A l : [buffer EXCEPT ![slot] = l] = [t.scrollback_buffer EXCEPT ![slot] = l]
  BY <1>1, <1>2
<1> HIDE DEF buffer
<1>5. /\ u \in Terminals
      /\ u.framebuffer = t.framebuffer /\ u.scrollback_buffer = buffer
      /\ u.scrollback_head = t.scrollback_head /\ u.scrollback_count = t.scrollback_count
  BY <1>2 DEF Terminals
<1>6. NextSlot(u) = slot
  BY <1>5 DEF NextSlot
<1> DEFINE l == t.framebuffer[0]
           saved == [t.scrollback_buffer EXCEPT ![slot] = l]
           full == t.scrollback_count >= SCROLLBACK_LINES
           count == IF full THEN t.scrollback_count ELSE t.scrollback_count + 1
           head == IF full THEN (t.scrollback_head + 1) % SCROLLBACK_LINES
                   ELSE t.scrollback_head
           s(v) == [v EXCEPT !.scrollback_buffer = saved, !.scrollback_count = count,
                             !.scrollback_head = head]
<1>7. save_line_to_scrollback(t, 0) = s(t)
  BY DEF save_line_to_scrollback, NextSlot
<1>8. save_line_to_scrollback(u, 0) = s(u)
  <2>1. [u.scrollback_buffer EXCEPT ![slot] = u.framebuffer[0]] = saved
    BY <1>4, <1>5
  <2> HIDE DEF u, saved
  <2> QED
    BY <1>5, <1>6, <2>1 DEF save_line_to_scrollback, NextSlot
<1> HIDE DEF saved, count, head
<1>9. s(u) = s(t)
  BY DEF Terminals
<1>10. scroll_display(u) = scroll_display(t)
  BY <1>5, <1>7, <1>8, <1>9 DEF scroll_display
<1> QED
  BY <1>3, <1>5, <1>6, <1>10 DEF Scrolled, buffer

\* With the copy made and the fields stored, what is left is the shift.
Advanced(t) ==
  IF t.scrollback_count >= SCROLLBACK_LINES
  THEN [t EXCEPT !.scrollback_head = (@ + 1) % SCROLLBACK_LINES]
  ELSE [t EXCEPT !.scrollback_count = @ + 1]

LEMMA ScrolledIsShift ==
  ASSUME NEW t \in Terminals, Copied(t)
  PROVE  Scrolled(t) = update_hardware_cursor(InRow(Shifted(Advanced(t), 0), VGA_HEIGHT - 1))
<1> DEFINE slot == NextSlot(t)
           saved == [t.scrollback_buffer EXCEPT ![slot] = t.framebuffer[0]]
           u == Advanced(t)
           s == save_line_to_scrollback(t, 0)
           screen == [y \in Rows |-> IF y = VGA_HEIGHT - 1 THEN BlankLine
                                     ELSE t.framebuffer[y + 1]]
<1>1. slot \in Slots /\ t.scrollback_buffer \in [Slots -> Line]
  <2>1. t.scrollback_head \in Slots /\ t.scrollback_count \in Nat
    BY DEF Terminals
  <2>2. t.scrollback_head + t.scrollback_count \in Nat
    BY <2>1 DEF Slots
  <2> QED
    BY <2>2, SlotType DEF NextSlot, Terminals
<1>2. saved = t.scrollback_buffer
  BY <1>1 DEF Copied
<1>3. s = u
  <2>1. CASE t.scrollback_count >= SCROLLBACK_LINES
    <3>1. s = [t EXCEPT !.scrollback_buffer = saved,
                        !.scrollback_count = t.scrollback_count,
                        !.scrollback_head = (t.scrollback_head + 1) % SCROLLBACK_LINES]
      BY <2>1 DEF save_line_to_scrollback, NextSlot
    <3> HIDE DEF saved, s
    <3> QED
      BY <1>2, <2>1, <3>1 DEF Advanced, Terminals
  <2>2. CASE ~ (t.scrollback_count >= SCROLLBACK_LINES)
    <3>1. s = [t EXCEPT !.scrollback_buffer = saved,
                        !.scrollback_count = t.scrollback_count + 1,
                        !.scrollback_head = t.scrollback_head]
      BY <2>2 DEF save_line_to_scrollback, NextSlot
    <3> HIDE DEF saved, s
    <3> QED
      BY <1>2, <2>2, <3>1 DEF Advanced, Terminals
  <2> QED
    BY <2>1, <2>2
<1>4. ShiftedScreen(t.framebuffer, 0) = screen
  <2>1. t.framebuffer \in [Rows -> Line]
    BY DEF Terminals
  <2>2. ASSUME NEW y \in Rows
        PROVE  [x \in Cols |-> IF CellIndex(x, y) < 0 THEN t.framebuffer[y][x]
                               ELSE IF y = VGA_HEIGHT - 1 THEN Blank
                               ELSE t.framebuffer[y + 1][x]] = screen[y]
    <3>1. \A x \in Cols : ~ (CellIndex(x, y) < 0)
      <4> SUFFICES ASSUME NEW x \in Cols PROVE ~ (CellIndex(x, y) < 0)
        OBVIOUS
      <4>1. x \in Nat /\ y \in Nat
        BY ScreenSize DEF Cols, Rows
      <4>2. CellIndex(x, y) \in Nat
        BY <4>1, IndexOfCell
      <4> QED
        BY <4>2
    <3>2. CASE y = VGA_HEIGHT - 1
      BY <3>1, <3>2 DEF BlankLine
    <3>3. CASE y # VGA_HEIGHT - 1
      <4>1. y + 1 \in Rows
        BY <3>3, ScreenSize DEF Rows
      <4>2. t.framebuffer[y + 1] \in [Cols -> Printable \union {Blank, Nul}]
        BY <2>1, <4>1 DEF Line
      <4>3. [x \in Cols |-> t.framebuffer[y + 1][x]] = t.framebuffer[y + 1]
        BY <4>2
      <4> QED
        BY <3>1, <3>3, <4>3
    <3> QED
      BY <3>2, <3>3
  <2> QED
    BY <2>2 DEF ShiftedScreen
<1>5. u.framebuffer = t.framebuffer
  BY DEF Advanced, Terminals
<1>6. scroll_display(t) = Shifted(u, 0)
  <2>1. scroll_display(t) = [s EXCEPT !.framebuffer = screen]
    BY DEF scroll_display
  <2> HIDE DEF s, u, screen
  <2> QED
    BY <1>3, <1>4, <1>5, <2>1 DEF Shifted
<1> QED
  BY <1>6 DEF Scrolled, InRow

LEMMA CopyTopLineAtomic ==
  ASSUME IInv, AInv, CopyTopLine
  PROVE  AInv'
<1> SUFFICES ASSUME expected' # << >>
             PROVE  /\ expected' = Rest(term, reg, i, char, pc)'
                    /\ Good(term, reg, i, pc, crtc_index)'
                    /\ printing' = << >>
  BY DEF AInv
<1> DEFINE slot == NextSlot(term)
           row == term.framebuffer[0]
           line == [term.scrollback_buffer[slot] EXCEPT ![i] = row[i]]
           u == WithSlot(term, slot, line)
<1>1. /\ term \in Terminals /\ reg \in Slots /\ i \in Nat /\ i < VGA_WIDTH
      /\ pc = "save_line"
  BY CursorType DEF IInv, CopyTopLine, Cells, Goto, RegInv, LoopInv
<1>2. /\ expected' = expected /\ printing' = << >> /\ reg' = reg
      /\ expected = Rest(term, reg, i, char, "save_line")
      /\ Good(term, reg, i, "save_line", crtc_index)
  BY <1>1 DEF AInv, CopyTopLine, Cells, Goto
<1>3. reg = slot /\ \A x \in Cols : x < i => term.scrollback_buffer[slot][x] = row[x]
  BY <1>2 DEF Good
<1>4. /\ term.scrollback_buffer[slot] \in Line /\ row \in Line
      /\ term.scrollback_buffer \in [Slots -> Line]
  BY <1>1, <1>3, SmallestCase DEF Terminals
<1>5. i \in Cols
  BY <1>1, ScreenSize DEF Cols
<1>6. line \in Line
  BY <1>4, <1>5 DEF Line
<1>7. term' = u
  BY <1>3 DEF CopyTopLine, Cells, WithSlot
<1>8. \A x \in Cols : x < i + 1 => line[x] = row[x]
  <2> SUFFICES ASSUME NEW x \in Cols, x < i + 1 PROVE line[x] = row[x]
    OBVIOUS
  <2>1. x \in Nat
    BY ScreenSize DEF Cols
  <2>2. x = i \/ x < i
    BY <1>1, <2>1
  <2>3. DOMAIN term.scrollback_buffer[slot] = Cols
    BY <1>4 DEF Line
  <2> QED
    BY <1>3, <1>5, <2>2, <2>3
<1> HIDE DEF line
<1>9. /\ Scrolled(u) = Scrolled(term) /\ u \in Terminals /\ NextSlot(u) = slot
      /\ u.framebuffer = term.framebuffer
      /\ u.scrollback_buffer = [term.scrollback_buffer EXCEPT ![slot] = line]
  BY <1>1, <1>6, ScrolledOverwrites
<1> HIDE DEF u
<1>10. u.scrollback_buffer[slot] = line
  BY <1>1, <1>3, <1>4, <1>9
<1>11. expected = Scrolled(u)
  BY <1>2, <1>9 DEF Rest, Saving
<1>12. CASE i = VGA_WIDTH - 1
  <2>1. pc' = "full" /\ i' = 0
    BY <1>12 DEF CopyTopLine, Cells, Goto
  <2>2. line = row
    <3>1. \A x \in Cols : line[x] = row[x]
      <4> SUFFICES ASSUME NEW x \in Cols PROVE line[x] = row[x]
        OBVIOUS
      <4>1. x < i + 1
        BY <1>1, <1>12, ScreenSize DEF Cols
      <4> QED
        BY <1>8, <4>1
    <3> HIDE DEF row
    <3> QED
      BY <1>4, <1>6, <3>1 DEF Line
  <2>3. Copied(u)
    BY <1>9, <1>10, <2>2 DEF Copied
  <2> QED
    BY <1>2, <1>7, <1>11, <2>1, <2>3 DEF Rest, Saving, Good
<1>13. CASE i # VGA_WIDTH - 1
  <2>1. pc' = "save_line" /\ i' = i + 1
    BY <1>13 DEF CopyTopLine, Cells, Goto
  <2>2. \A x \in Cols : x < i + 1 => u.scrollback_buffer[slot][x] = u.framebuffer[0][x]
    BY <1>8, <1>9, <1>10
  <2> QED
    BY <1>2, <1>3, <1>7, <1>9, <1>11, <2>1, <2>2 DEF Rest, Saving, Good
<1> QED
  BY <1>2, <1>12, <1>13

LEMMA SaveLineAtomic ==
  ASSUME IInv, AInv, SaveLine
  PROVE  AInv'
<1>0. /\ term \in Terminals
      /\ term.scrollback_count \in Nat /\ term.scrollback_head \in Slots
      /\ pc \notin {"save_line", "shift"} => i = 0
  BY CursorType DEF IInv, LoopInv
<1>1. CASE Load("slot_head", term.scrollback_head, "slot_count")
  <2>1. /\ Rest(term, term.scrollback_head, i, char, "slot_count")
           = Rest(term, reg, i, char, "slot_head")
        /\ Good(term, term.scrollback_head, i, "slot_count", crtc_index)
    BY DEF Rest, Saving, Good
  <2> QED
    BY <1>1, <2>1, LoadAtomic
<1>2. CASE Load("slot_count", (reg + term.scrollback_count) % SCROLLBACK_LINES, "save_line")
  <2> DEFINE slot == (reg + term.scrollback_count) % SCROLLBACK_LINES
  <2>1. Good(term, reg, i, "slot_count", crtc_index) => slot = NextSlot(term)
    BY DEF Good, NextSlot
  <2>2. pc = "slot_count" => \A x \in Cols : ~ (x < i)
    BY <1>0, ScreenSize DEF Cols
  <2> HIDE DEF slot
  <2>3. pc = "slot_count" /\ Good(term, reg, i, "slot_count", crtc_index) =>
          /\ Rest(term, slot, i, char, "save_line") = Rest(term, reg, i, char, "slot_count")
          /\ Good(term, slot, i, "save_line", crtc_index)
    BY <2>1, <2>2 DEF Rest, Saving, Good
  <2> QED
    BY <1>2, <2>3, LoadAtomic DEF slot
<1>3. CASE Branch("full", term.scrollback_count < SCROLLBACK_LINES, "count_load", "head_load")
  <2>1. CASE term.scrollback_count < SCROLLBACK_LINES
    <3>1. Load("full", 0, "count_load")
      BY <1>3, <2>1 DEF Branch
    <3>2. Good(term, reg, i, "full", crtc_index) =>
            /\ Rest(term, 0, i, char, "count_load") = Rest(term, reg, i, char, "full")
            /\ Good(term, 0, i, "count_load", crtc_index)
      BY <2>1 DEF Rest, Saving, Good
    <3> QED
      BY <3>1, <3>2, LoadAtomic
  <2>2. CASE ~ (term.scrollback_count < SCROLLBACK_LINES)
    <3>1. Load("full", 0, "head_load")
      BY <1>3, <2>2 DEF Branch
    <3>2. term.scrollback_count >= SCROLLBACK_LINES
      BY <1>0, <2>2, ScreenSize
    <3>3. Good(term, reg, i, "full", crtc_index) =>
            /\ Rest(term, 0, i, char, "head_load") = Rest(term, reg, i, char, "full")
            /\ Good(term, 0, i, "head_load", crtc_index)
      BY <3>2 DEF Rest, Saving, Good
    <3> QED
      BY <3>1, <3>3, LoadAtomic
  <2> QED
    BY <2>1, <2>2
<1>4. CASE Load("count_load", term.scrollback_count, "count_store")
  <2>1. Good(term, reg, i, "count_load", crtc_index) =>
          /\ Rest(term, term.scrollback_count, i, char, "count_store")
             = Rest(term, reg, i, char, "count_load")
          /\ Good(term, term.scrollback_count, i, "count_store", crtc_index)
    BY DEF Rest, Saving, Good
  <2> QED
    BY <1>4, <2>1, LoadAtomic
<1>5. CASE Store("count_store", [term EXCEPT !.scrollback_count = reg + 1], "shift")
  <2> DEFINE u == [term EXCEPT !.scrollback_count = reg + 1]
  <2>1. Good(term, reg, i, "count_store", crtc_index) =>
          Copied(term) /\ reg = term.scrollback_count /\ term.scrollback_count < SCROLLBACK_LINES
    BY DEF Good
  <2>2. Good(term, reg, i, "count_store", crtc_index) => u = Advanced(term)
    BY <1>0, <2>1, ScreenSize DEF Advanced
  <2> HIDE DEF u
  <2>3. pc = "count_store" /\ Good(term, reg, i, "count_store", crtc_index) =>
          Rest(u, 0, i, char, "shift") = Rest(term, reg, i, char, "count_store")
    BY <1>0, <2>1, <2>2, ScrolledIsShift DEF Rest, Saving
  <2>4. Good(u, 0, i, "shift", crtc_index)
    BY DEF Good
  <2> QED
    BY <1>5, <2>3, <2>4, StoreAtomic DEF u
<1>6. CASE Load("head_load", term.scrollback_head, "head_store")
  <2>1. Good(term, reg, i, "head_load", crtc_index) =>
          /\ Rest(term, term.scrollback_head, i, char, "head_store")
             = Rest(term, reg, i, char, "head_load")
          /\ Good(term, term.scrollback_head, i, "head_store", crtc_index)
    BY DEF Rest, Saving, Good
  <2> QED
    BY <1>6, <2>1, LoadAtomic
<1>7. CASE Store("head_store",
                 [term EXCEPT !.scrollback_head = (reg + 1) % SCROLLBACK_LINES], "shift")
  <2> DEFINE u == [term EXCEPT !.scrollback_head = (reg + 1) % SCROLLBACK_LINES]
  <2>1. Good(term, reg, i, "head_store", crtc_index) =>
          Copied(term) /\ reg = term.scrollback_head /\ term.scrollback_count >= SCROLLBACK_LINES
    BY DEF Good
  <2>2. Good(term, reg, i, "head_store", crtc_index) => u = Advanced(term)
    BY <2>1 DEF Advanced
  <2> HIDE DEF u
  <2>3. pc = "head_store" /\ Good(term, reg, i, "head_store", crtc_index) =>
          Rest(u, 0, i, char, "shift") = Rest(term, reg, i, char, "head_store")
    BY <1>0, <2>1, <2>2, ScrolledIsShift DEF Rest, Saving
  <2>4. Good(u, 0, i, "shift", crtc_index)
    BY DEF Good
  <2> QED
    BY <1>7, <2>3, <2>4, StoreAtomic DEF u
<1> QED
  BY <1>1, <1>2, <1>3, <1>4, <1>5, <1>6, <1>7, CopyTopLineAtomic DEF SaveLine

-----------------------------------------------------------------------------
(* The shift.                                                              *)

\* A cell has one place in the framebuffer.
LEMMA CellPlace ==
  ASSUME NEW x \in Cols, NEW y \in Nat, NEW k \in Nat
  PROVE  /\ CellIndex(x, y) = k => y = k \div VGA_WIDTH /\ x = k % VGA_WIDTH
         /\ y = k \div VGA_WIDTH /\ x = k % VGA_WIDTH => CellIndex(x, y) = k
         /\ CellIndex(x, y + 1) = CellIndex(x, y) + VGA_WIDTH
<1>1. VGA_WIDTH \in Nat /\ VGA_WIDTH > 0 /\ x \in Nat /\ x < VGA_WIDTH
  BY ScreenSize DEF Cols
<1>2. y * VGA_WIDTH \in Nat
  BY <1>1
<1>3. CellIndex(x, y) = k => y = k \div VGA_WIDTH /\ x = k % VGA_WIDTH
  BY <1>1, DivisionIs DEF CellIndex
<1>4. k = (k \div VGA_WIDTH) * VGA_WIDTH + (k % VGA_WIDTH)
  BY <1>1
<1>5. y = k \div VGA_WIDTH /\ x = k % VGA_WIDTH => CellIndex(x, y) = k
  BY <1>4 DEF CellIndex
<1>6. (y + 1) * VGA_WIDTH = y * VGA_WIDTH + VGA_WIDTH
  BY <1>1
<1>7. CellIndex(x, y + 1) = CellIndex(x, y) + VGA_WIDTH
  BY <1>1, <1>2, <1>6 DEF CellIndex
<1> QED
  BY <1>3, <1>5, <1>7

\* Shifting the next cell is one step of ShiftedScreen.
LEMMA ShiftCellAdvances ==
  ASSUME NEW t \in Terminals, i \in Nat, i < OffScreen
  PROVE  LET u == ShiftCell(t)
         IN  /\ Shifted(u, i + 1) = Shifted(t, i)
             /\ i = OffScreen - 1 => Shifted(u, i + 1) = u
<1> DEFINE row == i \div VGA_WIDTH
           col == i % VGA_WIDTH
           f == t.framebuffer
           v == IF i >= OffScreen - VGA_WIDTH THEN Blank ELSE f[row + 1][col]
           g == [f EXCEPT ![row] = [f[row] EXCEPT ![col] = v]]
           u == [t EXCEPT !.framebuffer = g]
<1>1. row \in Rows /\ col \in Cols /\ row \in Nat /\ col \in Nat
  BY CellOfIndex, ScreenSize DEF Rows, Cols
<1>2. f \in [Rows -> Line]
  BY DEF Terminals
<1>3. ShiftCell(t) = u
  BY ScreenSize DEF ShiftCell, StoreCell
<1>4. i >= OffScreen - VGA_WIDTH <=> row = VGA_HEIGHT - 1
  <2>1. CellIndex(col, row) = i
    BY <1>1, CellPlace
  <2>2. OffScreen - VGA_WIDTH = (VGA_HEIGHT - 1) * VGA_WIDTH
        /\ VGA_HEIGHT - 1 \in Nat /\ VGA_WIDTH \in Nat /\ VGA_HEIGHT \in Nat
    BY ScreenSize DEF OffScreen
  <2>3. col < VGA_WIDTH /\ row < VGA_HEIGHT
    BY <1>1, ScreenSize DEF Rows, Cols
  <2>4. row < VGA_HEIGHT - 1 => row * VGA_WIDTH + col < (VGA_HEIGHT - 1) * VGA_WIDTH + 0
    BY <1>1, <2>2, <2>3, EarlierRow
  <2>5. row = VGA_HEIGHT - 1 => row * VGA_WIDTH + col >= (VGA_HEIGHT - 1) * VGA_WIDTH
    BY <1>1, <2>2
  <2>6. i = row * VGA_WIDTH + col
    BY <2>1 DEF CellIndex
  <2>7. (VGA_HEIGHT - 1) * VGA_WIDTH \in Nat
    BY <2>2
  <2> QED
    BY <1>1, <2>2, <2>3, <2>4, <2>5, <2>6, <2>7
<1>5. v \in Printable \union {Blank, Nul}
  <2>1. row # VGA_HEIGHT - 1 => row + 1 \in Rows
    BY <1>1, ScreenSize DEF Rows
  <2> QED
    BY <1>1, <1>2, <1>4, <2>1 DEF Line
<1>6. v = IF row = VGA_HEIGHT - 1 THEN Blank ELSE f[row + 1][col]
  BY <1>4
<1> HIDE DEF v
<1>7. g \in [Rows -> Line]
  BY <1>1, <1>2, <1>5 DEF Line
<1>8. ASSUME NEW y \in Rows, NEW x \in Cols
      PROVE  g[y][x] = IF y = row /\ x = col THEN v ELSE f[y][x]
  BY <1>1, <1>2 DEF Line
<1>9. u.framebuffer = g
  BY DEF Terminals
<1> HIDE DEF g, f
<1>10. ASSUME NEW y \in Rows, NEW x \in Cols
       PROVE  (IF CellIndex(x, y) < i + 1 THEN g[y][x]
               ELSE IF y = VGA_HEIGHT - 1 THEN Blank ELSE g[y + 1][x])
              = (IF CellIndex(x, y) < i THEN f[y][x]
                 ELSE IF y = VGA_HEIGHT - 1 THEN Blank ELSE f[y + 1][x])
  <2>1. x \in Nat /\ y \in Nat /\ VGA_WIDTH \in Nat /\ VGA_WIDTH > 0
    BY ScreenSize DEF Rows, Cols
  <2> DEFINE index == CellIndex(x, y)
  <2>2. /\ index \in Nat
        /\ index = i <=> y = row /\ x = col
        /\ CellIndex(x, y + 1) = index + VGA_WIDTH
        /\ y + 1 = row /\ x = col => CellIndex(x, y + 1) = i
    <3>1. index \in Nat
      BY <2>1, IndexOfCell
    <3>2. /\ index = i => y = row /\ x = col
          /\ y = row /\ x = col => index = i
          /\ CellIndex(x, y + 1) = index + VGA_WIDTH
      BY <2>1, CellPlace
    <3>3. y + 1 = row /\ x = col => CellIndex(x, y + 1) = i
      <4>1. y + 1 \in Nat
        BY <2>1
      <4> QED
        BY <4>1, CellPlace
    <3> QED
      BY <3>1, <3>2, <3>3
  <2> HIDE DEF index, row, col
  <2>3. CASE index = i
    BY <1>6, <1>8, <2>2, <2>3 DEF index
  <2>4. CASE index < i
    <3>1. g[y][x] = f[y][x] /\ index < i + 1
      BY <1>8, <2>2, <2>4
    <3> QED
      BY <2>4, <3>1 DEF index
  <2>5. CASE index > i
    <3>1. ~ (index < i + 1) /\ ~ (index < i)
      BY <2>2, <2>5
    <3>2. y # VGA_HEIGHT - 1 => y + 1 \in Rows
      BY ScreenSize DEF Rows
    <3>3. ~ (y + 1 = row /\ x = col)
      BY <2>1, <2>2, <2>5
    <3>4. y # VGA_HEIGHT - 1 => g[y + 1][x] = f[y + 1][x]
      BY <1>8, <3>2, <3>3
    <3> QED
      BY <3>1, <3>4 DEF index
  <2> QED
    BY <2>2, <2>3, <2>4, <2>5
<1>11. ShiftedScreen(g, i + 1) = ShiftedScreen(f, i)
  BY <1>10 DEF ShiftedScreen
<1>12. Shifted(u, i + 1) = Shifted(t, i)
  BY <1>9, <1>11 DEF Shifted, f
<1>13. i = OffScreen - 1 => Shifted(u, i + 1) = u
  <2> SUFFICES ASSUME i = OffScreen - 1 PROVE Shifted(u, i + 1) = u
    OBVIOUS
  <2>1. \A y \in Rows, x \in Cols : CellIndex(x, y) < i + 1
    BY IndexOfCell, ScreenSize DEF Rows, Cols
  <2>2. \A y \in Rows : g[y] \in Line
    BY <1>7
  <2>3. \A y \in Rows : [x \in Cols |-> g[y][x]] = g[y]
    BY <2>2 DEF Line
  <2>4. ShiftedScreen(g, i + 1) = [y \in Rows |-> [x \in Cols |-> g[y][x]]]
    BY <2>1 DEF ShiftedScreen
  <2>5. ShiftedScreen(g, i + 1) = g
    BY <1>7, <2>3, <2>4
  <2> QED
    BY <1>9, <2>5 DEF Shifted, Terminals
<1> QED
  BY <1>3, <1>12, <1>13

LEMMA ScrollDisplayAtomic ==
  ASSUME IInv, AInv, ScrollDisplay
  PROVE  AInv'
<1>1. CASE Cells("shift", OffScreen - 1, ShiftCell(term), "last_row")
  <2> SUFFICES ASSUME expected' # << >>
               PROVE  /\ expected' = Rest(term, reg, i, char, pc)'
                      /\ Good(term, reg, i, pc, crtc_index)'
                      /\ printing' = << >>
    BY DEF AInv
  <2> DEFINE u == ShiftCell(term)
  <2>1. /\ term \in Terminals /\ i \in Nat /\ i < OffScreen /\ pc = "shift" /\ term' = u
    BY <1>1, CursorType DEF IInv, Cells, Goto, LoopInv
  <2>2. /\ expected' = expected /\ printing' = << >>
        /\ expected = Rest(term, reg, i, char, "shift")
    BY <1>1, <2>1 DEF AInv, Cells, Goto
  <2>3. expected = update_hardware_cursor(InRow(Shifted(term, i), VGA_HEIGHT - 1))
    BY <2>2 DEF Rest, Saving
  <2>4. /\ Shifted(u, i + 1) = Shifted(term, i)
        /\ i = OffScreen - 1 => Shifted(u, i + 1) = u
    BY <2>1, ShiftCellAdvances
  <2> HIDE DEF u
  <2>5. CASE i = OffScreen - 1
    <3>1. pc' = "last_row" /\ i' = 0
      BY <1>1, <2>5 DEF Cells, Goto
    <3>2. expected = update_hardware_cursor(InRow(u, VGA_HEIGHT - 1))
      BY <2>3, <2>4, <2>5
    <3> QED
      BY <2>1, <2>2, <3>1, <3>2 DEF Rest, Saving, Good
  <2>6. CASE i # OffScreen - 1
    <3>1. pc' = "shift" /\ i' = i + 1
      BY <1>1, <2>6 DEF Cells, Goto
    <3>2. expected = update_hardware_cursor(InRow(Shifted(u, i + 1), VGA_HEIGHT - 1))
      BY <2>3, <2>4
    <3> QED
      BY <2>1, <2>2, <3>1, <3>2 DEF Rest, Saving, Good
  <2> QED
    BY <2>5, <2>6
<1>2. CASE Store("last_row", [term EXCEPT !.cursor_y = VGA_HEIGHT - 1], "pos_y")
  <2> DEFINE u == InRow(term, VGA_HEIGHT - 1)
  <2>1. /\ Rest(u, 0, i, char, "pos_y") = Rest(term, reg, i, char, "last_row")
        /\ Good(u, 0, i, "pos_y", crtc_index)
    BY DEF Rest, Saving, Good
  <2>2. Store("last_row", u, "pos_y")
    BY <1>2 DEF InRow
  <2> HIDE DEF u
  <2> QED
    BY <2>1, <2>2, StoreAtomic
<1> QED
  BY <1>1, <1>2 DEF ScrollDisplay

\* What the position was does not matter once it is computed anew.
WithPosition(t, n) == [t EXCEPT !.hardware_cursor = n]

LEMMA PositionOverwritten ==
  ASSUME NEW t \in Terminals, NEW n
  PROVE  LET u == WithPosition(t, n)
         IN  /\ update_hardware_cursor(u) = update_hardware_cursor(t)
             /\ u.hardware_cursor = n
             /\ u.cursor_x = t.cursor_x /\ u.cursor_y = t.cursor_y
<1> DEFINE u == WithPosition(t, n)
<1>1. /\ u.cursor_x = t.cursor_x /\ u.cursor_y = t.cursor_y
      /\ u.cursor_visible = t.cursor_visible
      /\ u.in_scrollback_mode = t.in_scrollback_mode
      /\ u.hardware_cursor = n
  BY DEF WithPosition, Terminals
<1>2. CursorPosition(u) = CursorPosition(t)
  BY <1>1 DEF CursorPosition
<1>3. ASSUME NEW m
      PROVE  [u EXCEPT !.hardware_cursor = m] = [t EXCEPT !.hardware_cursor = m]
  BY DEF WithPosition, Terminals
<1> HIDE DEF u
<1>4. update_hardware_cursor(u) = update_hardware_cursor(t)
  BY <1>2, <1>3 DEF update_hardware_cursor
<1> QED
  BY <1>1, <1>4 DEF u

\* The two bytes of a position that fits make it up.
LEMMA TwoBytes ==
  ASSUME NEW n \in Nat, n < ByteMod * ByteMod, NEW h \in Nat
  PROVE  LET high == (n \div ByteMod) % ByteMod
             low  == n % ByteMod
         IN  /\ (high * ByteMod + (h % ByteMod)) \div ByteMod = high
             /\ high * ByteMod + low = n
<1>1. ByteMod \in Nat /\ ByteMod > 0
  <2>1. ByteMod \in Nat /\ ByteMod * ByteMod > 0
    BY TerminalIrqAssumption
  <2>2. ByteMod # 0
    BY <2>1
  <2> QED
    BY <2>1, <2>2
<1> DEFINE q == n \div ByteMod
           r == n % ByteMod
           s == h % ByteMod
<1>2. n = q * ByteMod + r /\ q \in Nat /\ r \in Nat /\ r < ByteMod
  BY <1>1
<1>3. s \in Nat /\ s < ByteMod
  BY <1>1
<1> HIDE DEF q, r, s
<1>4. q < ByteMod
  <2>1. ByteMod < q => ByteMod * ByteMod + 0 < q * ByteMod + r
    BY <1>1, <1>2, EarlierRow
  <2>2. ByteMod = q => q * ByteMod + r >= ByteMod * ByteMod
    BY <1>1, <1>2
  <2>3. ByteMod * ByteMod \in Nat /\ q * ByteMod \in Nat
    BY <1>1, <1>2
  <2> QED
    BY <1>1, <1>2, <2>1, <2>2, <2>3
<1>5. q % ByteMod = q
  BY <1>1, <1>2, <1>4
<1>6. (q * ByteMod + s) \div ByteMod = q
  <2>1. q * ByteMod + s \in Nat
    BY <1>1, <1>2, <1>3
  <2> QED
    BY <1>1, <1>2, <1>3, <2>1, DivisionIs
<1> QED
  BY <1>2, <1>5, <1>6 DEF q, r, s

\* Where the position is written, it is that of the cursor, and fits.
LEMMA PositionLoaded ==
  ASSUME IInv, pc \in {"high", "low"}, Good(term, reg, i, pc, crtc_index)
  PROVE  /\ reg = CursorPosition(term) /\ reg \in Nat /\ reg < ByteMod * ByteMod
         /\ term \in Terminals /\ term.hardware_cursor \in Nat
<1>1. OnScreen(term) /\ term \in Terminals
      /\ term.cursor_visible = TRUE /\ term.in_scrollback_mode = FALSE
  BY DEF IInv, TermInv, CursorInv
<1>2. reg = CellIndex(term.cursor_x, term.cursor_y)
  BY DEF Good
<1>3. CursorPosition(term) = CellIndex(term.cursor_x, term.cursor_y)
  BY <1>1 DEF CursorPosition
<1>4. term.hardware_cursor \in Nat
  BY <1>1 DEF Terminals
<1> QED
  BY <1>1, <1>2, <1>3, <1>4, PositionFits

LEMMA UpdateCursorAtomic ==
  ASSUME IInv, AInv, UpdateCursor
  PROVE  AInv'
<1>1. CASE Load("pos_y", term.cursor_y, "pos_x")
  <2>1. /\ Rest(term, term.cursor_y, i, char, "pos_x") = Rest(term, reg, i, char, "pos_y")
        /\ Good(term, term.cursor_y, i, "pos_x", crtc_index)
    BY DEF Rest, Saving, Good
  <2> QED
    BY <1>1, <2>1, LoadAtomic
<1>2. CASE Load("pos_x", CellIndex(term.cursor_x, reg), "select_high")
  <2> DEFINE index == CellIndex(term.cursor_x, reg)
  <2>1. Good(term, reg, i, "pos_x", crtc_index) => Good(term, index, i, "select_high", crtc_index)
    BY DEF Good
  <2> HIDE DEF index
  <2>2. Rest(term, index, i, char, "select_high") = Rest(term, reg, i, char, "pos_x")
    BY DEF Rest, Saving
  <2> QED
    BY <1>2, <2>1, <2>2, LoadAtomic DEF index
<1>3. CASE SelectRegister("select_high", "high", "high")
  <2>1. Rest(term, reg, i, char, "high") = Rest(term, reg, i, char, "select_high")
    BY DEF Rest, Saving
  <2>2. Good(term, reg, i, "select_high", crtc_index) => Good(term, reg, i, "high", "high")
    BY DEF Good
  <2> QED
    BY <1>3, <2>1, <2>2 DEF AInv, SelectRegister, Goto
<1>4. CASE WriteHigh
  <2> SUFFICES ASSUME expected' # << >>
               PROVE  /\ expected' = Rest(term, reg, i, char, pc)'
                      /\ Good(term, reg, i, pc, crtc_index)'
                      /\ printing' = << >>
    BY DEF AInv
  <2>1. /\ pc = "high" /\ pc' = "select_low" /\ reg' = reg
        /\ expected' = expected /\ printing' = << >>
        /\ expected = Rest(term, reg, i, char, "high")
        /\ Good(term, reg, i, "high", crtc_index)
    BY <1>4 DEF AInv, WriteHigh, Goto
  <2>2. /\ reg \in Nat /\ reg < ByteMod * ByteMod
        /\ term \in Terminals /\ term.hardware_cursor \in Nat
    BY <2>1, PositionLoaded
  <2> DEFINE byte == (reg \div ByteMod) % ByteMod
             position == byte * ByteMod + (term.hardware_cursor % ByteMod)
             u == WithPosition(term, position)
  <2>3. position \div ByteMod = byte
    BY <2>2, TwoBytes
  <2>4. crtc_index = "high" /\ reg = CellIndex(term.cursor_x, term.cursor_y)
    BY <2>1 DEF Good
  <2>5. term' = u
    BY <1>4, <2>4 DEF WriteHigh, WithByte, WithPosition
  <2> HIDE DEF position
  <2>6. /\ update_hardware_cursor(u) = update_hardware_cursor(term)
        /\ u.hardware_cursor = position
        /\ u.cursor_x = term.cursor_x /\ u.cursor_y = term.cursor_y
    BY <2>2, PositionOverwritten
  <2> HIDE DEF u
  <2>7. expected = update_hardware_cursor(u)
    BY <2>1, <2>6 DEF Rest, Saving
  <2>8. Rest(u, reg, i', char', "select_low") = update_hardware_cursor(u)
    BY DEF Rest, Saving
  <2>9. Good(u, reg, i', "select_low", crtc_index')
    BY <2>3, <2>4, <2>6 DEF Good
  <2> QED
    BY <2>1, <2>5, <2>7, <2>8, <2>9
<1>5. CASE SelectRegister("select_low", "low", "low")
  <2>1. Rest(term, reg, i, char, "low") = Rest(term, reg, i, char, "select_low")
    BY DEF Rest, Saving
  <2>2. Good(term, reg, i, "select_low", crtc_index) => Good(term, reg, i, "low", "low")
    BY DEF Good
  <2> QED
    BY <1>5, <2>1, <2>2 DEF AInv, SelectRegister, Goto
<1>6. CASE WriteLow
  BY <1>6 DEF AInv, WriteLow
<1> QED
  BY <1>1, <1>2, <1>3, <1>4, <1>5, <1>6 DEF UpdateCursor

\* An interrupt ends what can be said of the call.
LEMMA InterruptAtomic ==
  ASSUME AInv, Interrupt \/ HandlerPuts
  PROVE  AInv'
BY DEF AInv, Interrupt, HandlerPuts

-----------------------------------------------------------------------------
(* The theorem.                                                            *)

LEMMA StepAtomic == IInv /\ AInv /\ [Next]_vars => AInv'
<1> SUFFICES ASSUME IInv, AInv, [Next]_vars PROVE AInv'
  OBVIOUS
<1>1. ASSUME NEW c \in KernelChars, Call(c) PROVE AInv'
  BY <1>1, CallAtomic
<1>2. CASE Step
  BY <1>2, PutNewlineAtomic, PutCellAtomic, WrapCursorAtomic, SaveLineAtomic,
     ScrollDisplayAtomic, UpdateCursorAtomic DEF Step
<1>3. CASE Interrupt \/ HandlerPuts
  BY <1>3, InterruptAtomic
<1>4. CASE UNCHANGED vars
  BY <1>4 DEF vars, AInv
<1> QED
  BY <1>1, <1>2, <1>3, <1>4 DEF Next

\* The last write makes the position that of the operation.
LEMMA LastWrite ==
  ASSUME IInv, AInv, WriteLow, expected # << >>
  PROVE  term' = expected /\ crtc_index = "low"
<1>1. /\ pc = "low" /\ expected = Rest(term, reg, i, char, "low")
      /\ Good(term, reg, i, "low", crtc_index)
  BY DEF AInv, WriteLow
<1>2. /\ reg = CursorPosition(term) /\ reg \in Nat /\ reg < ByteMod * ByteMod
      /\ term.hardware_cursor \in Nat
  BY <1>1, PositionLoaded
<1>3. crtc_index = "low" /\ term.hardware_cursor \div ByteMod = (reg \div ByteMod) % ByteMod
  BY <1>1 DEF Good
<1>4. ((reg \div ByteMod) % ByteMod) * ByteMod + (reg % ByteMod) = reg
  BY <1>2, TwoBytes
<1>5. term' = [term EXCEPT !.hardware_cursor = reg]
  BY <1>3, <1>4 DEF WriteLow, WithByte
<1>6. expected = update_hardware_cursor(term)
  BY <1>1 DEF Rest, Saving
<1> QED
  BY <1>2, <1>3, <1>5, <1>6 DEF update_hardware_cursor

\* Nothing else ends a call.
LEMMA OtherSteps ==
  ASSUME pc # "idle", [Next]_vars, ~ WriteLow
  PROVE  pc' # "idle"
<1>1. ASSUME NEW c \in KernelChars, Call(c) PROVE FALSE
  BY <1>1 DEF Call
<1>2. CASE Step
  <2>1. ASSUME NEW from, NEW to, to # "idle", NEW value,
               Load(from, value, to) \/ Store(from, value, to) \/ SelectRegister(from, value, to)
        PROVE  pc' # "idle"
    BY <2>1 DEF Load, Store, SelectRegister, Goto
  <2>2. CASE PutNewline \/ PutCell
    BY <2>1, <2>2 DEF PutNewline, PutCell
  <2>3. CASE WrapCursor
    BY <2>3 DEF WrapCursor, Branch, Load, Store, Goto
  <2>4. CASE SaveLine
    BY <2>4 DEF SaveLine, CopyTopLine, Cells, Branch, Load, Store, Goto
  <2>5. CASE ScrollDisplay
    BY <2>5 DEF ScrollDisplay, Cells, Store, Goto
  <2>6. CASE UpdateCursor
    BY <2>6 DEF UpdateCursor, WriteHigh, SelectRegister, Load, Goto
  <2> QED
    BY <1>2, <2>2, <2>3, <2>4, <2>5, <2>6 DEF Step
<1>3. CASE Interrupt \/ HandlerPuts \/ UNCHANGED vars
  BY <1>3 DEF Interrupt, HandlerPuts, vars
<1> QED
  BY <1>1, <1>2, <1>3 DEF Next

\* A call that nothing interrupts is terminal_putchar as the compositional model has
\* it: term and both registers of the controller end up as the operation says.
THEOREM CallsAreAtomic == Spec => UninterruptedCallsAreAtomic
<1>1. Init => AInv
  BY DEF Init, AInv
<1>2. IInv /\ AInv /\ [Next]_vars
        => [pc # "idle" /\ pc' = "idle" /\ expected # << >>
              => term' = expected /\ crtc_index = "low"]_vars
  <2> SUFFICES ASSUME IInv, AInv, [Next]_vars, pc # "idle", pc' = "idle", expected # << >>
               PROVE  term' = expected /\ crtc_index = "low"
    OBVIOUS
  <2>1. WriteLow
    BY OtherSteps
  <2> QED
    BY <2>1, LastWrite
<1> QED
  BY <1>1, <1>2, StepAtomic, TerminalInvariant, PTL DEF Spec, UninterruptedCallsAreAtomic
=============================================================================
