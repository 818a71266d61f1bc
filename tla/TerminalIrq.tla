---------------------------- MODULE TerminalIrq ----------------------------
(***************************************************************************)
(* terminal_putchar as kernel_main runs it with interrupts enabled: every  *)
(* load and store of term and every port write is a step of its own, and   *)
(* between any two of them an interrupt may print through the same term.   *)
(* The handlers run behind interrupt gates: nothing comes between what one *)
(* of them prints, so that each of its characters is one step, and         *)
(* kernel_main goes on when the last of them is out.                       *)
(*                                                                         *)
(* The program is built without optimization (CFLAGS of the Makefile), so  *)
(* term.cursor_x++ is a load and a store.  The copy of a cell is one step. *)
(* Nothing in the kernel enters the scrollback mode or hides the cursor,   *)
(* so the tests of both flags are constant.                                *)
(***************************************************************************)
EXTENDS TerminalCalls, Keyboard

CONSTANTS
  KernelChars,   \* what kernel_main prints: no control character but newline
  IrqMessage,    \* the text of exception_handler for another interrupt
  ByteMod        \* 256, the values of a register of the VGA controller

ASSUME TerminalIrqAssumption ==
  /\ \A key \in Keys : {unshifted_table[key], shifted_table[key]} \subseteq Chars \union {Unmapped}
  /\ {UnhandledMessage, IrqMessage} \subseteq Seq(Chars)
  /\ KernelChars \subseteq Printable \union {Blank, "newline"}
  /\ ByteMod \in Nat /\ ByteMod * ByteMod > VGA_WIDTH * (VGA_HEIGHT + 1)

VARIABLES
  term,         \* the terminal, its hardware_cursor in two registers
  crtc_index,   \* the register the next write to VGA_DATA_PORT goes to
  pc,           \* the next step of terminal_putchar, "idle" between calls
  char,         \* its argument
  reg,          \* a value it has loaded
  i,            \* the variable of its loops
  printing,     \* what the running interrupt handler has still to print
  expected      \* history: what the call alone would make of term, or <<>>

vars == <<term, crtc_index, pc, char, reg, i, printing, expected>>

Init ==
  /\ term = terminal_init
  /\ crtc_index = "low"
  /\ pc = "idle" /\ char = Blank /\ reg = 0 /\ i = 0
  /\ printing = << >> /\ expected = << >>

-----------------------------------------------------------------------------
(* Steps: what each does to term and reg, and where it leads.              *)

Goto(from, to) ==
  /\ printing = << >> /\ pc = from /\ pc' = to
  /\ UNCHANGED <<char, printing, expected>>

Load(from, value, to) ==
  /\ Goto(from, to)
  /\ reg' = value
  /\ UNCHANGED <<term, crtc_index, i>>

Store(from, value, to) ==
  /\ Goto(from, to)
  /\ term' = value
  /\ reg' = 0
  /\ UNCHANGED <<crtc_index, i>>

\* A test of term, which leaves no value behind.
Branch(from, condition, yes, no) ==
  Load(from, 0, IF condition THEN yes ELSE no)

\* One iteration of a loop over cells, and the exit after the last of them.
Cells(from, last, value, to) ==
  /\ Goto(from, IF i = last THEN to ELSE from)
  /\ term' = value
  /\ i' = IF i = last THEN 0 ELSE i + 1
  /\ UNCHANGED <<reg, crtc_index>>

\* outb(VGA_CTRL_PORT, index), and outb(VGA_DATA_PORT, byte): the byte goes to the
\* register that was selected last, by whomever.
SelectRegister(from, index, to) ==
  /\ Goto(from, to)
  /\ crtc_index' = index
  /\ UNCHANGED <<term, reg, i>>

WithByte(t, byte) ==
  [t EXCEPT !.hardware_cursor =
     IF crtc_index = "high" THEN byte * ByteMod + (@ % ByteMod)
     ELSE (@ \div ByteMod) * ByteMod + byte]

-----------------------------------------------------------------------------
(* terminal_putchar.                                                       *)

Call(c) ==
  /\ printing = << >> /\ pc = "idle"
  /\ pc' = IF c = "newline" THEN "newline" ELSE "cell_y"
  /\ char' = c
  /\ expected' = terminal_putchar(term, c)
  /\ UNCHANGED <<term, crtc_index, reg, i, printing>>

PutNewline ==
  \/ Store("newline", [term EXCEPT !.cursor_x = 0], "newline_load")
  \/ Load("newline_load", term.cursor_y, "newline_store")
  \/ Store("newline_store", [term EXCEPT !.cursor_y = reg + 1], "wrap")

\* The address of the cell needs both coordinates: reg is y, then the index.
PutCell ==
  \/ Load("cell_y", term.cursor_y, "cell_x")
  \/ Load("cell_x", CellIndex(term.cursor_x, reg), "cell_store")
  \/ Store("cell_store", StoreCell(term, reg, char), "next_load")
  \/ Load("next_load", term.cursor_x, "next_store")
  \/ Store("next_store", [term EXCEPT !.cursor_x = reg + 1], "wrap")

\* Mutant of WrapCursor: a cursor behind the last column is left there.
WrapCursor_OneMore ==
  \/ Branch("wrap", term.cursor_x > VGA_WIDTH, "wrap_x", "bottom")
  \/ Store("wrap_x", [term EXCEPT !.cursor_x = 0], "wrap_load")
  \/ Load("wrap_load", term.cursor_y, "wrap_store")
  \/ Store("wrap_store", [term EXCEPT !.cursor_y = reg + 1], "bottom")
  \/ Branch("bottom", term.cursor_y >= VGA_HEIGHT, "slot_head", "pos_y")

WrapCursor ==
  \/ Branch("wrap", term.cursor_x >= VGA_WIDTH, "wrap_x", "bottom")
  \/ Store("wrap_x", [term EXCEPT !.cursor_x = 0], "wrap_load")
  \/ Load("wrap_load", term.cursor_y, "wrap_store")
  \/ Store("wrap_store", [term EXCEPT !.cursor_y = reg + 1], "bottom")
  \/ Branch("bottom", term.cursor_y >= VGA_HEIGHT, "slot_head", "pos_y")

\* The copy of the top line to the slot in reg.
CopyTopLine ==
  Cells("save_line", VGA_WIDTH - 1,
        [term EXCEPT !.scrollback_buffer[reg][i] = term.framebuffer[0][i]], "full")

\* Mutant of SaveLine: the count grows without a test.
SaveLine_Untested ==
  \/ Load("slot_head", term.scrollback_head, "slot_count")
  \/ Load("slot_count", (reg + term.scrollback_count) % SCROLLBACK_LINES, "save_line")
  \/ CopyTopLine
  \/ Branch("full", TRUE, "count_load", "head_load")
  \/ Load("count_load", term.scrollback_count, "count_store")
  \/ Store("count_store", [term EXCEPT !.scrollback_count = reg + 1], "shift")

\* Mutant of SaveLine: the head is not taken modulo the size of the ring.
SaveLine_HeadNotWrapped ==
  \/ Load("slot_head", term.scrollback_head, "slot_count")
  \/ Load("slot_count", (reg + term.scrollback_count) % SCROLLBACK_LINES, "save_line")
  \/ CopyTopLine
  \/ Branch("full", term.scrollback_count < SCROLLBACK_LINES, "count_load", "head_load")
  \/ Load("count_load", term.scrollback_count, "count_store")
  \/ Store("count_store", [term EXCEPT !.scrollback_count = reg + 1], "shift")
  \/ Load("head_load", term.scrollback_head, "head_store")
  \/ Store("head_store", [term EXCEPT !.scrollback_head = reg + 1], "shift")

\* save_line_to_scrollback: reg is head, then the slot; then head or count.
SaveLine ==
  \/ Load("slot_head", term.scrollback_head, "slot_count")
  \/ Load("slot_count", (reg + term.scrollback_count) % SCROLLBACK_LINES, "save_line")
  \/ CopyTopLine
  \/ Branch("full", term.scrollback_count < SCROLLBACK_LINES, "count_load", "head_load")
  \/ Load("count_load", term.scrollback_count, "count_store")
  \/ Store("count_store", [term EXCEPT !.scrollback_count = reg + 1], "shift")
  \/ Load("head_load", term.scrollback_head, "head_store")
  \/ Store("head_store",
           [term EXCEPT !.scrollback_head = (reg + 1) % SCROLLBACK_LINES], "shift")

\* The two loops of scroll_display as one over the cells of the screen.
ShiftCell(t) ==
  StoreCell(t, i,
    IF i >= OffScreen - VGA_WIDTH THEN Blank
    ELSE t.framebuffer[i \div VGA_WIDTH + 1][i % VGA_WIDTH])

\* Mutant of ScrollDisplay: the cursor stays below the screen.
ScrollDisplay_RowKept ==
  \/ Cells("shift", OffScreen - 1, ShiftCell(term), "last_row")
  \/ Store("last_row", term, "pos_y")

ScrollDisplay ==
  \/ Cells("shift", OffScreen - 1, ShiftCell(term), "last_row")
  \/ Store("last_row", [term EXCEPT !.cursor_y = VGA_HEIGHT - 1], "pos_y")

WriteHigh ==
  /\ Goto("high", "select_low")
  /\ term' = WithByte(term, (reg \div ByteMod) % ByteMod)
  /\ UNCHANGED <<crtc_index, reg, i>>

\* The last port write, and the return.
WriteLow ==
  /\ printing = << >> /\ pc = "low" /\ pc' = "idle"
  /\ term' = WithByte(term, reg % ByteMod)
  /\ char' = Blank /\ reg' = 0 /\ expected' = << >>
  /\ UNCHANGED <<crtc_index, i, printing>>

\* Mutant of UpdateCursor: both bytes go to the first register.
UpdateCursor_SelectedOnce ==
  \/ Load("pos_y", term.cursor_y, "pos_x")
  \/ Load("pos_x", CellIndex(term.cursor_x, reg), "select_high")
  \/ SelectRegister("select_high", "high", "high")
  \/ WriteHigh
  \/ SelectRegister("select_low", crtc_index, "low")
  \/ WriteLow

\* update_hardware_cursor: reg is y, then the position.
UpdateCursor ==
  \/ Load("pos_y", term.cursor_y, "pos_x")
  \/ Load("pos_x", CellIndex(term.cursor_x, reg), "select_high")
  \/ SelectRegister("select_high", "high", "high")
  \/ WriteHigh
  \/ SelectRegister("select_low", "low", "low")
  \/ WriteLow

Step ==
  PutNewline \/ PutCell \/ WrapCursor \/ SaveLine \/ ScrollDisplay \/ UpdateCursor

-----------------------------------------------------------------------------
\* What one interrupt prints.
HandlerOutputs ==
  {keyboard_handler(kbd, scancode).out : kbd \in Modifiers, scancode \in Scancodes}
    \union {IrqMessage}

\* An interrupt between two steps.  One that prints nothing changes nothing here.
Interrupt ==
  /\ printing = << >>
  /\ printing' \in HandlerOutputs \ {<< >>}
  /\ expected' = << >>
  /\ UNCHANGED <<term, crtc_index, pc, char, reg, i>>

\* The next character of its handler, and iret behind the last one.
HandlerPuts ==
  /\ printing # << >>
  /\ term' = terminal_putchar(term, Head(printing))
  /\ printing' = Tail(printing)
  /\ crtc_index' = "low"
  /\ UNCHANGED <<pc, char, reg, i, expected>>

Next ==
  \/ \E c \in KernelChars : Call(c)
  \/ Step
  \/ Interrupt
  \/ HandlerPuts

Spec == Init /\ [][Next]_vars

-----------------------------------------------------------------------------
TypeOK ==
  /\ term \in
       [ framebuffer        : [Rows -> Line],
         cursor_x           : 0 .. VGA_WIDTH,
         cursor_y           : 0 .. VGA_HEIGHT,
         scrollback_buffer  : [Slots -> Line],
         scrollback_head    : Slots,
         scrollback_count   : Nat,
         view_offset        : {0},
         cursor_visible     : {TRUE},
         in_scrollback_mode : {FALSE},
         hardware_cursor    : 0 .. ByteMod * ByteMod - 1 ]
  /\ crtc_index \in {"low", "high"}
  /\ char \in Chars
  /\ reg \in Nat /\ i \in 0 .. OffScreen - 1
  /\ printing \in Seq(Chars)

(***************************************************************************)
(* However interrupts move the cursor under a running terminal_putchar,    *)
(* between calls it is on the screen: the next call, which stores before   *)
(* it tests, may rely on that.  The wrap and the scroll come after every   *)
(* load whose value an interrupt can make stale.                           *)
(***************************************************************************)
CursorOnScreenBetweenCalls ==
  pc = "idle" => term.cursor_x < VGA_WIDTH /\ term.cursor_y < VGA_HEIGHT

(***************************************************************************)
(* kernel_main's own characters go to cells of the screen, also when an    *)
(* interrupt changed the cursor between the loads of the two coordinates.  *)
(* A handler that starts when the cursor has left the screen and is not    *)
(* yet back writes to the row behind it at most, which is video memory     *)
(* (0xB8000 holds more rows than are shown) and nobody else's.             *)
(***************************************************************************)
StoresStayInVideoMemory ==
  /\ pc = "cell_store" => reg < OffScreen
  /\ CellIndex(term.cursor_x, term.cursor_y) < OffScreen + VGA_WIDTH

(***************************************************************************)
(* The count is tested, loaded and stored in three steps, so that an       *)
(* interrupt which fills the ring between the first two makes it one too   *)
(* many.  It stays at one: from then on the test fails for everybody, and  *)
(* head and slot, taken modulo the size, stay inside the storage.          *)
(***************************************************************************)
RingOverrunByOne ==
  /\ term.scrollback_count <= SCROLLBACK_LINES + 1
  /\ pc = "save_line" => reg \in Slots

(***************************************************************************)
(* A call that no interrupt breaks up does, load by load and port write by *)
(* port write, what the operation terminal_putchar of TerminalCalls does,  *)
(* the position in the VGA controller included, and whatever interrupts    *)
(* left behind before it began: the high and the low byte of a torn        *)
(* position, or an index register that another call had set.               *)
(***************************************************************************)
UninterruptedCallsAreAtomic ==
  [][pc # "idle" /\ pc' = "idle" /\ expected # << >>
       => term' = expected /\ crtc_index = "low"]_vars

(***************************************************************************)
(* scrollback_count is the "Number of lines currently in scrollback"       *)
(* (terminal.h:24), of which there are at most SCROLLBACK_LINES, the       *)
(* "Number of lines to keep in history" (terminal.h:11).                   *)
(***************************************************************************)
CountIsLinesKept == term.scrollback_count <= SCROLLBACK_LINES
=============================================================================
