--------------------------- MODULE TerminalProofs ----------------------------
(***************************************************************************)
(* Proofs about Terminal: for every size of screen and scrollback, the     *)
(* ring holds the last lines that were scrolled off, a full view shows     *)
(* their window, and the hardware cursor follows.                          *)
(***************************************************************************)
EXTENDS Terminal, TerminalCallsProofs

-----------------------------------------------------------------------------
(* The inductive invariant.                                                *)

\* The cursor is on the screen, the view lies within the history, and away from the
\* end of it the terminal is in scrollback mode, so that the next character ends it.
Sound(t) ==
  /\ t \in Terminals
  /\ t.cursor_x < VGA_WIDTH /\ t.cursor_y < VGA_HEIGHT
  /\ t.scrollback_count <= SCROLLBACK_LINES
  /\ t.view_offset <= t.scrollback_count
  /\ t.view_offset > 0 => t.in_scrollback_mode
  /\ t.hardware_cursor = CursorPosition(t)

\* The ring of t holds the lines h, oldest first.
Holds(t, h) ==
  /\ h \in Seq(Line)
  /\ Len(h) = t.scrollback_count
  /\ \A k \in 1 .. Len(h) :
       h[k] = t.scrollback_buffer[(t.scrollback_head + k - 1) % SCROLLBACK_LINES]

\* A full view of t shows lines of h.
Shows(t, h) ==
  t.in_scrollback_mode /\ t.view_offset >= VGA_HEIGHT =>
    \/ t.framebuffer = BlankScreen
    \/ \A y \in Rows : t.framebuffer[y] = h[Len(h) - t.view_offset + y + 1]

Good(t, h) == Sound(t) /\ Holds(t, h) /\ Shows(t, h)

IInv == Good(term, history)

-----------------------------------------------------------------------------
(* The slots of the ring.                                                  *)

LEMMA ModAdd ==
  ASSUME NEW a \in Nat, NEW b \in Nat, NEW w \in Nat, w > 0
  PROVE  ((a % w) + b) % w = (a + b) % w
<1> DEFINE p == a \div w
           l == a % w
           q == (l + b) \div w
           r == (l + b) % w
           s == p + q
<1>1. a = p * w + l /\ p \in Nat /\ l \in Nat
  OBVIOUS
<1>2. l + b = q * w + r /\ q \in Nat /\ r \in Nat /\ r < w
  BY <1>1
<1> HIDE DEF p, q
<1>3. (p + q) * w = p * w + q * w
  BY <1>1, <1>2
<1>4. p * w \in Nat /\ q * w \in Nat /\ p + q \in Nat
  BY <1>1, <1>2
<1> HIDE DEF l, r
<1>5. a + b = s * w + r /\ s \in Nat /\ a + b \in Nat
  BY <1>1, <1>2, <1>3, <1>4
<1> HIDE DEF s
<1>6. (a + b) % w = r
  BY <1>2, <1>5, DivisionIs
<1> QED
  BY <1>6 DEF l, r

LEMMA ModDistinct ==
  ASSUME NEW a \in Nat, NEW d \in Nat, NEW w \in Nat, 0 < d, d < w
  PROVE  (a + d) % w # a % w
<1> DEFINE p == a \div w
           q == (a + d) \div w
           r == a % w
<1>1. a = p * w + r /\ p \in Nat /\ r \in Nat
  OBVIOUS
<1>2. a + d = q * w + ((a + d) % w) /\ q \in Nat
  OBVIOUS
<1>3. SUFFICES ASSUME (a + d) % w = r PROVE FALSE
  OBVIOUS
<1> HIDE DEF p, q, r
<1>4. q * w = p * w + d /\ p * w \in Nat /\ q * w \in Nat
  BY <1>1, <1>2, <1>3
<1>5. CASE q <= p
  <2>1. PICK e \in Nat : p = q + e
    <3>1. p - q \in Nat
      BY <1>1, <1>2, <1>5
    <3> QED
      BY <1>1, <1>2, <3>1
  <2>2. p * w = q * w + e * w /\ e * w \in Nat
    BY <1>2, <2>1
  <2> QED
    BY <1>4, <2>2
<1>6. CASE p < q
  <2>1. PICK e \in Nat : q = p + 1 + e
    <3>1. q - p - 1 \in Nat
      BY <1>1, <1>2, <1>6
    <3> QED
      BY <1>1, <1>2, <3>1
  <2>2. q * w = p * w + w + e * w /\ e * w \in Nat
    BY <1>1, <2>1
  <2> QED
    BY <1>4, <2>2
<1> QED
  BY <1>1, <1>2, <1>5, <1>6

\* A line in the ring has a slot of its own: the next line to come takes none of them,
\* unless the ring is full.
LEMMA FreeSlot ==
  ASSUME NEW t \in Terminals, NEW k \in Nat, k < t.scrollback_count,
         \/ t.scrollback_count < SCROLLBACK_LINES
         \/ t.scrollback_count = SCROLLBACK_LINES /\ k > 0
  PROVE  (t.scrollback_head + k) % SCROLLBACK_LINES # NextSlot(t)
<1> DEFINE a == t.scrollback_head + k
           d == t.scrollback_count - k
<1>1. t.scrollback_head \in Nat /\ t.scrollback_count \in Nat /\ SCROLLBACK_LINES \in Nat
  BY ScreenSize DEF Terminals, Slots
<1>2. a \in Nat /\ d \in Nat /\ 0 < d /\ d < SCROLLBACK_LINES
      /\ a + d = t.scrollback_head + t.scrollback_count
  BY <1>1
<1>3. (a + d) % SCROLLBACK_LINES # a % SCROLLBACK_LINES
  BY <1>1, <1>2, ModDistinct
<1> QED
  BY <1>2, <1>3 DEF NextSlot

-----------------------------------------------------------------------------
(* The ring and the history.                                               *)

LEMMA HoldsSame ==
  ASSUME NEW t \in Terminals, NEW u \in Terminals, NEW h, Holds(t, h), SameHistory(t, u)
  PROVE  Holds(u, h)
BY DEF Holds, SameHistory

\* A line scrolled off the screen: in a full ring it replaces the oldest one, and the
\* head moves on.
LEMMA SavedHolds ==
  ASSUME NEW t \in Terminals, NEW u \in Terminals, NEW h, NEW line \in Line,
         Holds(t, h), t.scrollback_count <= SCROLLBACK_LINES, Saved(t, u, line)
  PROVE  Holds(u, Newest(Append(h, line)))
<1> DEFINE g == Append(h, line)
           Slot(n) == (t.scrollback_head + n) % SCROLLBACK_LINES
<1>1. /\ t.scrollback_head \in Nat /\ t.scrollback_count \in Nat
      /\ SCROLLBACK_LINES \in Nat /\ SCROLLBACK_LINES > 0
      /\ t.scrollback_buffer \in [Slots -> Line]
  BY ScreenSize DEF Terminals, Slots
<1>2. h \in Seq(Line) /\ Len(h) = t.scrollback_count
  BY DEF Holds
<1>3. /\ g \in Seq(Line) /\ Len(g) = t.scrollback_count + 1
      /\ \A k \in 1 .. t.scrollback_count : g[k] = h[k]
      /\ g[t.scrollback_count + 1] = line
  BY <1>1, <1>2
<1>4. \A k \in 1 .. t.scrollback_count : h[k] = t.scrollback_buffer[Slot(k - 1)]
  <2>1. TAKE k \in 1 .. t.scrollback_count
  <2>2. h[k] = t.scrollback_buffer[(t.scrollback_head + k - 1) % SCROLLBACK_LINES]
    BY <1>2 DEF Holds
  <2>3. t.scrollback_head + k - 1 = t.scrollback_head + (k - 1)
    BY <1>1
  <2> QED
    BY <2>2, <2>3
<1>5. NextSlot(t) \in Slots /\ NextSlot(t) = Slot(t.scrollback_count)
  <2>1. t.scrollback_head + t.scrollback_count \in Nat
    BY <1>1
  <2> QED
    BY <2>1, SlotType DEF NextSlot
<1>6. u.scrollback_buffer[NextSlot(t)] = line
  BY <1>1, <1>5 DEF Saved
<1>7. ASSUME NEW n \in Nat, n < t.scrollback_count,
             \/ t.scrollback_count < SCROLLBACK_LINES
             \/ t.scrollback_count = SCROLLBACK_LINES /\ n > 0
      PROVE  u.scrollback_buffer[Slot(n)] = t.scrollback_buffer[Slot(n)]
  <2>1. Slot(n) # NextSlot(t)
    BY <1>7, FreeSlot
  <2>2. Slot(n) \in Slots
    BY <1>1, SlotType
  <2> HIDE DEF Slot
  <2> QED
    BY <1>1, <2>1, <2>2 DEF Saved
<1> HIDE DEF g
<1>8. CASE t.scrollback_count < SCROLLBACK_LINES
  <2>1. Newest(g) = g
    BY <1>1, <1>3, <1>8 DEF Newest
  <2>2. u.scrollback_count = t.scrollback_count + 1 /\ u.scrollback_head = t.scrollback_head
    BY <1>1, <1>8 DEF Saved
  <2>3. ASSUME NEW k \in 1 .. Len(g)
        PROVE  g[k] = u.scrollback_buffer[Slot(k - 1)]
    <3>1. CASE k = t.scrollback_count + 1
      <4>1. k - 1 = t.scrollback_count
        BY <1>1, <3>1
      <4> HIDE DEF Slot
      <4> QED
        BY <1>3, <1>5, <1>6, <3>1, <4>1
    <3>2. CASE k # t.scrollback_count + 1
      <4> DEFINE m == k - 1
      <4>1. k \in 1 .. t.scrollback_count /\ m \in Nat /\ m < t.scrollback_count
        BY <1>1, <1>3, <3>2
      <4>2. h[k] = t.scrollback_buffer[Slot(m)]
        BY <1>4, <4>1
      <4> HIDE DEF Slot, m
      <4>3. u.scrollback_buffer[Slot(m)] = t.scrollback_buffer[Slot(m)]
        BY <1>7, <1>8, <4>1
      <4>4. g[k] = u.scrollback_buffer[Slot(m)]
        BY <1>3, <4>1, <4>2, <4>3
      <4> QED
        BY <4>4 DEF m
    <3> QED
      BY <3>1, <3>2
  <2>4. ASSUME NEW k \in 1 .. Len(g)
        PROVE  g[k] = u.scrollback_buffer[(u.scrollback_head + k - 1) % SCROLLBACK_LINES]
    <3>1. t.scrollback_head + (k - 1) = u.scrollback_head + k - 1
      BY <1>1, <1>3, <2>2
    <3>2. g[k] = u.scrollback_buffer[Slot(k - 1)]
      BY <2>3
    <3> QED
      BY <3>1, <3>2
  <2>5. g \in Seq(Line) /\ Len(g) = u.scrollback_count
    BY <1>3, <2>2
  <2>6. Holds(u, g)
    BY <2>4, <2>5 DEF Holds
  <2> QED
    BY <2>1, <2>6 DEF g
<1>9. CASE t.scrollback_count = SCROLLBACK_LINES
  <2> DEFINE n == Tail(g)
  <2>1. Newest(g) = n
    BY <1>1, <1>3, <1>9 DEF Newest
  <2>2. n \in Seq(Line) /\ Len(n) = t.scrollback_count
        /\ \A k \in 1 .. t.scrollback_count : n[k] = g[k + 1]
    BY <1>1, <1>3
  <2> HIDE DEF n
  <2>3. u.scrollback_count = t.scrollback_count
        /\ u.scrollback_head = (t.scrollback_head + 1) % SCROLLBACK_LINES
    BY <1>1, <1>9 DEF Saved
  <2>4. ASSUME NEW k \in 1 .. t.scrollback_count
        PROVE  n[k] = u.scrollback_buffer[Slot(k)]
    <3>1. CASE k = t.scrollback_count
      <4> HIDE DEF Slot
      <4> QED
        BY <1>3, <1>5, <1>6, <2>2, <3>1
    <3>2. CASE k # t.scrollback_count
      <4>1. k + 1 \in 1 .. t.scrollback_count /\ k \in Nat /\ k > 0
            /\ k < t.scrollback_count /\ k + 1 - 1 = k
        BY <1>1, <3>2
      <4> HIDE DEF Slot
      <4>2. u.scrollback_buffer[Slot(k)] = t.scrollback_buffer[Slot(k)]
        BY <1>7, <1>9, <4>1
      <4>3. h[k + 1] = t.scrollback_buffer[Slot(k)]
        BY <1>4, <4>1
      <4> QED
        BY <1>3, <2>2, <4>1, <4>2, <4>3
    <3> QED
      BY <3>1, <3>2
  <2>5. ASSUME NEW k \in 1 .. t.scrollback_count
        PROVE  (u.scrollback_head + k - 1) % SCROLLBACK_LINES = Slot(k)
    <3> DEFINE a == t.scrollback_head + 1
               b == k - 1
    <3>1. a \in Nat /\ b \in Nat /\ a + b = t.scrollback_head + k
      BY <1>1
    <3>2. ((a % SCROLLBACK_LINES) + b) % SCROLLBACK_LINES = (a + b) % SCROLLBACK_LINES
      <4> HIDE DEF a, b
      <4> QED
        BY <1>1, <3>1, ModAdd
    <3>3. a % SCROLLBACK_LINES = u.scrollback_head /\ u.scrollback_head \in Nat
      BY <2>3 DEF Terminals, Slots
    <3>4. u.scrollback_head + k - 1 = u.scrollback_head + b
      BY <3>3
    <3> QED
      BY <3>1, <3>2, <3>3, <3>4
  <2>6. ASSUME NEW k \in 1 .. Len(n)
        PROVE  n[k] = u.scrollback_buffer[(u.scrollback_head + k - 1) % SCROLLBACK_LINES]
    <3>1. k \in 1 .. t.scrollback_count
      BY <2>2
    <3> HIDE DEF Slot
    <3> QED
      BY <2>4, <2>5, <3>1
  <2>7. Holds(u, n)
    BY <2>2, <2>3, <2>6 DEF Holds
  <2> QED
    BY <2>1, <2>7 DEF g
<1> QED
  BY <1>1, <1>8, <1>9 DEF g

-----------------------------------------------------------------------------
(* The view.                                                               *)

\* The slot of every row that refresh_from_scrollback copies is one of the ring.
LEMMA ShownSlotType ==
  ASSUME NEW t \in Terminals, NEW y \in Rows
  PROVE  ShownSlot(t, y) \in Slots
<1>1. SizeMod \in Nat /\ SizeMod > 0 /\ y \in Nat /\ t.scrollback_head \in Nat
  BY TerminalAssumption, ScreenSize DEF Rows, Terminals, Slots
<1>2. (IF t.view_offset < VGA_HEIGHT THEN LinesToShow(t) ELSE t.view_offset) \in Int
  BY ScreenSize DEF LinesToShow, Terminals
<1>3. StartLine(t) \in Nat
  BY <1>1, <1>2 DEF StartLine, Terminals
<1>4. (t.scrollback_head + StartLine(t) + y) % SizeMod \in Nat
  BY <1>1, <1>3
<1> QED
  BY <1>4, SlotType DEF ShownSlot

\* refresh_from_scrollback changes the screen only.
LEMMA RefreshEffect ==
  ASSUME NEW t \in Terminals
  PROVE  LET u == refresh_from_scrollback(t)
         IN  /\ u \in Terminals
             /\ SameHistory(t, u) /\ SameView(t, u)
             /\ u.cursor_x = t.cursor_x /\ u.cursor_y = t.cursor_y
             /\ u.framebuffer =
                  [y \in Rows |->
                     IF y < LinesToShow(t) /\ y < t.scrollback_count
                     THEN t.scrollback_buffer[ShownSlot(t, y)] ELSE BlankLine]
<1> DEFINE screen == [y \in Rows |->
                        IF y < LinesToShow(t) /\ y < t.scrollback_count
                        THEN t.scrollback_buffer[ShownSlot(t, y)] ELSE BlankLine]
           u == [t EXCEPT !.framebuffer = screen]
<1>1. screen \in [Rows -> Line]
  <2>1. t.scrollback_buffer \in [Slots -> Line]
    BY DEF Terminals
  <2> QED
    BY <2>1, ShownSlotType, BlankScreenType
<1>2. refresh_from_scrollback(t) = u
  BY DEF refresh_from_scrollback
<1>3. u.framebuffer = screen
  BY DEF Terminals
<1> HIDE DEF screen
<1>4. /\ u \in Terminals
      /\ SameHistory(t, u) /\ SameView(t, u)
      /\ u.cursor_x = t.cursor_x /\ u.cursor_y = t.cursor_y
  BY <1>1 DEF Terminals, SameHistory, SameView
<1> QED
  BY <1>2, <1>3, <1>4 DEF screen

\* A full view that lies within the history: the row shows its line of the history.  The
\* subtraction in start_line does not go below 0, nor the sum of the slot beyond SizeMod.
LEMMA RefreshShows ==
  ASSUME NEW t \in Terminals, NEW h, Holds(t, h), VGA_HEIGHT <= t.view_offset,
         t.view_offset <= t.scrollback_count, t.scrollback_count <= SCROLLBACK_LINES,
         NEW y \in Rows
  PROVE  refresh_from_scrollback(t).framebuffer[y] = h[Len(h) - t.view_offset + y + 1]
<1> DEFINE d == t.scrollback_count - t.view_offset
           k == d + y + 1
<1>1. /\ y \in Nat /\ y < VGA_HEIGHT /\ VGA_HEIGHT \in Nat
      /\ t.scrollback_head \in Nat /\ t.scrollback_head < SCROLLBACK_LINES
      /\ t.scrollback_count \in Nat /\ t.view_offset \in Nat /\ SCROLLBACK_LINES \in Nat
      /\ SizeMod \in Nat /\ SizeMod > VGA_HEIGHT + 2 * SCROLLBACK_LINES
  BY TerminalAssumption, ScreenSize DEF Terminals, Rows, Slots
<1>2. d \in Nat /\ d <= SCROLLBACK_LINES /\ k \in 1 .. t.scrollback_count
      /\ y < t.scrollback_count
  BY <1>1
<1>3. LinesToShow(t) = VGA_HEIGHT
  BY <1>1 DEF LinesToShow
<1>4. StartLine(t) = d
  <2>1. StartLine(t) = d % SizeMod
    BY <1>1 DEF StartLine
  <2>2. d < SizeMod
    BY <1>1, <1>2
  <2> HIDE DEF d
  <2> QED
    BY <1>1, <1>2, <2>1, <2>2
<1>5. ShownSlot(t, y) = (t.scrollback_head + k - 1) % SCROLLBACK_LINES
  <2> DEFINE a == t.scrollback_head + d + y
  <2>1. a \in Nat /\ a < SizeMod /\ a = t.scrollback_head + k - 1
    BY <1>1, <1>2
  <2>2. ShownSlot(t, y) = (a % SizeMod) % SCROLLBACK_LINES
    BY <1>4 DEF ShownSlot
  <2> HIDE DEF a, k
  <2>3. a % SizeMod = a
    BY <1>1, <2>1
  <2> QED
    BY <2>1, <2>2, <2>3
<1>6. refresh_from_scrollback(t).framebuffer[y] = t.scrollback_buffer[ShownSlot(t, y)]
  BY <1>1, <1>2, <1>3, RefreshEffect
<1>7. Len(h) = t.scrollback_count
  BY DEF Holds
<1>8. h[k] = t.scrollback_buffer[(t.scrollback_head + k - 1) % SCROLLBACK_LINES]
  <2> HIDE DEF k
  <2> QED
    BY <1>2, <1>7 DEF Holds
<1>9. Len(h) - t.view_offset + y + 1 = k
  BY <1>1, <1>7
<1> QED
  BY <1>5, <1>6, <1>8, <1>9

-----------------------------------------------------------------------------
(* The calls.                                                              *)

\* All of Sound but for the hardware cursor.
Placed(t) ==
  /\ t \in Terminals
  /\ t.cursor_x < VGA_WIDTH /\ t.cursor_y < VGA_HEIGHT
  /\ t.scrollback_count <= SCROLLBACK_LINES
  /\ t.view_offset <= t.scrollback_count
  /\ t.view_offset > 0 => t.in_scrollback_mode

\* Every call ends with update_hardware_cursor.
LEMMA UpdateIsGood ==
  ASSUME NEW t, NEW h, Placed(t), Holds(t, h), Shows(t, h)
  PROVE  Good(update_hardware_cursor(t), h)
<1> DEFINE u == update_hardware_cursor(t)
<1>1. t \in Terminals
  BY DEF Placed
<1>2. /\ u \in Terminals
      /\ SameHistory(t, u) /\ SameView(t, u)
      /\ u.cursor_x = t.cursor_x /\ u.cursor_y = t.cursor_y
      /\ u.framebuffer = t.framebuffer
      /\ u.hardware_cursor = CursorPosition(u)
  BY <1>1, UpdateCursorEffect
<1> HIDE DEF u
<1>3. Holds(u, h)
  BY <1>1, <1>2, HoldsSame
<1>4. Shows(u, h)
  BY <1>2 DEF Shows, SameView
<1>5. Sound(u)
  BY <1>2 DEF Sound, Placed, SameHistory, SameView
<1> QED
  BY <1>3, <1>4, <1>5 DEF Good, u

LEMMA ClearIsGood ==
  ASSUME NEW t \in Terminals, NEW h, Holds(t, h),
         t.scrollback_count <= SCROLLBACK_LINES, t.view_offset <= t.scrollback_count,
         t.view_offset > 0 => t.in_scrollback_mode
  PROVE  Good(terminal_clear(t), h) /\ Good(update_hardware_cursor(terminal_clear(t)), h)
<1> DEFINE u == terminal_clear(t)
<1>1. /\ u \in Terminals
      /\ SameHistory(t, u) /\ SameView(t, u)
      /\ u.cursor_x = 0 /\ u.cursor_y = 0
      /\ u.framebuffer = BlankScreen
      /\ u.hardware_cursor = CursorPosition(u)
  BY ClearEffect
<1> HIDE DEF u
<1>2. Holds(u, h)
  BY <1>1, HoldsSame
<1>3. Shows(u, h)
  BY <1>1 DEF Shows
<1>4. Placed(u)
  BY <1>1, ScreenSize DEF Placed, SameHistory, SameView
<1>5. Good(u, h)
  BY <1>1, <1>2, <1>3, <1>4 DEF Good, Sound, Placed
<1>6. Good(update_hardware_cursor(u), h)
  BY <1>2, <1>3, <1>4, UpdateIsGood
<1> QED
  BY <1>5, <1>6 DEF u

\* Another view of the same history.
WithView(t, offset, mode) == [t EXCEPT !.view_offset = offset, !.in_scrollback_mode = mode]

LEMMA WithViewEffect ==
  ASSUME NEW t \in Terminals, NEW offset \in Nat, NEW mode \in BOOLEAN
  PROVE  LET u == WithView(t, offset, mode)
         IN  /\ u \in Terminals
             /\ SameHistory(t, u)
             /\ u.view_offset = offset /\ u.in_scrollback_mode = mode
             /\ u.cursor_x = t.cursor_x /\ u.cursor_y = t.cursor_y
BY DEF WithView, Terminals, SameHistory

\* The three calls that move the view copy the history to the screen.
LEMMA ViewIsGood ==
  ASSUME NEW t, NEW h, Good(t, h), NEW offset \in Nat, NEW mode \in BOOLEAN,
         offset <= t.scrollback_count, offset > 0 => mode
  PROVE  Good(update_hardware_cursor(refresh_from_scrollback(WithView(t, offset, mode))), h)
<1> DEFINE v == WithView(t, offset, mode)
           u == refresh_from_scrollback(v)
<1>1. /\ t \in Terminals /\ Holds(t, h)
      /\ t.cursor_x < VGA_WIDTH /\ t.cursor_y < VGA_HEIGHT
      /\ t.scrollback_count <= SCROLLBACK_LINES
  BY DEF Good, Sound
<1>2. /\ v \in Terminals
      /\ SameHistory(t, v)
      /\ v.view_offset = offset /\ v.in_scrollback_mode = mode
      /\ v.cursor_x = t.cursor_x /\ v.cursor_y = t.cursor_y
  BY <1>1, WithViewEffect
<1> HIDE DEF v
<1>3. /\ u \in Terminals
      /\ SameHistory(v, u) /\ SameView(v, u)
      /\ u.cursor_x = v.cursor_x /\ u.cursor_y = v.cursor_y
  BY <1>2, RefreshEffect
<1>4. Holds(v, h)
  BY <1>1, <1>2, HoldsSame
<1>5. Holds(u, h)
  BY <1>2, <1>3, <1>4, HoldsSame
<1>6. ASSUME v.view_offset >= VGA_HEIGHT
      PROVE  \A y \in Rows : u.framebuffer[y] = h[Len(h) - v.view_offset + y + 1]
  <2>1. v.scrollback_count = t.scrollback_count
    BY <1>2 DEF SameHistory
  <2>2. VGA_HEIGHT <= v.view_offset
    BY <1>6, <1>2, ScreenSize
  <2> QED
    BY <1>1, <1>2, <1>4, <2>1, <2>2, RefreshShows
<1> HIDE DEF u
<1>7. Shows(u, h)
  BY <1>3, <1>6 DEF Shows, SameView
<1>8. Placed(u)
  BY <1>1, <1>2, <1>3 DEF Placed, SameHistory, SameView
<1> QED
  BY <1>5, <1>7, <1>8, UpdateIsGood DEF u, v

LEMMA PutcharIsGood ==
  ASSUME NEW t, NEW h, Good(t, h), NEW c \in Chars
  PROVE  LET w == Written(t, c)
         IN  Good(terminal_putchar(t, c),
                  IF w.cursor_y < VGA_HEIGHT THEN h ELSE Newest(Append(h, w.framebuffer[0])))
<1> DEFINE w == Written(t, c)
           u == terminal_putchar(t, c)
           g == IF w.cursor_y < VGA_HEIGHT THEN h ELSE Newest(Append(h, w.framebuffer[0]))
<1>1. /\ t \in Terminals /\ Holds(t, h)
      /\ t.scrollback_count \in Nat /\ t.scrollback_count <= SCROLLBACK_LINES
      /\ t.view_offset \in Nat
      /\ t.view_offset > 0 => t.in_scrollback_mode
  BY DEF Good, Sound, Terminals
<1>2. /\ u \in Terminals
      /\ u.in_scrollback_mode = FALSE
      /\ u.view_offset = IF t.in_scrollback_mode THEN 0 ELSE t.view_offset
      /\ u.cursor_x < VGA_WIDTH /\ u.cursor_y < VGA_HEIGHT
      /\ u.hardware_cursor = CursorPosition(u)
      /\ w.framebuffer[0] \in Line
      /\ IF w.cursor_y < VGA_HEIGHT THEN SameHistory(t, u)
         ELSE Saved(t, u, w.framebuffer[0])
  BY <1>1, PutcharEffect
<1> HIDE DEF u, w
<1>3. u.view_offset = 0
  BY <1>1, <1>2
<1>4. Holds(u, g)
  <2>1. CASE w.cursor_y < VGA_HEIGHT
    BY <1>1, <1>2, <2>1, HoldsSame
  <2>2. CASE ~ (w.cursor_y < VGA_HEIGHT)
    BY <1>1, <1>2, <2>2, SavedHolds
  <2> QED
    BY <2>1, <2>2
<1> HIDE DEF g
<1>5. u.scrollback_count \in Nat /\ u.scrollback_count <= SCROLLBACK_LINES
  BY <1>1, <1>2, ScreenSize DEF Saved, SameHistory
<1>6. Sound(u)
  BY <1>2, <1>3, <1>5 DEF Sound
<1>7. Shows(u, g)
  BY <1>2 DEF Shows
<1> QED
  BY <1>4, <1>6, <1>7 DEF Good, g, u, w

-----------------------------------------------------------------------------
(* The theorems.                                                           *)

LEMMA InitIsGood == Init => IInv
<1> DEFINE t == [ framebuffer |-> BlankScreen, cursor_x |-> 0, cursor_y |-> 0,
                  scrollback_buffer |-> [s \in Slots |-> [x \in Cols |-> Nul]],
                  scrollback_head |-> 0, scrollback_count |-> 0, view_offset |-> 0,
                  cursor_visible |-> TRUE, in_scrollback_mode |-> FALSE,
                  hardware_cursor |-> 0 ]
<1>1. SUFFICES ASSUME Init PROVE IInv
  OBVIOUS
<1>2. t \in Terminals
  <2>1. [x \in Cols |-> Nul] \in Line
    BY DEF Line
  <2>2. 0 \in Slots
    BY ScreenSize DEF Slots
  <2> QED
    BY <2>1, <2>2, BlankScreenType DEF Terminals
<1>3. Placed(t) /\ Shows(t, << >>)
  BY <1>2, ScreenSize DEF Placed, Shows
<1>4. Holds(t, << >>)
  <2>1. << >> \in Seq(Line) /\ Len(<< >>) = 0
    OBVIOUS
  <2> QED
    BY <2>1 DEF Holds
<1>5. term = update_hardware_cursor(t) /\ history = << >>
  BY <1>1 DEF Init, terminal_init
<1> HIDE DEF t
<1> QED
  BY <1>3, <1>4, <1>5, UpdateIsGood DEF IInv

LEMMA NextIsGood == IInv /\ [Next]_vars => IInv'
<1>1. SUFFICES ASSUME Good(term, history), [Next]_vars
               PROVE  Good(term', history')
  BY DEF IInv
<1>2. /\ term \in Terminals /\ Holds(term, history)
      /\ term.scrollback_count \in Nat /\ term.scrollback_count <= SCROLLBACK_LINES
      /\ term.view_offset \in Nat /\ term.view_offset <= term.scrollback_count
      /\ term.view_offset > 0 => term.in_scrollback_mode
  BY <1>1 DEF Good, Sound, Terminals
<1>3. ASSUME NEW c \in Chars, Putchar(c)
      PROVE  Good(term', history')
  BY <1>1, <1>3, PutcharIsGood DEF Putchar
<1>4. ASSUME NEW lines \in 1 .. VGA_HEIGHT, Scrollup(lines)
      PROVE  Good(term', history')
  <2> DEFINE offset == IF term.view_offset + lines > term.scrollback_count
                       THEN term.scrollback_count ELSE term.view_offset + lines
             mode == offset > 0
  <2>1. offset \in Nat /\ mode \in BOOLEAN /\ offset <= term.scrollback_count
    BY <1>2
  <2>2. term' = update_hardware_cursor(refresh_from_scrollback(WithView(term, offset, mode)))
        /\ history' = history
    BY <1>4 DEF Scrollup, terminal_scrollup, WithView
  <2>3. offset > 0 => mode
    OBVIOUS
  <2> HIDE DEF offset, mode
  <2> QED
    BY <1>1, <2>1, <2>2, <2>3, ViewIsGood
<1>5. ASSUME NEW lines \in 1 .. VGA_HEIGHT, Scrolldown(lines)
      PROVE  Good(term', history')
  <2> DEFINE offset == IF term.view_offset >= lines THEN term.view_offset - lines ELSE 0
             mode == offset > 0
             v == WithView(term, offset, mode)
  <2>1. offset \in Nat /\ mode \in BOOLEAN /\ offset <= term.scrollback_count
    BY <1>2
  <2>2. /\ term' = update_hardware_cursor(
                     IF offset > 0 THEN refresh_from_scrollback(v) ELSE terminal_clear(v))
        /\ history' = history
    BY <1>5 DEF Scrolldown, terminal_scrolldown, WithView
  <2>3. offset > 0 => mode
    OBVIOUS
  <2> HIDE DEF offset, mode
  <2>4. Good(update_hardware_cursor(refresh_from_scrollback(v)), history)
    BY <1>1, <2>1, <2>3, ViewIsGood
  <2>5. /\ v \in Terminals
        /\ SameHistory(term, v)
        /\ v.view_offset = offset /\ v.in_scrollback_mode = mode
    BY <1>2, <2>1, WithViewEffect
  <2>6. Good(update_hardware_cursor(terminal_clear(v)), history)
    <3>1. Holds(v, history)
      BY <1>2, <2>5, HoldsSame
    <3>2. v.scrollback_count = term.scrollback_count
      BY <2>5 DEF SameHistory
    <3> QED
      BY <1>2, <2>1, <2>3, <2>5, <3>1, <3>2, ClearIsGood
  <2> QED
    BY <2>2, <2>4, <2>6
<1>6. CASE Scrolltop
  <2>1. term' = update_hardware_cursor(refresh_from_scrollback(
                  WithView(term, term.scrollback_count, TRUE)))
        /\ history' = history
    BY <1>6 DEF Scrolltop, terminal_scrolltop, WithView
  <2>2. term.scrollback_count <= term.scrollback_count /\ TRUE \in BOOLEAN
    BY <1>2
  <2> QED
    BY <1>1, <1>2, <2>1, <2>2, ViewIsGood
<1>7. CASE Scrollbottom
  <2> DEFINE v == WithView(term, 0, FALSE)
  <2>1. term' = update_hardware_cursor(terminal_clear(v)) /\ history' = history
    BY <1>7 DEF Scrollbottom, terminal_scrollbottom, WithView
  <2>2. /\ v \in Terminals
        /\ SameHistory(term, v)
        /\ v.view_offset = 0
    BY <1>2, WithViewEffect
  <2> HIDE DEF v
  <2>3. Holds(v, history) /\ v.scrollback_count = term.scrollback_count
    BY <1>2, <2>2, HoldsSame DEF SameHistory
  <2> QED
    BY <1>2, <2>1, <2>2, <2>3, ClearIsGood
<1>8. CASE Clear
  BY <1>2, <1>8, ClearIsGood DEF Clear
<1>9. ASSUME NEW x \in 0 .. VGA_WIDTH, NEW y \in 0 .. VGA_HEIGHT, Setcursor(x, y)
      PROVE  Good(term', history')
  <2>1. CASE ~ (x < VGA_WIDTH /\ y < VGA_HEIGHT)
    BY <1>1, <1>9, <2>1 DEF Setcursor, terminal_setcursor
  <2>2. CASE x < VGA_WIDTH /\ y < VGA_HEIGHT
    <3> DEFINE v == [term EXCEPT !.cursor_x = x, !.cursor_y = y]
    <3>1. term' = update_hardware_cursor(v) /\ history' = history
      BY <1>9, <2>2 DEF Setcursor, terminal_setcursor
    <3>2. /\ v \in Terminals /\ v.cursor_x = x /\ v.cursor_y = y
          /\ SameHistory(term, v) /\ SameView(term, v) /\ v.framebuffer = term.framebuffer
      <4>1. x \in Nat /\ y \in Nat
        BY ScreenSize
      <4> QED
        BY <1>2, <4>1 DEF Terminals, SameHistory, SameView
    <3> HIDE DEF v
    <3>3. Holds(v, history)
      BY <1>2, <3>2, HoldsSame
    <3>4. Shows(v, history)
      BY <1>1, <3>2 DEF Shows, SameView, Good
    <3>5. Placed(v)
      BY <1>2, <2>2, <3>2 DEF Placed, SameHistory, SameView
    <3> QED
      BY <3>1, <3>3, <3>4, <3>5, UpdateIsGood
  <2> QED
    BY <2>1, <2>2
<1>10. ASSUME NEW show \in BOOLEAN, Showcursor(show)
       PROVE  Good(term', history')
  <2> DEFINE v == [term EXCEPT !.cursor_visible = show]
  <2>1. term' = update_hardware_cursor(v) /\ history' = history
    BY <1>10 DEF Showcursor, terminal_showcursor
  <2>2. /\ v \in Terminals /\ v.cursor_x = term.cursor_x /\ v.cursor_y = term.cursor_y
        /\ SameHistory(term, v) /\ v.framebuffer = term.framebuffer
        /\ v.view_offset = term.view_offset
        /\ v.in_scrollback_mode = term.in_scrollback_mode
    BY <1>2 DEF Terminals, SameHistory
  <2> HIDE DEF v
  <2>3. Holds(v, history)
    BY <1>2, <2>2, HoldsSame
  <2>4. Shows(v, history)
    BY <1>1, <2>2 DEF Shows, Good
  <2>5. Placed(v)
    BY <1>1, <1>2, <2>2 DEF Placed, SameHistory, Good, Sound
  <2> QED
    BY <2>1, <2>3, <2>4, <2>5, UpdateIsGood
<1>11. CASE UNCHANGED vars
  BY <1>1, <1>11 DEF vars
<1> QED
  BY <1>1, <1>3, <1>4, <1>5, <1>6, <1>7, <1>8, <1>9, <1>10, <1>11 DEF Next

\* The invariant: the cursor is on the screen, the view within the history, the ring
\* is the history, a full view shows it, and the hardware cursor is up to date.
THEOREM ViewInvariant == Spec => []IInv
BY InitIsGood, NextIsGood, PTL DEF Spec

LEMMA InvariantImplies ==
  ASSUME IInv
  PROVE  TypeOK /\ ScrollbackHoldsLastLines /\ FullViewIsHistoryWindow /\ HardwareCursorFollows
<1>1. Sound(term) /\ Holds(term, history) /\ Shows(term, history)
  BY DEF IInv, Good
<1>2. /\ term \in Terminals
      /\ term.cursor_x \in Cols /\ term.cursor_y \in Rows
      /\ term.scrollback_count \in 0 .. SCROLLBACK_LINES
      /\ term.view_offset \in 0 .. SCROLLBACK_LINES
      /\ term.view_offset <= term.scrollback_count
      /\ term.view_offset > 0 => term.in_scrollback_mode
      /\ term.hardware_cursor = CursorPosition(term)
  BY <1>1, ScreenSize DEF Sound, Terminals, Cols, Rows
<1>3. TypeOK
  <2>1. CellIndex(term.cursor_x, term.cursor_y) \in 0 .. OffScreen
    <3>1. term.cursor_x \in Nat /\ term.cursor_y \in Nat
      BY <1>2 DEF Terminals
    <3>2. term.cursor_x < VGA_WIDTH /\ term.cursor_y < VGA_HEIGHT
      BY <1>1 DEF Sound
    <3> DEFINE n == CellIndex(term.cursor_x, term.cursor_y)
    <3>3. n \in Nat /\ n < OffScreen
      BY <3>1, <3>2, IndexOfCell
    <3> HIDE DEF n
    <3>4. n \in 0 .. OffScreen
      BY <3>3, ScreenSize
    <3> QED
      BY <3>4 DEF n
  <2>2. term.hardware_cursor \in 0 .. OffScreen
    BY <1>2, <2>1, ScreenSize DEF CursorPosition
  <2>3. history \in Seq(Line)
    BY <1>1 DEF Holds
  <2> QED
    BY <1>2, <2>2, <2>3 DEF TypeOK, Terminals
<1>4. ScrollbackHoldsLastLines
  BY <1>1 DEF Holds, ScrollbackHoldsLastLines
<1>5. FullViewIsHistoryWindow
  BY <1>1, <1>2 DEF Holds, Shows, FullViewIsHistoryWindow
<1>6. HardwareCursorFollows
  BY <1>2 DEF HardwareCursorFollows, CursorPosition
<1> QED
  BY <1>3, <1>4, <1>5, <1>6

\* Between calls the cursor is on the screen: every store of terminal_putchar that its
\* place decides is into the framebuffer.
THEOREM TerminalTypeCorrect == Spec => []TypeOK
BY ViewInvariant, InvariantImplies, PTL

\* The ring holds the last SCROLLBACK_LINES lines that were scrolled off the screen,
\* oldest first from its head, however often it has wrapped around.
THEOREM ScrollbackKept == Spec => []ScrollbackHoldsLastLines
BY ViewInvariant, InvariantImplies, PTL

\* Scrolled back by a screen or more, the screen shows the lines of the history that
\* view_offset says, or nothing after terminal_clear.
THEOREM ViewCorrect == Spec => []FullViewIsHistoryWindow
BY ViewInvariant, InvariantImplies, PTL

\* The hardware cursor is where the next character goes, and hidden while history is shown.
THEOREM CursorCorrect == Spec => []HardwareCursorFollows
BY ViewInvariant, InvariantImplies, PTL
=============================================================================
