-------------------------- MODULE InterruptsProofs --------------------------
(***************************************************************************)
(* Proofs about Interrupts, for every table of keys, every set of lines    *)
(* and faults and every width of a descriptor's fields: no interrupt finds *)
(* its gate missing, its frame shifted, its segments changed, another      *)
(* line in service or its byte already read.                               *)
(***************************************************************************)
EXTENDS Interrupts, TLAPS

-----------------------------------------------------------------------------
(* The inductive invariant.                                                *)

Put(port, byte) == <<port, byte>>

TypeInv ==
  /\ pc \in {"init_gdt", "memset", "exception_gates", "irq_gates", "lidt", "clear_mask",
             "sti", "run"}
  /\ writes \in Seq(Write)
  /\ idt_loaded \in BOOLEAN /\ if_flag \in BOOLEAN
  /\ mode \in {"running", "halted"}
  /\ handler \in {"none", "entered", "returning"}
  /\ pics \in [master : Controller, slave : Controller]
  /\ kbd \in Modifiers
  /\ queue \in Seq(Scancodes) /\ obf \in BOOLEAN /\ deaf \in BOOLEAN
  /\ sent \in Modifiers

\* The phase of the master after n writes of pic_remap; the slave is one write behind.
PhaseAfter(n) ==
  IF n \in {1, 2} THEN "icw2"
  ELSE IF n \in {3, 4} THEN "icw3"
  ELSE IF n \in {5, 6} THEN "icw4" ELSE "ready"

\* How far the writes of pic_remap have got.
Remapping(n) ==
  /\ Len(writes) = 10 - n
  /\ \A k \in 1 .. Len(writes) : writes[k] = pic_remap(32, 40)[n + k]
  /\ n >= 1 => pics.master.phase = PhaseAfter(n)
  /\ n >= 2 => pics.slave.phase = PhaseAfter(n - 1)
  /\ n >= 3 => pics.master.base = 32
  /\ n >= 4 => pics.slave.base = 40

\* Interrupts and handlers come after init_idt.
BootInv ==
  /\ if_flag \/ handler # "none" => pc = "run"
  /\ pc \in {"init_gdt", "memset", "irq_gates", "lidt", "clear_mask"} => writes = << >>
  /\ pc = "exception_gates" => \E n \in 0 .. 10 : Remapping(n)
  /\ pc = "sti" => writes = << >> \/ \E byte \in Bytes : writes = << Put(PIC1_DATA, byte) >>
  /\ pc = "run" /\ handler = "none" => writes = << >>
  /\ pc \in {"irq_gates", "lidt", "clear_mask", "sti", "run"} =>
       /\ pics.master.phase = "ready" /\ pics.master.base = 32
       /\ pics.slave.phase = "ready" /\ pics.slave.base = 40

GateInv ==
  /\ DOMAIN gates \subseteq 0 .. 47
  /\ pc \in {"irq_gates", "lidt", "clear_mask", "sti", "run"} =>
       \A v \in 0 .. 31 : v \in DOMAIN gates /\ gates[v] = v
  /\ pc \in {"lidt", "clear_mask", "sti", "run"} =>
       \A v \in 32 .. 47 : v \in DOMAIN gates /\ gates[v] = v
  /\ pc \in {"clear_mask", "sti", "run"} => idt_loaded

SegmentInv ==
  pc # "init_gdt" => gdt = init_gdt /\ segs = [cs |-> 8, ds |-> 16, tr |-> 43]

\* What the words on the stack can be.
Words ==
  {"eflags", "cs", "eip", "error_code", "interrupt_num", "eax", "ecx", "edx", "ebx", "esp",
   "ebp", "esi", "edi", "ds"} \X Int

\* A frame on the stack, with the kernel's selectors, and the number in it.
Framed ==
  /\ stack \in Seq(Words) /\ Len(stack) = 14
  /\ \A k \in 1 .. 14 : stack[k][1] = FrameFields[15 - k]
  /\ stack[2][2] = 8 /\ stack[14][2] = 16

Number == stack[5][2]

\* The line of an interrupt is in service, on both controllers for the slave's.
InService(n) ==
  IF n < 40
  THEN /\ pics.slave.isr = {}
       /\ pics.master.isr = {n - 32} \/ (n = 39 /\ pics.master.isr = {})
  ELSE /\ pics.master.isr = {CASCADE_IRQ}
       /\ pics.slave.isr = {n - 40} \/ (n = 47 /\ pics.slave.isr = {})

NoneInService == pics.master.isr = {} /\ pics.slave.isr = {}

Eoi(port) == Put(port, PIC_EOI)

\* A handler that returns acknowledges at the slave first, then at the master.
Acknowledging(n) ==
  \/ writes = << >> /\ NoneInService
  \/ writes = <<Eoi(PIC1_COMMAND)>> /\ n < 40 /\ InService(n)
  \/ /\ writes = <<Eoi(PIC1_COMMAND)>> /\ n >= 40
     /\ pics.master.isr = {CASCADE_IRQ} /\ pics.slave.isr = {}
  \/ writes = <<Eoi(PIC2_COMMAND), Eoi(PIC1_COMMAND)>> /\ n >= 40 /\ InService(n)

HandlerInv ==
  /\ handler = "none" => stack = << >> /\ NoneInService
  /\ handler # "none" => ~ if_flag /\ Framed /\ Number \in 0 .. 47
  /\ handler = "entered" => writes = << >> /\ (Number >= 32 => InService(Number))
  /\ handler = "returning" => Number >= 32 /\ Acknowledging(Number)

\* A byte that waits has its request latched, or a handler about to read it.
InKeyboardHandler == handler = "entered" /\ Number = KEYBOARD

KeyboardInv ==
  /\ CASCADE_IRQ \notin pics.master.irr
  /\ 1 \in pics.master.irr => obf
  /\ obf => queue # << >>
  /\ InKeyboardHandler => obf /\ 1 \notin pics.master.irr
  /\ obf /\ ~ deaf => 1 \in pics.master.irr \/ InKeyboardHandler

\* The modifiers e[i] after i bytes of the queue q lead from one value to another.
Path(e, q, from, to) ==
  /\ e[0] = from /\ e[Len(q)] = to
  /\ \A i \in 1 .. Len(q) : e[i] = Meaning(e[i - 1], q[i])

Leads(q, from, to) == \E e \in [0 .. Len(q) -> Modifiers] : Path(e, q, from, to)

\* The bytes not yet read will make of the modifiers what all bytes sent stand for.
ModifiersInv == Leads(queue, kbd, sent)

IInv ==
  /\ TypeInv /\ BootInv /\ GateInv /\ SegmentInv /\ HandlerInv /\ KeyboardInv /\ ModifiersInv

-----------------------------------------------------------------------------
(* The controllers.                                                        *)

LEMMA MinOfLines ==
  ASSUME NEW S \in SUBSET Lines, S # {}
  PROVE  Min(S) \in S
<1> DEFINE Least(x) == x \in S /\ \A y \in S : x <= y
<1>1. S \subseteq {0, 1, 2, 3, 4, 5, 6, 7}
  BY DEF Lines
<1>2. 0 \in S => Least(0)
  BY <1>1
<1>3. 0 \notin S /\ 1 \in S => Least(1)
  BY <1>1
<1>4. 0 \notin S /\ 1 \notin S /\ 2 \in S => Least(2)
  BY <1>1
<1>5. S \intersect {0, 1, 2} = {} /\ 3 \in S => Least(3)
  BY <1>1
<1>6. S \intersect {0, 1, 2, 3} = {} /\ 4 \in S => Least(4)
  BY <1>1
<1>7. S \intersect {0, 1, 2, 3, 4} = {} /\ 5 \in S => Least(5)
  BY <1>1
<1>8. S \intersect {0, 1, 2, 3, 4, 5} = {} /\ 6 \in S => Least(6)
  BY <1>1
<1>9. S \intersect {0, 1, 2, 3, 4, 5, 6} = {} => Least(7)
  <2>1. SUFFICES ASSUME S \intersect {0, 1, 2, 3, 4, 5, 6} = {} PROVE Least(7)
    OBVIOUS
  <2>2. \A y \in S : y = 7
    BY <1>1, <2>1
  <2> QED
    BY <2>2
<1> HIDE DEF Least
<1>10. \E x : Least(x)
  BY <1>2, <1>3, <1>4, <1>5, <1>6, <1>7, <1>8, <1>9
<1>11. \E x \in S : \A y \in S : x <= y
  BY <1>10 DEF Least
<1> QED
  BY <1>11 DEF Min

LEMMA BitsAreLines == \A byte : Bits(byte) \in SUBSET Lines
BY DEF Bits

LEMMA ByteType == \A lines : Byte(lines) \in 0 .. 255
<1>1. TAKE lines
<1> DEFINE Bit(b) == IF b \in lines THEN Weight[b + 1] ELSE 0
<1>2. /\ Bit(0) \in 0 .. 1 /\ Bit(1) \in 0 .. 2 /\ Bit(2) \in 0 .. 4 /\ Bit(3) \in 0 .. 8
      /\ Bit(4) \in 0 .. 16 /\ Bit(5) \in 0 .. 32 /\ Bit(6) \in 0 .. 64 /\ Bit(7) \in 0 .. 128
  BY DEF Weight
<1> HIDE DEF Bit
<1>3. Bit(0) + Bit(1) + Bit(2) + Bit(3) \in 0 .. 15
  BY <1>2
<1> DEFINE six == Bit(0) + Bit(1) + Bit(2) + Bit(3) + Bit(4) + Bit(5)
           seven == six + Bit(6)
<1>4. six \in 0 .. 63
  BY <1>2, <1>3
<1> HIDE DEF six
<1>5. seven \in 0 .. 127
  BY <1>2, <1>4
<1>6. seven + Bit(7) \in 0 .. 255
  <2> DEFINE eighth == Bit(7)
  <2>1. eighth \in 0 .. 128
    BY <1>2
  <2> HIDE DEF seven, eighth
  <2>2. seven + eighth \in 0 .. 255
    BY <1>5, <2>1
  <2> QED
    BY <2>2 DEF eighth
<1> HIDE DEF seven
<1> QED
  BY <1>6 DEF Byte, Bit, six, seven

\* An initialization word forgets everything but the base.
LEMMA CommandInit ==
  ASSUME NEW c \in Controller
  PROVE  LET d == Command(c, ICW1)
         IN  /\ d \in Controller
             /\ d.phase = "icw2" /\ d.base = c.base
             /\ d.imr = {} /\ d.irr = {} /\ d.isr = {}
BY DEF Command, Controller, Lines

\* An end of interrupt ends the only one in service.
LEMMA CommandEoi ==
  ASSUME NEW c \in Controller, NEW x, c.isr \in {{x}, {}}
  PROVE  LET d == Command(c, PIC_EOI)
         IN  /\ d \in Controller
             /\ d.phase = c.phase /\ d.base = c.base /\ d.imr = c.imr /\ d.irr = c.irr
             /\ d.isr = {}
<1>1. PIC_EOI # ICW1
  BY DEF PIC_EOI, ICW1
<1>2. CASE c.isr = {}
  BY <1>1, <1>2 DEF Command
<1>3. CASE c.isr = {x} /\ c.isr # {}
  <2>1. c.isr \in SUBSET Lines
    BY DEF Controller
  <2>2. c.isr \ {Min(c.isr)} = {}
    BY <1>3, <2>1, MinOfLines
  <2>3. Command(c, PIC_EOI) = [c EXCEPT !.isr = {}]
    BY <1>1, <1>3, <2>2 DEF Command
  <2> QED
    BY <2>3 DEF Controller
<1> QED
  BY <1>2, <1>3

\* What a byte of data does to the phase and the base.
NextPhase(phase) ==
  IF phase = "icw2" THEN "icw3" ELSE IF phase = "icw3" THEN "icw4" ELSE "ready"
BaseOf(byte) == byte - (byte % 8)
NextBase(phase, base, byte) == IF phase = "icw2" THEN BaseOf(byte) ELSE base

LEMMA BasesOfRemap == BaseOf(32) = 32 /\ BaseOf(40) = 40
BY DEF BaseOf

\* The data port: what a byte means depends on the phase.
LEMMA DataEffect ==
  ASSUME NEW c \in Controller, NEW byte \in Bytes
  PROVE  LET d == Data(c, byte)
         IN  /\ d \in Controller
             /\ d.irr = c.irr /\ d.isr = c.isr
             /\ d.phase = NextPhase(c.phase)
             /\ d.base = NextBase(c.phase, c.base, byte)
<1>1. c.phase \in {"ready", "icw2", "icw3", "icw4"}
  BY DEF Controller
<1>2. CASE c.phase = "icw2"
  <2> DEFINE base == BaseOf(byte)
  <2>1. base \in 0 .. 248
    BY DEF BaseOf, Bytes
  <2>2. Data(c, byte) = [c EXCEPT !.phase = "icw3", !.base = base]
    BY <1>2 DEF Data, BaseOf
  <2> HIDE DEF base
  <2> DEFINE d == [c EXCEPT !.phase = "icw3", !.base = base]
  <2>3. d \in Controller
    BY <2>1 DEF Controller
  <2>4. d.irr = c.irr /\ d.isr = c.isr /\ d.phase = "icw3" /\ d.base = base
    BY DEF Controller
  <2>5. NextPhase(c.phase) = "icw3" /\ NextBase(c.phase, c.base, byte) = base
    BY <1>2 DEF NextPhase, NextBase, base
  <2> QED
    BY <2>2, <2>3, <2>4, <2>5
<1>3. CASE c.phase = "icw3"
  <2>1. Data(c, byte) = [c EXCEPT !.phase = "icw4"]
    BY <1>3 DEF Data
  <2> QED
    BY <1>3, <2>1 DEF Controller, NextPhase, NextBase
<1>4. CASE c.phase = "icw4"
  <2>1. Data(c, byte) = [c EXCEPT !.phase = "ready"]
    BY <1>4 DEF Data
  <2> QED
    BY <1>4, <2>1 DEF Controller, NextPhase, NextBase
<1>5. CASE c.phase = "ready"
  <2>1. Data(c, byte) = [c EXCEPT !.imr = Bits(byte)]
    BY <1>5 DEF Data
  <2> QED
    BY <1>5, <2>1, BitsAreLines DEF Controller, NextPhase, NextBase
<1> QED
  BY <1>1, <1>2, <1>3, <1>4, <1>5

Pics == [master : Controller, slave : Controller]

\* Each port belongs to one controller.
LEMMA OutbEffect ==
  ASSUME NEW p \in Pics, NEW byte
  PROVE  /\ outb(p, Put(PIC1_COMMAND, byte)) = [p EXCEPT !.master = Command(p.master, byte)]
         /\ outb(p, Put(PIC2_COMMAND, byte)) = [p EXCEPT !.slave = Command(p.slave, byte)]
         /\ outb(p, Put(PIC1_DATA, byte)) = [p EXCEPT !.master = Data(p.master, byte)]
         /\ outb(p, Put(PIC2_DATA, byte)) = [p EXCEPT !.slave = Data(p.slave, byte)]
BY DEF outb, Put, PIC1_COMMAND, PIC2_COMMAND, PIC1_DATA, PIC2_DATA

-----------------------------------------------------------------------------
(* The segments.                                                           *)

\* Quotient and remainder are the only ones.
LEMMA EarlierPlace ==
  ASSUME NEW w \in Nat, NEW q \in Nat, NEW y \in Nat, NEW r \in Nat, NEW x \in Nat,
         r < w, q < y
  PROVE  q * w + r < y * w + x
<1>1. PICK d \in Nat : y = q + 1 + d
  <2>1. y - q - 1 \in Nat
    OBVIOUS
  <2> QED
    BY <2>1
<1>2. y * w = q * w + w + d * w
  BY <1>1
<1>3. d * w \in Nat /\ q * w \in Nat
  OBVIOUS
<1> QED
  BY <1>2, <1>3

LEMMA QuotientIs ==
  ASSUME NEW n \in Nat, NEW w \in Nat, w > 0, NEW q \in Nat, NEW r \in Nat,
         n = q * w + r, r < w
  PROVE  n \div w = q /\ n % w = r
<1> DEFINE p == n \div w
           l == n % w
<1>1. n = p * w + l /\ p \in Nat /\ l \in Nat /\ l < w
  OBVIOUS
<1> HIDE DEF p, l
<1>2. p < q => p * w + l < q * w + r
  BY <1>1, EarlierPlace
<1>3. q < p => q * w + r < p * w + l
  BY <1>1, EarlierPlace
<1>4. p = q
  BY <1>1, <1>2, <1>3
<1>5. q * w \in Nat
  OBVIOUS
<1> QED
  BY <1>1, <1>4, <1>5 DEF p, l

LEMMA Widths ==
  /\ Nibble \in Nat /\ Nibble > 1
  /\ Octet \in Nat /\ Octet > 0 /\ Octet = Nibble * Nibble
  /\ HalfWord \in Nat /\ HalfWord > 0 /\ HalfWord = Octet * Octet
  /\ Word \in Nat /\ Word = HalfWord * HalfWord
<1>1. Nibble \in Nat /\ Nibble > 1
  BY SegmentsAssumption
<1>2. Octet \in Nat /\ Octet > 0 /\ Octet = Nibble * Nibble
  BY <1>1 DEF Octet
<1>3. HalfWord \in Nat /\ HalfWord > 0 /\ HalfWord = Octet * Octet
  BY <1>2 DEF HalfWord
<1> QED
  BY <1>1, <1>2, <1>3 DEF Word

\* The CPU puts together the base that gdt_set_entry takes apart.
LEMMA BaseIsKept ==
  ASSUME NEW b \in Nat, b < Word, NEW limit, NEW access, NEW gran
  PROVE  Base(gdt_set_entry(b, limit, access, gran)) = b
<1> DEFINE q == b \div HalfWord
           l == b % HalfWord
           r == q \div Octet
           s == q % Octet
<1>1. b = q * HalfWord + l /\ q \in Nat /\ l \in Nat /\ l < HalfWord /\ q < HalfWord
  <2>1. b < HalfWord * HalfWord
    BY Widths
  <2> QED
    BY Widths, <2>1
<1> HIDE DEF q, l
<1>2. q = r * Octet + s /\ r \in Nat /\ s \in Nat /\ s < Octet /\ r < Octet
  <2>1. q < Octet * Octet
    BY <1>1, Widths
  <2> QED
    BY Widths, <1>1, <2>1
<1> HIDE DEF r, s
<1>3. s * HalfWord + l \in Nat /\ s * HalfWord + l < HalfWord * Octet
  <2>1. s * HalfWord + l < Octet * HalfWord + 0
    BY <1>1, <1>2, Widths, EarlierPlace
  <2> QED
    BY <1>1, <1>2, <2>1, Widths
<1>4. b = r * (HalfWord * Octet) + (s * HalfWord + l)
  <2>1. q * HalfWord = r * Octet * HalfWord + s * HalfWord
    BY <1>1, <1>2, Widths
  <2>2. r * Octet * HalfWord = r * (HalfWord * Octet)
    BY <1>2, Widths
  <2>3. r * (HalfWord * Octet) \in Nat /\ s * HalfWord \in Nat
    BY <1>2, Widths
  <2> QED
    BY <1>1, <2>1, <2>2, <2>3
<1>5. b \div (HalfWord * Octet) = r
  <2> DEFINE w == HalfWord * Octet
             m == s * HalfWord + l
  <2>1. w \in Nat /\ w > 0 /\ m \in Nat /\ m < w /\ b = r * w + m
    BY <1>3, <1>4, Widths
  <2> HIDE DEF w, m
  <2>2. b \div w = r
    BY <1>2, <2>1, QuotientIs
  <2> QED
    BY <2>2 DEF w
<1>6. r % Octet = r
  BY <1>2, Widths
<1>7. Base(gdt_set_entry(b, limit, access, gran)) = l + HalfWord * (s + Octet * r)
  BY <1>5, <1>6 DEF Base, gdt_set_entry, l, s, q
<1>8. HalfWord * (s + Octet * r) = q * HalfWord
  BY <1>1, <1>2, Widths
<1> QED
  BY <1>1, <1>7, <1>8, Widths

\* A limit of all addresses is the largest that the fields hold.
LEMMA FlatLimit ==
  ASSUME NEW access, NEW gran
  PROVE  Limit(gdt_set_entry(0, Word - 1, access, gran)) = HalfWord * Nibble - 1
<1>1. Word - 1 \in Nat /\ HalfWord - 1 \in Nat
      /\ Word - 1 = (HalfWord - 1) * HalfWord + (HalfWord - 1)
  BY Widths
<1>2. (Word - 1) \div HalfWord = HalfWord - 1 /\ (Word - 1) % HalfWord = HalfWord - 1
  <2> DEFINE n == Word - 1
             h == HalfWord - 1
  <2>1. n \in Nat /\ h \in Nat /\ h < HalfWord /\ n = h * HalfWord + h
    BY <1>1, Widths
  <2> HIDE DEF n, h
  <2>2. n \div HalfWord = h /\ n % HalfWord = h
    BY <2>1, Widths, QuotientIs
  <2> QED
    BY <2>2 DEF n, h
<1>3. (HalfWord - 1) % Nibble = Nibble - 1
  <2> DEFINE h == HalfWord - 1
             k == Nibble * Octet - 1
             m == Nibble - 1
  <2>1. Nibble * Octet \in Nat /\ Nibble * Octet > 0 /\ HalfWord = Nibble * Octet * Nibble
    BY Widths
  <2>2. h \in Nat /\ k \in Nat /\ m \in Nat /\ m < Nibble
    BY <2>1, Widths
  <2>3. h = k * Nibble + m
    <3>1. k * Nibble = Nibble * Octet * Nibble - Nibble
      BY <2>1, Widths
    <3> QED
      BY <2>1, <3>1, Widths
  <2> HIDE DEF h, k, m
  <2>4. h % Nibble = m
    BY <2>2, <2>3, Widths, QuotientIs
  <2> QED
    BY <2>4 DEF h, m
<1>4. Limit(gdt_set_entry(0, Word - 1, access, gran)) = (HalfWord - 1) + HalfWord * (Nibble - 1)
  BY <1>2, <1>3 DEF Limit, gdt_set_entry
<1> QED
  BY <1>4, Widths

\* The selectors name flat segments and the task segment of the table.
LEMMA SelectorsFit ==
  /\ IsFlat(init_gdt, 8, "kernel_code")
  /\ IsFlat(init_gdt, 16, "kernel_data")
  /\ Selected(init_gdt, 43).access = "task" /\ Base(Selected(init_gdt, 43)) = TssBase
<1>1. /\ 8 \div 8 = 1 /\ 8 % 8 = 0 /\ 16 \div 8 = 2 /\ 16 % 8 = 0 /\ 43 \div 8 = 5
      /\ DOMAIN init_gdt = 0 .. 5
  BY DEF init_gdt
<1>2. /\ init_gdt[1] = gdt_set_entry(0, Word - 1, "kernel_code", "pages")
      /\ init_gdt[2] = gdt_set_entry(0, Word - 1, "kernel_data", "pages")
      /\ init_gdt[5] = gdt_set_entry(TssBase, (TssBase + TssSize) % Word, "task", "bytes")
  BY DEF init_gdt, write_tss
<1>3. 0 \in Nat /\ 0 < Word /\ TssBase \in Nat /\ TssBase < Word
  BY Widths, SegmentsAssumption
<1>4. ASSUME NEW access
      PROVE  LET d == gdt_set_entry(0, Word - 1, access, "pages")
             IN  /\ d.access = access /\ Base(d) = 0
                 /\ Limit(d) = HalfWord * Nibble - 1 /\ d.granularity.flags = "pages"
  BY <1>3, BaseIsKept, FlatLimit DEF gdt_set_entry
<1>5. IsFlat(init_gdt, 8, "kernel_code")
  BY <1>1, <1>2, <1>4 DEF IsFlat, Selected
<1>6. IsFlat(init_gdt, 16, "kernel_data")
  BY <1>1, <1>2, <1>4 DEF IsFlat, Selected
<1>7. Selected(init_gdt, 43).access = "task"
  BY <1>1, <1>2 DEF Selected, gdt_set_entry
<1>8. Base(Selected(init_gdt, 43)) = TssBase
  BY <1>1, <1>2, <1>3, BaseIsKept DEF Selected
<1> QED
  BY <1>5, <1>6, <1>7, <1>8

-----------------------------------------------------------------------------
(* The stack.                                                              *)

LEMMA Joined ==
  ASSUME NEW S, NEW a \in Seq(S), NEW b \in Seq(S)
  PROVE  /\ a \o b \in Seq(S) /\ Len(a \o b) = Len(a) + Len(b)
         /\ \A k \in 1 .. Len(a) : (a \o b)[k] = a[k]
         /\ \A k \in 1 .. Len(b) : (a \o b)[Len(a) + k] = b[k]
OBVIOUS

LEMMA ThreeJoined ==
  ASSUME NEW S, NEW a \in Seq(S), NEW b \in Seq(S), NEW c \in Seq(S), NEW s, s = a \o b \o c
  PROVE  /\ Len(s) = Len(a) + Len(b) + Len(c)
         /\ \A k \in 1 .. Len(a) : s[k] = a[k]
         /\ \A k \in 1 .. Len(b) : s[Len(a) + k] = b[k]
         /\ \A k \in 1 .. Len(c) : s[Len(a) + Len(b) + k] = c[k]
<1> DEFINE d == a \o b
<1>1. /\ d \in Seq(S) /\ Len(d) = Len(a) + Len(b)
      /\ \A k \in 1 .. Len(a) : d[k] = a[k]
      /\ \A k \in 1 .. Len(b) : d[Len(a) + k] = b[k]
  BY Joined
<1>2. d \in Seq(S) /\ s = d \o c
  BY <1>1
<1> HIDE DEF d
<1>3. /\ Len(s) = Len(d) + Len(c)
      /\ \A k \in 1 .. Len(d) : s[k] = d[k]
      /\ \A k \in 1 .. Len(c) : s[Len(d) + k] = c[k]
  BY <1>2, Joined
<1>4. Len(a) \in Nat /\ Len(b) \in Nat
  OBVIOUS
<1>5. /\ Len(s) = Len(a) + Len(b) + Len(c)
      /\ \A k \in 1 .. Len(c) : s[Len(a) + Len(b) + k] = c[k]
  BY <1>1, <1>3
<1>6. \A k \in 1 .. Len(a) : s[k] = a[k]
  BY <1>1, <1>3, <1>4
<1>7. \A k \in 1 .. Len(b) : s[Len(a) + k] = b[k]
  <2>1. TAKE k \in 1 .. Len(b)
  <2>2. Len(a) + k \in 1 .. Len(d)
    BY <1>1, <1>4
  <2> QED
    BY <1>1, <1>3, <2>2
<1> QED
  BY <1>5, <1>6, <1>7

\* Five words and the nine of PushAll are a frame.
LEMMA FrameOfParts ==
  ASSUME NEW s, NEW a, NEW b, NEW c, NEW n, NEW m \in {3, 4},
         \A k \in 1 .. m : a[k][1] = FrameFields[15 - k],
         \A k \in 1 .. 5 - m : b[k][1] = FrameFields[15 - m - k],
         \A k \in 1 .. 9 : c[k][1] = FrameFields[10 - k],
         a[2][2] = 8, b[5 - m][2] = n, c[9][2] = 16,
         \A k \in 1 .. m : s[k] = a[k],
         \A k \in 1 .. 5 - m : s[m + k] = b[k],
         \A k \in 1 .. 9 : s[5 + k] = c[k]
  PROVE  /\ \A k \in 1 .. 14 : s[k][1] = FrameFields[15 - k]
         /\ s[2][2] = 8 /\ s[14][2] = 16 /\ s[5][2] = n
<1>1. s[2][2] = 8
  <2>1. 2 \in 1 .. m
    OBVIOUS
  <2> QED
    BY <2>1
<1>2. s[14][2] = 16
  <2>1. 9 \in 1 .. 9 /\ 5 + 9 = 14
    OBVIOUS
  <2> QED
    BY <2>1
<1>3. s[5][2] = n
  <2>1. 5 - m \in 1 .. 5 - m /\ m + (5 - m) = 5
    OBVIOUS
  <2> QED
    BY <2>1
<1>4. ASSUME NEW k \in 1 .. 14
      PROVE  s[k][1] = FrameFields[15 - k]
  <2>1. CASE k <= m
    <3>1. k \in 1 .. m
      BY <2>1
    <3> QED
      BY <3>1
  <2>2. CASE k > m /\ k <= 5
    <3> DEFINE j == k - m
    <3>1. j \in 1 .. 5 - m /\ m + j = k /\ 15 - m - j = 15 - k
      BY <2>2
    <3> HIDE DEF j
    <3> QED
      BY <3>1
  <2>3. CASE k > 5
    <3> DEFINE j == k - 5
    <3>1. j \in 1 .. 9 /\ 5 + j = k /\ 10 - j = 15 - k
      BY <2>3
    <3> HIDE DEF j
    <3> QED
      BY <3>1
  <2> QED
    BY <2>1, <2>2, <2>3
<1> QED
  BY <1>1, <1>2, <1>3, <1>4

\* The CPU pushes m words, the stub the others up to interrupt n's number.
Parts(a, b, n, m) ==
  /\ a \in Seq(Words) /\ b \in Seq(Words) /\ Len(a) = m /\ Len(b) = 5 - m
  /\ \A k \in 1 .. m : a[k][1] = FrameFields[15 - k]
  /\ \A k \in 1 .. 5 - m : b[k][1] = FrameFields[15 - m - k]
  /\ a[2][2] = 8 /\ b[5 - m][2] = n

\* With an error code of the CPU or without: what is pushed is a frame.  The stubs and
\* the CPU differ on 21 and 29 only.
LEMMA FramePushed ==
  ASSUME NEW n \in (0 .. 47) \ {21, 29}, segs.cs = 8, segs.ds = 16
  PROVE  LET s == << >> \o CpuPushes(n) \o Stub(n) \o PushAll
         IN  /\ s \in Seq(Words) /\ Len(s) = 14
             /\ \A k \in 1 .. 14 : s[k][1] = FrameFields[15 - k]
             /\ s[2][2] = 8 /\ s[14][2] = 16 /\ s[5][2] = n
<1> DEFINE a == CpuPushes(n)
           b == Stub(n)
           c == PushAll
           head == << <<"eflags", IF if_flag THEN 1 ELSE 0>>, <<"cs", 8>>, <<"eip", 0>> >>
           code(x) == << <<"error_code", x>> >>
           number == << <<"interrupt_num", n>> >>
<1>1. /\ c \in Seq(Words) /\ Len(c) = 9
      /\ \A k \in 1 .. 9 : c[k][1] = FrameFields[10 - k]
      /\ c[9][2] = 16
  BY DEF PushAll, Words, FrameFields
<1>2. /\ head \in Seq(Words) /\ Len(head) = 3
      /\ head[1][1] = "eflags" /\ head[2][1] = "cs" /\ head[3][1] = "eip"
      /\ head[2][2] = 8
  BY DEF Words
<1>3. /\ number \in Seq(Words) /\ Len(number) = 1
      /\ number[1][1] = "interrupt_num" /\ number[1][2] = n
  BY DEF Words
<1>4. \A x \in Int : code(x) \in Seq(Words) /\ Len(code(x)) = 1 /\ code(x)[1][1] = "error_code"
  BY DEF Words
<1>5. /\ n \in {8, 10, 11, 12, 13, 14, 17, 30} => a = head \o code(n) /\ b = << >> \o number
      /\ n \notin {8, 10, 11, 12, 13, 14, 17, 30} => a = head \o << >> /\ b = code(0) \o number
  BY DEF CpuPushes, Stub, ErrorCodeVectors
<1> HIDE DEF a, b, c, head, code, number
<1>6. Parts(a, b, n, 3) \/ Parts(a, b, n, 4)
  <2>1. ASSUME NEW x \in Seq(Words)
        PROVE  x \o << >> = x /\ << >> \o x = x
    OBVIOUS
  <2>2. CASE n \in {8, 10, 11, 12, 13, 14, 17, 30}
    <3> DEFINE e == code(n)
    <3>1. n \in Int
      OBVIOUS
    <3>2. e \in Seq(Words) /\ Len(e) = 1 /\ e[1][1] = "error_code"
      BY <1>4, <3>1
    <3> HIDE DEF e
    <3>3. a = head \o e /\ b = number
      BY <1>3, <1>5, <2>1, <2>2 DEF e
    <3>4. head \in Seq(Words) /\ e \in Seq(Words)
      BY <1>2, <3>2
    <3>5. /\ a \in Seq(Words) /\ Len(a) = Len(head) + Len(e)
          /\ \A k \in 1 .. Len(head) : a[k] = head[k]
          /\ \A k \in 1 .. Len(e) : a[Len(head) + k] = e[k]
      BY <3>3, <3>4, Joined
    <3>6. Len(a) = 4 /\ a[1] = head[1] /\ a[2] = head[2] /\ a[3] = head[3] /\ a[4] = e[1]
      BY <1>2, <3>2, <3>5
    <3>7. \A k \in 1 .. 4 : a[k][1] = FrameFields[15 - k]
      BY <1>2, <3>2, <3>6 DEF FrameFields
    <3>8. \A k \in 1 .. 1 : b[k][1] = FrameFields[15 - 4 - k]
      BY <1>3, <3>3 DEF FrameFields
    <3>9. b \in Seq(Words) /\ Len(b) = 5 - 4 /\ b[5 - 4][2] = n
      BY <1>3, <3>3
    <3>10. a[2][2] = 8
      BY <1>2, <3>6
    <3>11. \A k \in 1 .. 5 - 4 : b[k][1] = FrameFields[15 - 4 - k]
      BY <3>8
    <3>12. Len(a) = 4
      BY <3>6
    <3> HIDE DEF e
    <3> QED
      BY <3>5, <3>7, <3>9, <3>10, <3>11, <3>12 DEF Parts
  <2>3. CASE n \notin {8, 10, 11, 12, 13, 14, 17, 30}
    <3> DEFINE e == code(0)
    <3>1. e \in Seq(Words) /\ Len(e) = 1 /\ e[1][1] = "error_code"
      <4>1. 0 \in Int
        OBVIOUS
      <4> QED
        BY <1>4, <4>1
    <3> HIDE DEF e
    <3>2. a = head /\ b = e \o number
      BY <1>2, <1>5, <2>1, <2>3 DEF e
    <3>3. number \in Seq(Words) /\ e \in Seq(Words)
      BY <1>3, <3>1
    <3>4. /\ b \in Seq(Words) /\ Len(b) = Len(e) + Len(number)
          /\ \A k \in 1 .. Len(e) : b[k] = e[k]
          /\ \A k \in 1 .. Len(number) : b[Len(e) + k] = number[k]
      BY <3>2, <3>3, Joined
    <3>5. Len(b) = 2 /\ b[1] = e[1] /\ b[2] = number[1]
      BY <1>3, <3>1, <3>4
    <3>6. \A k \in 1 .. 3 : a[k][1] = FrameFields[15 - k]
      BY <1>2, <3>2 DEF FrameFields
    <3>7. \A k \in 1 .. 2 : b[k][1] = FrameFields[15 - 3 - k]
      BY <1>3, <3>1, <3>5 DEF FrameFields
    <3>8. Len(b) = 5 - 3 /\ b[5 - 3][2] = n
      BY <1>3, <3>5
    <3>9. a \in Seq(Words) /\ Len(a) = 3 /\ a[2][2] = 8
      BY <1>2, <3>2
    <3>10. \A k \in 1 .. 5 - 3 : b[k][1] = FrameFields[15 - 3 - k]
      BY <3>7
    <3> QED
      BY <3>4, <3>6, <3>8, <3>9, <3>10 DEF Parts
  <2> QED
    BY <2>2, <2>3
<1>8. a \in Seq(Words) /\ b \in Seq(Words) /\ c \in Seq(Words)
  BY <1>1, <1>6 DEF Parts
<1>7. << >> \o a = a
  BY <1>8
<1> DEFINE s == a \o b \o c
<1>13. s \in Seq(Words)
  <2> DEFINE d == a \o b
  <2>1. d \in Seq(Words)
    BY <1>8, Joined
  <2> HIDE DEF d
  <2>2. d \o c \in Seq(Words)
    BY <1>8, <2>1, Joined
  <2> QED
    BY <2>2 DEF d
<1>14. s = a \o b \o c
  OBVIOUS
<1> HIDE DEF s
<1>9. /\ Len(s) = Len(a) + Len(b) + Len(c)
      /\ \A k \in 1 .. Len(a) : s[k] = a[k]
      /\ \A k \in 1 .. Len(b) : s[Len(a) + k] = b[k]
      /\ \A k \in 1 .. Len(c) : s[Len(a) + Len(b) + k] = c[k]
  BY <1>8, <1>14, ThreeJoined
<1>10. PICK m \in {3, 4} :
         /\ Len(a) = m /\ Len(b) = 5 - m
         /\ \A k \in 1 .. m : a[k][1] = FrameFields[15 - k]
         /\ \A k \in 1 .. 5 - m : b[k][1] = FrameFields[15 - m - k]
         /\ a[2][2] = 8 /\ b[5 - m][2] = n
  BY <1>6 DEF Parts
<1>11. /\ Len(s) = 14
       /\ \A k \in 1 .. m : s[k] = a[k]
       /\ \A k \in 1 .. 5 - m : s[m + k] = b[k]
       /\ \A k \in 1 .. 9 : s[5 + k] = c[k]
  <2>1. m + (5 - m) = 5 /\ m + (5 - m) + 9 = 14
    OBVIOUS
  <2> QED
    BY <1>1, <1>9, <1>10, <2>1
<1>12. /\ \A k \in 1 .. 14 : s[k][1] = FrameFields[15 - k]
       /\ s[2][2] = 8 /\ s[14][2] = 16 /\ s[5][2] = n
  <2>1. /\ \A k \in 1 .. m : a[k][1] = FrameFields[15 - k]
        /\ \A k \in 1 .. 5 - m : b[k][1] = FrameFields[15 - m - k]
        /\ a[2][2] = 8 /\ b[5 - m][2] = n
    BY <1>10
  <2>2. \A k \in 1 .. 9 : c[k][1] = FrameFields[10 - k]
    BY <1>1
  <2>3. c[9][2] = 16
    BY <1>1
  <2>4. /\ \A k \in 1 .. m : s[k] = a[k]
        /\ \A k \in 1 .. 5 - m : s[m + k] = b[k]
        /\ \A k \in 1 .. 9 : s[5 + k] = c[k]
    BY <1>11
  <2> QED
    BY <2>1, <2>2, <2>3, <2>4, FrameOfParts
<1> QED
  BY <1>7, <1>11, <1>12, <1>13 DEF s, a, b, c

LEMMA FieldsFit ==
  ASSUME Framed
  PROVE  /\ \A k \in DOMAIN FrameFields : FrameWord(FrameFields[k])[1] = FrameFields[k]
         /\ interrupt_num = Number
<1> DEFINE Place(field) == CHOOSE k \in DOMAIN FrameFields : FrameFields[k] = field
<1>1. DOMAIN FrameFields = 1 .. 14 /\ FrameFields[10] = "interrupt_num"
  BY DEF FrameFields
<1>2. \A j, k \in 1 .. 14 : FrameFields[j] = FrameFields[k] => j = k
  BY DEF FrameFields
<1>3. \A k \in 1 .. 14 : Place(FrameFields[k]) = k
  BY <1>1, <1>2
<1>4. ASSUME NEW field
      PROVE  FrameWord(field) = stack[Len(stack) + 1 - Place(field)]
  BY DEF FrameWord
<1> HIDE DEF Place
<1>5. \A k \in 1 .. 14 : FrameWord(FrameFields[k]) = stack[15 - k]
  <2>1. Len(stack) + 1 = 15
    BY DEF Framed
  <2>2. TAKE k \in 1 .. 14
  <2> DEFINE field == FrameFields[k]
  <2>3. Place(field) = k
    BY <1>3
  <2> HIDE DEF field
  <2>4. FrameWord(field) = stack[15 - k]
    BY <1>4, <2>1, <2>3
  <2> QED
    BY <2>4 DEF field
<1>6. \A k \in 1 .. 14 : 15 - k \in 1 .. 14 /\ 15 - (15 - k) = k
  OBVIOUS
<1>7. interrupt_num = Number
  BY <1>1, <1>5 DEF interrupt_num, Number
<1> QED
  BY <1>1, <1>5, <1>6, <1>7 DEF Framed

-----------------------------------------------------------------------------
(* What each part of the invariant depends on.                             *)

LEMMA FrameStays == UNCHANGED stack => (Framed' <=> Framed) /\ Number' = Number
BY DEF Framed, Number

LEMMA BootStays ==
  ASSUME BootInv, UNCHANGED <<pc, writes, handler>>, if_flag' => if_flag,
         UNCHANGED <<pics.master.phase, pics.master.base, pics.slave.phase, pics.slave.base>>
  PROVE  BootInv'
BY DEF BootInv, Remapping

LEMMA GatesStay ==
  ASSUME GateInv, UNCHANGED <<pc, gates, idt_loaded>>
  PROVE  GateInv'
BY DEF GateInv

LEMMA SegmentsStay ==
  ASSUME SegmentInv, UNCHANGED <<pc, gdt, segs>>
  PROVE  SegmentInv'
BY DEF SegmentInv

LEMMA HandlerStays ==
  ASSUME HandlerInv, UNCHANGED <<writes, stack, handler, if_flag>>,
         UNCHANGED <<pics.master.isr, pics.slave.isr>>
  PROVE  HandlerInv'
<1>1. /\ Framed' <=> Framed
      /\ Number' = Number
  BY FrameStays
<1>2. NoneInService' <=> NoneInService
  BY DEF NoneInService
<1>3. \A n : InService(n)' <=> InService(n)
  BY DEF InService
<1>4. \A n : Acknowledging(n)' <=> Acknowledging(n)
  BY <1>2, <1>3 DEF Acknowledging
<1> QED
  BY <1>1, <1>2, <1>3, <1>4 DEF HandlerInv

LEMMA KeyboardStays ==
  ASSUME KeyboardInv, UNCHANGED <<stack, handler, queue, obf, deaf>>,
         UNCHANGED pics.master.irr
  PROVE  KeyboardInv'
<1>1. InKeyboardHandler' <=> InKeyboardHandler
  BY FrameStays DEF InKeyboardHandler
<1> QED
  BY <1>1 DEF KeyboardInv

LEMMA ModifiersStay ==
  ASSUME ModifiersInv, UNCHANGED <<kbd, queue, sent>>
  PROVE  ModifiersInv'
BY DEF ModifiersInv

-----------------------------------------------------------------------------
(* The bytes of the keyboard.                                              *)

LEMMA MeaningType ==
  ASSUME NEW m \in Modifiers, NEW scancode \in Scancodes
  PROVE  Meaning(m, scancode) \in Modifiers
<1>1. scancode.release \in BOOLEAN /\ m.shift_pressed \in BOOLEAN
  BY DEF Scancodes, Modifiers
<1> QED
  BY <1>1 DEF Meaning, Modifiers

LEMMA EmptyQueue ==
  ASSUME NEW from \in Modifiers, NEW to \in Modifiers
  PROVE  Leads(<< >>, from, to) <=> from = to
<1>1. Len(<< >>) = 0 /\ \A i \in 1 .. 0 : FALSE
  OBVIOUS
<1>2. Leads(<< >>, from, to) => from = to
  BY <1>1 DEF Leads, Path
<1>3. ASSUME from = to PROVE Leads(<< >>, from, to)
  <2> DEFINE e == [i \in 0 .. 0 |-> from]
  <2>1. e \in [0 .. 0 -> Modifiers] /\ e[0] = from /\ e[0] = to
    BY <1>3
  <2> HIDE DEF e
  <2> QED
    BY <1>1, <2>1 DEF Leads, Path
<1> QED
  BY <1>2, <1>3

\* A byte is read.
LEMMA ReadByte ==
  ASSUME NEW q \in Seq(Scancodes), q # << >>, NEW from \in Modifiers, NEW to \in Modifiers,
         Leads(q, from, to)
  PROVE  Leads(Tail(q), Meaning(from, Head(q)), to)
<1>1. PICK e \in [0 .. Len(q) -> Modifiers] : Path(e, q, from, to)
  BY DEF Leads
<1> DEFINE t == Tail(q)
           d == [i \in 0 .. Len(t) |-> e[i + 1]]
<1>2. /\ Len(q) \in Nat /\ Len(q) > 0 /\ Len(t) = Len(q) - 1 /\ Head(q) = q[1]
      /\ \A i \in 1 .. Len(t) : t[i] = q[i + 1]
  OBVIOUS
<1> HIDE DEF t
<1>3. d \in [0 .. Len(t) -> Modifiers]
  <2>1. \A i \in 0 .. Len(t) : i + 1 \in 0 .. Len(q)
    BY <1>2
  <2> QED
    BY <2>1
<1>4. d[0] = Meaning(from, Head(q))
  <2>1. d[0] = e[1]
    BY <1>2
  <2>2. e[1] = Meaning(e[0], q[1])
    BY <1>1, <1>2 DEF Path
  <2> QED
    BY <1>1, <1>2, <2>1, <2>2 DEF Path
<1>5. d[Len(t)] = to
  BY <1>1, <1>2 DEF Path
<1>6. ASSUME NEW i \in 1 .. Len(t) PROVE d[i] = Meaning(d[i - 1], t[i])
  <2>1. i + 1 \in 1 .. Len(q) /\ i \in 0 .. Len(t) /\ i - 1 \in 0 .. Len(t)
    BY <1>2
  <2>2. (i + 1) - 1 = i /\ (i - 1) + 1 = i
    OBVIOUS
  <2>3. e[i + 1] = Meaning(e[i], q[i + 1])
    BY <1>1, <2>1, <2>2 DEF Path
  <2>4. d[i] = e[i + 1] /\ d[i - 1] = e[i]
    BY <2>1, <2>2
  <2> QED
    BY <1>2, <2>3, <2>4
<1> HIDE DEF d
<1>7. Leads(t, Meaning(from, Head(q)), to)
  BY <1>3, <1>4, <1>5, <1>6 DEF Leads, Path
<1> QED
  BY <1>7 DEF t

\* A byte is sent.
LEMMA AddByte ==
  ASSUME NEW q \in Seq(Scancodes), NEW from \in Modifiers, NEW to \in Modifiers,
         Leads(q, from, to), NEW scancode \in Scancodes
  PROVE  Leads(Append(q, scancode), from, Meaning(to, scancode))
<1>1. PICK e \in [0 .. Len(q) -> Modifiers] : Path(e, q, from, to)
  BY DEF Leads
<1> DEFINE a   == Append(q, scancode)
           end == Meaning(to, scancode)
           d   == [i \in 0 .. Len(a) |-> IF i = Len(a) THEN end ELSE e[i]]
<1>2. /\ Len(q) \in Nat /\ Len(a) = Len(q) + 1 /\ a[Len(a)] = scancode
      /\ \A i \in 1 .. Len(q) : a[i] = q[i]
  OBVIOUS
<1>3. end \in Modifiers
  BY MeaningType
<1> HIDE DEF a, end
<1>4. /\ d \in [0 .. Len(a) -> Modifiers] /\ d[Len(a)] = end
      /\ \A i \in 0 .. Len(q) : d[i] = e[i]
  <2>1. \A i \in 0 .. Len(a) : i # Len(a) => i \in 0 .. Len(q)
    BY <1>2
  <2>2. \A i \in 0 .. Len(q) : i \in 0 .. Len(a) /\ i # Len(a)
    BY <1>2
  <2>3. Len(a) \in 0 .. Len(a)
    BY <1>2
  <2> QED
    BY <1>3, <2>1, <2>2, <2>3
<1> HIDE DEF d
<1>5. d[0] = from
  BY <1>1, <1>2, <1>4 DEF Path
<1>6. ASSUME NEW i \in 1 .. Len(a) PROVE d[i] = Meaning(d[i - 1], a[i])
  <2>1. CASE i = Len(a)
    <3>1. i - 1 = Len(q) /\ Len(q) \in 0 .. Len(q)
      BY <1>2, <2>1
    <3>2. d[i - 1] = to
      BY <1>1, <1>4, <3>1 DEF Path
    <3> QED
      BY <1>2, <1>4, <2>1, <3>2 DEF end
  <2>2. CASE i # Len(a)
    <3>1. i \in 1 .. Len(q) /\ i \in 0 .. Len(q) /\ i - 1 \in 0 .. Len(q)
      BY <1>2, <2>2
    <3>2. e[i] = Meaning(e[i - 1], q[i])
      BY <1>1, <3>1 DEF Path
    <3> QED
      BY <1>2, <1>4, <3>1, <3>2
  <2> QED
    BY <2>1, <2>2
<1>7. Leads(a, from, end)
  BY <1>4, <1>5, <1>6 DEF Leads, Path
<1> QED
  BY <1>7 DEF a, end

-----------------------------------------------------------------------------
(* init_gdt and init_idt.                                                  *)

LEMMA Beginning == Init => IInv
<1> SUFFICES ASSUME Init PROVE IInv
  OBVIOUS
<1>1. {} \in SUBSET Lines
  OBVIOUS
<1>2. pics \in [master : Controller, slave : Controller]
  BY <1>1 DEF Init, Reset, Controller
<1>3. TypeInv
  <2>1. writes \in Seq(Write) /\ queue \in Seq(Scancodes)
    BY DEF Init
  <2>2. kbd \in Modifiers /\ sent \in Modifiers
    BY DEF Init, Modifiers
  <2> QED
    BY <1>2, <2>1, <2>2 DEF Init, TypeInv
<1>4. BootInv /\ SegmentInv
  BY DEF Init, BootInv, SegmentInv
<1>5. GateInv
  BY DEF Init, GateInv
<1>6. HandlerInv
  BY DEF Init, HandlerInv, NoneInService, Reset
<1>7. KeyboardInv
  BY DEF Init, KeyboardInv, InKeyboardHandler, Reset
<1>8. ModifiersInv
  BY <1>3, EmptyQueue DEF Init, TypeInv, ModifiersInv
<1> QED
  BY <1>3, <1>4, <1>5, <1>6, <1>7, <1>8 DEF IInv

\* A part of init_idt begins before any interrupt, when the last write is done.
LEMMA PartContext ==
  ASSUME IInv, NEW from, NEW to, Part(from, to), from # "run"
  PROVE  /\ writes = << >> /\ handler = "none" /\ ~ if_flag /\ pc = from /\ pc' = to
         /\ UNCHANGED <<mode, stack, handler, pics, kbd, queue, obf, deaf, sent>>
         /\ HandlerInv /\ KeyboardInv /\ ModifiersInv
BY DEF IInv, BootInv, Part, keyboard

LEMMA InitGdtStep ==
  ASSUME IInv, InitGdt
  PROVE  IInv'
<1>1. /\ writes = << >> /\ handler = "none" /\ ~ if_flag /\ pc = "init_gdt" /\ pc' = "memset"
      /\ UNCHANGED <<mode, stack, handler, pics, kbd, queue, obf, deaf, sent>>
      /\ UNCHANGED <<writes, gates, idt_loaded, if_flag>>
      /\ gdt' = init_gdt /\ segs' = [cs |-> 8, ds |-> 16, tr |-> 43]
  BY PartContext DEF InitGdt
<1>2. TypeInv'
  BY <1>1 DEF IInv, TypeInv
<1>3. BootInv'
  BY <1>1 DEF BootInv
<1>4. GateInv'
  BY <1>1 DEF IInv, GateInv
<1>5. SegmentInv'
  BY <1>1 DEF SegmentInv
<1>6. HandlerInv' /\ KeyboardInv' /\ ModifiersInv'
  BY <1>1, HandlerStays, KeyboardStays, ModifiersStay DEF IInv
<1> QED
  BY <1>2, <1>3, <1>4, <1>5, <1>6 DEF IInv

LEMMA RemapWrites ==
  LET w == pic_remap(32, 40)
  IN  /\ w \in Seq(Write) /\ Len(w) = 10
      /\ w[1] = Put(PIC1_COMMAND, ICW1) /\ w[2] = Put(PIC2_COMMAND, ICW1)
      /\ w[3] = Put(PIC1_DATA, 32) /\ w[4] = Put(PIC2_DATA, 40)
      /\ w[5] = Put(PIC1_DATA, 4) /\ w[6] = Put(PIC2_DATA, 2)
      /\ w[7] = Put(PIC1_DATA, 1) /\ w[8] = Put(PIC2_DATA, 1)
      /\ w[9] = Put(PIC1_DATA, 0) /\ w[10] = Put(PIC2_DATA, 0)
<1>1. Weight[CASCADE_IRQ + 1] = 4
  BY DEF Weight, CASCADE_IRQ
<1>2. /\ Put(PIC1_COMMAND, ICW1) \in Write /\ Put(PIC2_COMMAND, ICW1) \in Write
      /\ \A byte \in Bytes : Put(PIC1_DATA, byte) \in Write /\ Put(PIC2_DATA, byte) \in Write
  <2>1. /\ PIC1_COMMAND \in Ports /\ PIC1_DATA \in Ports
        /\ PIC2_COMMAND \in Ports /\ PIC2_DATA \in Ports /\ ICW1 \in Bytes
    BY DEF PIC1_COMMAND, PIC1_DATA, PIC2_COMMAND, PIC2_DATA, ICW1, Ports, Bytes
  <2> QED
    BY <2>1 DEF Write, Put
<1>3. /\ Put(PIC1_DATA, 32) \in Write /\ Put(PIC2_DATA, 40) \in Write
      /\ Put(PIC1_DATA, 4) \in Write /\ Put(PIC2_DATA, 2) \in Write
      /\ Put(PIC1_DATA, 1) \in Write /\ Put(PIC2_DATA, 1) \in Write
      /\ Put(PIC1_DATA, 0) \in Write /\ Put(PIC2_DATA, 0) \in Write
  BY <1>2 DEF Bytes
<1>4. pic_remap(32, 40) \in Seq(Write)
  BY <1>1, <1>2, <1>3 DEF pic_remap, ICW4_8086, Put
<1>5. Len(pic_remap(32, 40)) = 10
  BY DEF pic_remap
<1> QED
  BY <1>1, <1>4, <1>5 DEF pic_remap, ICW4_8086, Put

LEMMA ClearIdtStep ==
  ASSUME IInv, ClearIdt
  PROVE  IInv'
<1>1. /\ writes = << >> /\ handler = "none" /\ ~ if_flag
      /\ pc = "memset" /\ pc' = "exception_gates"
      /\ UNCHANGED <<mode, stack, handler, pics, kbd, queue, obf, deaf, sent>>
      /\ UNCHANGED <<gdt, segs, idt_loaded, if_flag>>
      /\ writes' = pic_remap(32, 40) /\ gates' = << >>
  BY PartContext DEF ClearIdt
<1>2. writes' \in Seq(Write) /\ Len(writes') = 10
  BY <1>1, RemapWrites
<1>3. TypeInv'
  BY <1>1, <1>2 DEF IInv, TypeInv
<1>4. BootInv'
  <2>1. Remapping(0)'
    BY <1>1, <1>2 DEF Remapping
  <2> HIDE DEF Remapping
  <2>2. \E n \in 0 .. 10 : Remapping(n)'
    BY <2>1
  <2> QED
    BY <1>1, <2>2 DEF BootInv
<1>5. GateInv'
  BY <1>1 DEF GateInv
<1>6. SegmentInv'
  BY <1>1 DEF IInv, SegmentInv
<1>7. HandlerInv'
  BY <1>1 DEF IInv, HandlerInv, NoneInService
<1>8. KeyboardInv' /\ ModifiersInv'
  BY <1>1, KeyboardStays, ModifiersStay DEF IInv
<1> QED
  BY <1>3, <1>4, <1>5, <1>6, <1>7, <1>8 DEF IInv

\* When the writes of pic_remap are done, both controllers are ready with their bases.
LEMMA Remapped ==
  ASSUME IInv, writes = << >>,
         pc \in {"exception_gates", "irq_gates", "lidt", "clear_mask", "sti", "run"}
  PROVE  /\ pics.master.phase = "ready" /\ pics.master.base = 32
         /\ pics.slave.phase = "ready" /\ pics.slave.base = 40
<1>1. CASE pc = "exception_gates"
  <2>1. PICK n \in 0 .. 10 : Remapping(n)
    BY <1>1 DEF IInv, BootInv
  <2>2. n = 10
    BY <2>1 DEF Remapping
  <2> QED
    BY <2>1, <2>2 DEF Remapping, PhaseAfter
<1> QED
  BY <1>1 DEF IInv, BootInv

LEMMA ExceptionGatesStep ==
  ASSUME IInv, ExceptionGates
  PROVE  IInv'
<1>1. InstallGates("exception_gates", 0 .. 31, "irq_gates")
  BY DEF ExceptionGates
<1>2. /\ writes = << >> /\ handler = "none" /\ ~ if_flag
      /\ pc = "exception_gates" /\ pc' = "irq_gates"
      /\ UNCHANGED <<mode, stack, handler, pics, kbd, queue, obf, deaf, sent>>
      /\ UNCHANGED <<gdt, segs, writes, idt_loaded, if_flag>>
  BY <1>1, PartContext DEF InstallGates
<1>3. TypeInv'
  BY <1>2 DEF IInv, TypeInv
<1>4. BootInv'
  BY <1>2, Remapped DEF BootInv
<1>5. GateInv'
  <2> DEFINE vectors == 0 .. 31
  <2>1. /\ DOMAIN gates' = vectors \union DOMAIN gates
        /\ \A v \in vectors : gates'[v] = v
        /\ \A v \in DOMAIN gates \ vectors : gates'[v] = gates[v]
    <3> HIDE DEF vectors
    <3>1. InstallGates(pc, vectors, pc')
      BY <1>1, <1>2 DEF vectors
    <3> QED
      BY <3>1 DEF InstallGates
  <2> QED
    BY <1>2, <2>1 DEF IInv, GateInv
<1>6. SegmentInv'
  BY <1>2 DEF IInv, SegmentInv
<1>7. HandlerInv' /\ KeyboardInv' /\ ModifiersInv'
  BY <1>2, HandlerStays, KeyboardStays, ModifiersStay DEF IInv
<1> QED
  BY <1>3, <1>4, <1>5, <1>6, <1>7 DEF IInv

LEMMA IrqGatesStep ==
  ASSUME IInv, IrqGates
  PROVE  IInv'
<1>1. InstallGates("irq_gates", 32 .. 47, "lidt")
  BY DEF IrqGates
<1>2. /\ writes = << >> /\ handler = "none" /\ ~ if_flag /\ pc = "irq_gates" /\ pc' = "lidt"
      /\ UNCHANGED <<mode, stack, handler, pics, kbd, queue, obf, deaf, sent>>
      /\ UNCHANGED <<gdt, segs, writes, idt_loaded, if_flag>>
  BY <1>1, PartContext DEF InstallGates
<1>3. TypeInv'
  BY <1>2 DEF IInv, TypeInv
<1>4. BootInv'
  BY <1>2, Remapped DEF BootInv
<1>5. GateInv'
  <2> DEFINE vectors == 32 .. 47
  <2>1. /\ DOMAIN gates' = vectors \union DOMAIN gates
        /\ \A v \in vectors : gates'[v] = v
        /\ \A v \in DOMAIN gates \ vectors : gates'[v] = gates[v]
    <3> HIDE DEF vectors
    <3>1. InstallGates(pc, vectors, pc')
      BY <1>1, <1>2 DEF vectors
    <3> QED
      BY <3>1 DEF InstallGates
  <2>2. DOMAIN gates \subseteq 0 .. 47 /\ \A v \in 0 .. 31 : v \in DOMAIN gates /\ gates[v] = v
    BY <1>2 DEF IInv, GateInv
  <2>3. DOMAIN gates' \subseteq 0 .. 47
    BY <2>1, <2>2
  <2>4. ASSUME NEW v \in 0 .. 31 PROVE v \in DOMAIN gates' /\ gates'[v] = v
    <3>1. v \notin vectors
      OBVIOUS
    <3> QED
      BY <2>1, <2>2, <3>1
  <2>5. ASSUME NEW v \in 32 .. 47 PROVE v \in DOMAIN gates' /\ gates'[v] = v
    BY <2>1
  <2> QED
    BY <1>2, <2>3, <2>4, <2>5 DEF GateInv
<1>6. SegmentInv'
  BY <1>2 DEF IInv, SegmentInv
<1>7. HandlerInv' /\ KeyboardInv' /\ ModifiersInv'
  BY <1>2, HandlerStays, KeyboardStays, ModifiersStay DEF IInv
<1> QED
  BY <1>3, <1>4, <1>5, <1>6, <1>7 DEF IInv

LEMMA LoadIdtStep ==
  ASSUME IInv, LoadIdt
  PROVE  IInv'
<1>1. /\ writes = << >> /\ handler = "none" /\ ~ if_flag /\ pc = "lidt" /\ pc' = "clear_mask"
      /\ UNCHANGED <<mode, stack, handler, pics, kbd, queue, obf, deaf, sent>>
      /\ UNCHANGED <<gdt, segs, writes, gates, if_flag>> /\ idt_loaded' = TRUE
  BY PartContext DEF LoadIdt
<1>2. TypeInv'
  BY <1>1 DEF IInv, TypeInv
<1>3. BootInv'
  BY <1>1, Remapped DEF BootInv
<1>4. GateInv'
  BY <1>1 DEF IInv, GateInv
<1>5. SegmentInv'
  BY <1>1 DEF IInv, SegmentInv
<1>6. HandlerInv' /\ KeyboardInv' /\ ModifiersInv'
  BY <1>1, HandlerStays, KeyboardStays, ModifiersStay DEF IInv
<1> QED
  BY <1>2, <1>3, <1>4, <1>5, <1>6 DEF IInv

LEMMA MaskWrite ==
  ASSUME NEW p
  PROVE  LET w == irq_clear_mask(p, 1)
         IN  w \in Seq(Write) /\ \E byte \in Bytes : w = << Put(PIC1_DATA, byte) >>
<1> DEFINE byte == Byte(Bits(inb(p, PIC1_DATA)) \ {1})
<1>1. irq_clear_mask(p, 1) = << Put(PIC1_DATA, byte) >>
  BY DEF irq_clear_mask, Put
<1>2. byte \in Bytes /\ PIC1_DATA \in Ports
  BY ByteType DEF PIC1_DATA, Ports, Bytes
<1> HIDE DEF byte
<1> DEFINE write == Put(PIC1_DATA, byte)
<1>3. write \in Write
  BY <1>2 DEF Write, Put
<1>4. irq_clear_mask(p, 1) = <<write>>
  BY <1>1
<1>5. \E x \in Bytes : irq_clear_mask(p, 1) = << Put(PIC1_DATA, x) >>
  BY <1>2, <1>4
<1> HIDE DEF write
<1>6. <<write>> \in Seq(Write)
  BY <1>3
<1> QED
  BY <1>4, <1>5, <1>6

LEMMA ClearMaskStep ==
  ASSUME IInv, ClearMask
  PROVE  IInv'
<1>1. /\ writes = << >> /\ handler = "none" /\ ~ if_flag /\ pc = "clear_mask" /\ pc' = "sti"
      /\ UNCHANGED <<mode, stack, handler, pics, kbd, queue, obf, deaf, sent>>
      /\ UNCHANGED <<gdt, segs, idt_loaded, gates, if_flag>>
      /\ writes' = irq_clear_mask(pics, 1)
  BY PartContext DEF ClearMask
<1>2. writes' \in Seq(Write) /\ \E byte \in Bytes : writes' = << Put(PIC1_DATA, byte) >>
  BY <1>1, MaskWrite
<1>3. TypeInv'
  BY <1>1, <1>2 DEF IInv, TypeInv
<1>4. BootInv'
  BY <1>1, <1>2, Remapped DEF BootInv
<1>5. GateInv'
  BY <1>1 DEF IInv, GateInv
<1>6. SegmentInv'
  BY <1>1 DEF IInv, SegmentInv
<1>7. HandlerInv'
  BY <1>1 DEF IInv, HandlerInv, NoneInService
<1>8. KeyboardInv' /\ ModifiersInv'
  BY <1>1, KeyboardStays, ModifiersStay DEF IInv
<1> QED
  BY <1>3, <1>4, <1>5, <1>6, <1>7, <1>8 DEF IInv

LEMMA StiStep ==
  ASSUME IInv, Sti
  PROVE  IInv'
<1>1. /\ writes = << >> /\ handler = "none" /\ ~ if_flag /\ pc = "sti" /\ pc' = "run"
      /\ UNCHANGED <<mode, stack, handler, pics, kbd, queue, obf, deaf, sent>>
      /\ UNCHANGED <<gdt, segs, writes, gates, idt_loaded>> /\ if_flag' = TRUE
  BY PartContext DEF Sti
<1>2. TypeInv'
  BY <1>1 DEF IInv, TypeInv
<1>3. BootInv'
  BY <1>1, Remapped DEF BootInv
<1>4. GateInv'
  BY <1>1 DEF IInv, GateInv
<1>5. SegmentInv'
  BY <1>1 DEF IInv, SegmentInv
<1>6. HandlerInv'
  BY <1>1 DEF IInv, HandlerInv, NoneInService
<1>7. KeyboardInv' /\ ModifiersInv'
  BY <1>1, KeyboardStays, ModifiersStay DEF IInv
<1> QED
  BY <1>2, <1>3, <1>4, <1>5, <1>6, <1>7 DEF IInv

-----------------------------------------------------------------------------
(* The port writes.                                                        *)

\* What init_idt writes: the first initialization word, or a byte of data.
Quiet(byte) == {Put(PIC1_COMMAND, ICW1), Put(PIC2_COMMAND, ICW1),
                Put(PIC1_DATA, byte), Put(PIC2_DATA, byte)}

\* Nothing in service: an initialization word or a byte of data keeps it so.
LEMMA QuietWrite ==
  ASSUME NEW p \in Pics, p.master.isr = {}, p.slave.isr = {}, NEW byte \in Bytes,
         NEW w \in Quiet(byte)
  PROVE  LET q == outb(p, w)
         IN  /\ q \in Pics /\ q.master.isr = {} /\ q.slave.isr = {}
             /\ w = Put(PIC1_COMMAND, ICW1) => q.master.irr = {}
             /\ w # Put(PIC1_COMMAND, ICW1) => q.master.irr = p.master.irr
<1>1. p.master \in Controller /\ p.slave \in Controller
  BY DEF Pics
<1>2. /\ Put(PIC1_COMMAND, ICW1) # Put(PIC2_COMMAND, ICW1)
      /\ Put(PIC1_COMMAND, ICW1) # Put(PIC1_DATA, byte)
      /\ Put(PIC1_COMMAND, ICW1) # Put(PIC2_DATA, byte)
  BY DEF Put, PIC1_COMMAND, PIC2_COMMAND, PIC1_DATA, PIC2_DATA
<1>3. CASE w = Put(PIC1_COMMAND, ICW1)
  <2> DEFINE c == Command(p.master, ICW1)
  <2>1. c \in Controller /\ c.isr = {} /\ c.irr = {}
    BY <1>1, CommandInit
  <2>2. outb(p, w) = [p EXCEPT !.master = c]
    BY <1>3, OutbEffect
  <2> HIDE DEF c
  <2> QED
    BY <1>3, <2>1, <2>2 DEF Pics
<1>4. CASE w = Put(PIC2_COMMAND, ICW1)
  <2> DEFINE c == Command(p.slave, ICW1)
  <2>1. c \in Controller /\ c.isr = {}
    BY <1>1, CommandInit
  <2>2. outb(p, w) = [p EXCEPT !.slave = c]
    BY <1>4, OutbEffect
  <2> HIDE DEF c
  <2> QED
    BY <1>2, <1>4, <2>1, <2>2 DEF Pics
<1>5. CASE w = Put(PIC1_DATA, byte)
  <2> DEFINE c == Data(p.master, byte)
  <2>1. c \in Controller /\ c.isr = {} /\ c.irr = p.master.irr
    BY <1>1, DataEffect
  <2>2. outb(p, w) = [p EXCEPT !.master = c]
    BY <1>5, OutbEffect
  <2> HIDE DEF c
  <2> QED
    BY <1>2, <1>5, <2>1, <2>2 DEF Pics
<1>6. CASE w = Put(PIC2_DATA, byte)
  <2> DEFINE c == Data(p.slave, byte)
  <2>1. c \in Controller /\ c.isr = {}
    BY <1>1, DataEffect
  <2>2. outb(p, w) = [p EXCEPT !.slave = c]
    BY <1>6, OutbEffect
  <2> HIDE DEF c
  <2> QED
    BY <1>2, <1>6, <2>1, <2>2 DEF Pics
<1> QED
  BY <1>3, <1>4, <1>5, <1>6 DEF Quiet

LEMMA OutbFields ==
  ASSUME NEW p \in Pics, NEW byte
  PROVE  /\ outb(p, Put(PIC1_COMMAND, byte)).master = Command(p.master, byte)
         /\ outb(p, Put(PIC1_COMMAND, byte)).slave = p.slave
         /\ outb(p, Put(PIC2_COMMAND, byte)).master = p.master
         /\ outb(p, Put(PIC2_COMMAND, byte)).slave = Command(p.slave, byte)
         /\ outb(p, Put(PIC1_DATA, byte)).master = Data(p.master, byte)
         /\ outb(p, Put(PIC1_DATA, byte)).slave = p.slave
         /\ outb(p, Put(PIC2_DATA, byte)).master = p.master
         /\ outb(p, Put(PIC2_DATA, byte)).slave = Data(p.slave, byte)
<1>1. /\ outb(p, Put(PIC1_COMMAND, byte)) = [p EXCEPT !.master = Command(p.master, byte)]
      /\ outb(p, Put(PIC2_COMMAND, byte)) = [p EXCEPT !.slave = Command(p.slave, byte)]
      /\ outb(p, Put(PIC1_DATA, byte)) = [p EXCEPT !.master = Data(p.master, byte)]
      /\ outb(p, Put(PIC2_DATA, byte)) = [p EXCEPT !.slave = Data(p.slave, byte)]
  BY OutbEffect
<1> QED
  BY <1>1 DEF Pics

\* The tenth of pic_remap is the last; each one moves one controller on.
LEMMA RemapStep ==
  ASSUME NEW n \in 0 .. 9, Remapping(n), pics \in Pics, writes \in Seq(Write),
         pics' = outb(pics, Head(writes)), writes' = Tail(writes)
  PROVE  Remapping(n + 1)'
<1> DEFINE w == pic_remap(32, 40)
           m == pics.master
           s == pics.slave
<1>1. /\ Len(writes) = 10 - n /\ writes # << >>
      /\ \A k \in 1 .. Len(writes) : writes[k] = w[n + k]
  BY DEF Remapping
<1>2. Head(writes) = w[n + 1]
  BY <1>1
<1>3. Len(writes') = 10 - (n + 1)
  BY <1>1
<1>4. \A k \in 1 .. Len(writes') : writes'[k] = w[n + 1 + k]
  <2>1. TAKE k \in 1 .. Len(writes')
  <2>2. writes'[k] = writes[k + 1] /\ k + 1 \in 1 .. Len(writes) /\ n + (k + 1) = n + 1 + k
    BY <1>1
  <2> QED
    BY <1>1, <2>2
<1> HIDE DEF w
<1>5. /\ w[1] = Put(PIC1_COMMAND, ICW1) /\ w[2] = Put(PIC2_COMMAND, ICW1)
      /\ w[3] = Put(PIC1_DATA, 32) /\ w[4] = Put(PIC2_DATA, 40)
      /\ w[5] = Put(PIC1_DATA, 4) /\ w[6] = Put(PIC2_DATA, 2)
      /\ w[7] = Put(PIC1_DATA, 1) /\ w[8] = Put(PIC2_DATA, 1)
      /\ w[9] = Put(PIC1_DATA, 0) /\ w[10] = Put(PIC2_DATA, 0)
  BY RemapWrites DEF w
<1>6. m \in Controller /\ s \in Controller
  BY DEF Pics
<1>7. /\ n >= 1 => m.phase = PhaseAfter(n)
      /\ n >= 2 => s.phase = PhaseAfter(n - 1)
      /\ n >= 3 => m.base = 32
      /\ n >= 4 => s.base = 40
  BY DEF Remapping
<1>8. ASSUME NEW byte \in Bytes
      PROVE  LET q == outb(pics, Put(PIC1_DATA, byte))
             IN  /\ q.slave = s /\ q.master.phase = NextPhase(m.phase)
                 /\ q.master.base = NextBase(m.phase, m.base, byte)
  BY <1>6, DataEffect, OutbFields
<1>9. ASSUME NEW byte \in Bytes
      PROVE  LET q == outb(pics, Put(PIC2_DATA, byte))
             IN  /\ q.master = m /\ q.slave.phase = NextPhase(s.phase)
                 /\ q.slave.base = NextBase(s.phase, s.base, byte)
  BY <1>6, DataEffect, OutbFields
<1>10. 32 \in Bytes /\ 40 \in Bytes /\ 4 \in Bytes /\ 2 \in Bytes /\ 1 \in Bytes /\ 0 \in Bytes
  BY DEF Bytes
<1> DEFINE MP == pics'.master.phase
           SP == pics'.slave.phase
           MB == pics'.master.base
           SB == pics'.slave.base
<1>11. /\ Len(writes') = 10 - (n + 1)
       /\ \A k \in 1 .. Len(writes') : writes'[k] = pic_remap(32, 40)[n + 1 + k]
  BY <1>3, <1>4 DEF w
<1>12. CASE n = 0
  <2>1. pics' = outb(pics, Put(PIC1_COMMAND, ICW1))
    BY <1>2, <1>5, <1>12
  <2>2. MP = "icw2"
    BY <1>6, <2>1, OutbFields, CommandInit
  <2> QED
    BY <1>11, <1>12, <2>2 DEF Remapping, PhaseAfter
<1>13. CASE n = 1
  <2>1. pics' = outb(pics, Put(PIC2_COMMAND, ICW1))
    BY <1>2, <1>5, <1>13
  <2>2. MP = "icw2" /\ SP = "icw2"
    BY <1>6, <1>7, <1>13, <2>1, OutbFields, CommandInit DEF PhaseAfter
  <2> QED
    BY <1>11, <1>13, <2>2 DEF Remapping, PhaseAfter
<1>14. CASE n = 2
  <2>1. pics' = outb(pics, Put(PIC1_DATA, 32))
    BY <1>2, <1>5, <1>14
  <2>2. MP = "icw3" /\ MB = 32 /\ SP = "icw2"
    BY <1>7, <1>10, <1>8, BasesOfRemap, <1>14, <2>1 DEF PhaseAfter, NextPhase, NextBase
  <2> QED
    BY <1>11, <1>14, <2>2 DEF Remapping, PhaseAfter
<1>15. CASE n = 3
  <2>1. pics' = outb(pics, Put(PIC2_DATA, 40))
    BY <1>2, <1>5, <1>15
  <2>2. MP = "icw3" /\ MB = 32 /\ SP = "icw3" /\ SB = 40
    BY <1>7, <1>10, <1>9, BasesOfRemap, <1>15, <2>1 DEF PhaseAfter, NextPhase, NextBase
  <2> QED
    BY <1>11, <1>15, <2>2 DEF Remapping, PhaseAfter
<1>16. CASE n = 4
  <2>1. pics' = outb(pics, Put(PIC1_DATA, 4))
    BY <1>2, <1>5, <1>16
  <2>2. MP = "icw4" /\ MB = 32 /\ SP = "icw3" /\ SB = 40
    BY <1>7, <1>10, <1>8, BasesOfRemap, <1>16, <2>1 DEF PhaseAfter, NextPhase, NextBase
  <2> QED
    BY <1>11, <1>16, <2>2 DEF Remapping, PhaseAfter
<1>17. CASE n = 5
  <2>1. pics' = outb(pics, Put(PIC2_DATA, 2))
    BY <1>2, <1>5, <1>17
  <2>2. MP = "icw4" /\ MB = 32 /\ SP = "icw4" /\ SB = 40
    BY <1>7, <1>10, <1>9, BasesOfRemap, <1>17, <2>1 DEF PhaseAfter, NextPhase, NextBase
  <2> QED
    BY <1>11, <1>17, <2>2 DEF Remapping, PhaseAfter
<1>18. CASE n = 6
  <2>1. pics' = outb(pics, Put(PIC1_DATA, 1))
    BY <1>2, <1>5, <1>18
  <2>2. MP = "ready" /\ MB = 32 /\ SP = "icw4" /\ SB = 40
    BY <1>7, <1>10, <1>8, BasesOfRemap, <1>18, <2>1 DEF PhaseAfter, NextPhase, NextBase
  <2> QED
    BY <1>11, <1>18, <2>2 DEF Remapping, PhaseAfter
<1>19. CASE n = 7
  <2>1. pics' = outb(pics, Put(PIC2_DATA, 1))
    BY <1>2, <1>5, <1>19
  <2>2. MP = "ready" /\ MB = 32 /\ SP = "ready" /\ SB = 40
    BY <1>7, <1>10, <1>9, BasesOfRemap, <1>19, <2>1 DEF PhaseAfter, NextPhase, NextBase
  <2> QED
    BY <1>11, <1>19, <2>2 DEF Remapping, PhaseAfter
<1>20. CASE n = 8
  <2>1. pics' = outb(pics, Put(PIC1_DATA, 0))
    BY <1>2, <1>5, <1>20
  <2>2. MP = "ready" /\ MB = 32 /\ SP = "ready" /\ SB = 40
    BY <1>7, <1>10, <1>8, BasesOfRemap, <1>20, <2>1 DEF PhaseAfter, NextPhase, NextBase
  <2> QED
    BY <1>11, <1>20, <2>2 DEF Remapping, PhaseAfter
<1>21. CASE n = 9
  <2>1. pics' = outb(pics, Put(PIC2_DATA, 0))
    BY <1>2, <1>5, <1>21
  <2>2. MP = "ready" /\ MB = 32 /\ SP = "ready" /\ SB = 40
    BY <1>7, <1>10, <1>9, BasesOfRemap, <1>21, <2>1 DEF PhaseAfter, NextPhase, NextBase
  <2> QED
    BY <1>11, <1>21, <2>2 DEF Remapping, PhaseAfter
<1> QED
  BY <1>12, <1>13, <1>14, <1>15, <1>16, <1>17, <1>18, <1>19, <1>20, <1>21

LEMMA EoiWrite ==
  ASSUME NEW p \in Pics, NEW x
  PROVE  /\ p.master.isr \in {{x}, {}} =>
              LET q == outb(p, Eoi(PIC1_COMMAND))
              IN  /\ q \in Pics /\ q.slave = p.slave
                  /\ q.master.phase = p.master.phase /\ q.master.base = p.master.base
                  /\ q.master.irr = p.master.irr /\ q.master.isr = {}
         /\ p.slave.isr \in {{x}, {}} =>
              LET q == outb(p, Eoi(PIC2_COMMAND))
              IN  /\ q \in Pics /\ q.master = p.master
                  /\ q.slave.phase = p.slave.phase /\ q.slave.base = p.slave.base
                  /\ q.slave.irr = p.slave.irr /\ q.slave.isr = {}
<1>1. p.master \in Controller /\ p.slave \in Controller
  BY DEF Pics
<1>2. ASSUME p.master.isr \in {{x}, {}}
      PROVE  LET q == outb(p, Eoi(PIC1_COMMAND))
             IN  /\ q \in Pics /\ q.slave = p.slave
                 /\ q.master.phase = p.master.phase /\ q.master.base = p.master.base
                 /\ q.master.irr = p.master.irr /\ q.master.isr = {}
  <2> DEFINE c == Command(p.master, PIC_EOI)
  <2>1. /\ c \in Controller /\ c.phase = p.master.phase /\ c.base = p.master.base
        /\ c.irr = p.master.irr /\ c.isr = {}
    <3> DEFINE before == p.master
    <3>1. before \in Controller /\ before.isr \in {{x}, {}}
      BY <1>1, <1>2
    <3> HIDE DEF before
    <3>2. LET d == Command(before, PIC_EOI)
          IN  /\ d \in Controller /\ d.phase = before.phase /\ d.base = before.base
              /\ d.irr = before.irr /\ d.isr = {}
      BY <3>1, CommandEoi
    <3> QED
      BY <3>2 DEF before
  <2>2. outb(p, Eoi(PIC1_COMMAND)) = [p EXCEPT !.master = c]
    BY OutbEffect DEF Eoi
  <2> HIDE DEF c
  <2> QED
    BY <2>1, <2>2 DEF Pics
<1>3. ASSUME p.slave.isr \in {{x}, {}}
      PROVE  LET q == outb(p, Eoi(PIC2_COMMAND))
             IN  /\ q \in Pics /\ q.master = p.master
                 /\ q.slave.phase = p.slave.phase /\ q.slave.base = p.slave.base
                 /\ q.slave.irr = p.slave.irr /\ q.slave.isr = {}
  <2> DEFINE c == Command(p.slave, PIC_EOI)
  <2>1. /\ c \in Controller /\ c.phase = p.slave.phase /\ c.base = p.slave.base
        /\ c.irr = p.slave.irr /\ c.isr = {}
    <3> DEFINE before == p.slave
    <3>1. before \in Controller /\ before.isr \in {{x}, {}}
      BY <1>1, <1>3
    <3> HIDE DEF before
    <3>2. LET d == Command(before, PIC_EOI)
          IN  /\ d \in Controller /\ d.phase = before.phase /\ d.base = before.base
              /\ d.irr = before.irr /\ d.isr = {}
      BY <3>1, CommandEoi
    <3> QED
      BY <3>2 DEF before
  <2>2. outb(p, Eoi(PIC2_COMMAND)) = [p EXCEPT !.slave = c]
    BY OutbEffect DEF Eoi
  <2> HIDE DEF c
  <2> QED
    BY <2>1, <2>2 DEF Pics
<1> QED
  BY <1>2, <1>3

LEMMA OutbContext ==
  ASSUME IInv, Outb
  PROVE  /\ pics \in Pics /\ writes \in Seq(Write) /\ writes # << >>
         /\ pics' = outb(pics, Head(writes)) /\ writes' = Tail(writes)
         /\ writes' \in Seq(Write)
         /\ deaf' = (deaf \/ (obf /\ Head(writes) = Put(PIC1_COMMAND, ICW1)))
         /\ UNCHANGED <<pc, gdt, gates, idt_loaded, segs, if_flag, mode, stack, handler,
                        kbd, queue, obf, sent>>
         /\ GateInv' /\ SegmentInv' /\ ModifiersInv'
<1>1. /\ pics \in Pics /\ writes \in Seq(Write) /\ writes # << >>
      /\ pics' = outb(pics, Head(writes)) /\ writes' = Tail(writes)
      /\ deaf' = (deaf \/ (obf /\ Head(writes) = Put(PIC1_COMMAND, ICW1)))
      /\ UNCHANGED <<pc, gdt, gates, idt_loaded, segs, if_flag, mode, stack, handler,
                     kbd, queue, obf, sent>>
  BY DEF IInv, TypeInv, Pics, Outb, Put, boot
<1>2. writes' \in Seq(Write)
  BY <1>1
<1>3. GateInv' /\ SegmentInv' /\ ModifiersInv'
  BY <1>1, GatesStay, SegmentsStay, ModifiersStay DEF IInv
<1> QED
  BY <1>1, <1>2, <1>3

\* Outside handlers nothing is in service, and only an initialization word forgets a byte.
LEMMA QuietStep ==
  ASSUME IInv, Outb, handler = "none", NEW byte \in Bytes,
         Head(writes) \in Quiet(byte)
  PROVE  TypeInv' /\ HandlerInv' /\ KeyboardInv'
<1>1. pics.master.isr = {} /\ pics.slave.isr = {} /\ stack = << >>
  BY DEF IInv, HandlerInv, NoneInService
<1>2. /\ pics' \in Pics /\ pics'.master.isr = {} /\ pics'.slave.isr = {}
      /\ Head(writes) = Put(PIC1_COMMAND, ICW1) => pics'.master.irr = {}
      /\ Head(writes) # Put(PIC1_COMMAND, ICW1) => pics'.master.irr = pics.master.irr
  <2> DEFINE w == Head(writes)
  <2>1. pics' = outb(pics, w) /\ pics \in Pics /\ w \in Quiet(byte)
    BY OutbContext
  <2> HIDE DEF w
  <2>2. /\ pics' \in Pics /\ pics'.master.isr = {} /\ pics'.slave.isr = {}
        /\ w = Put(PIC1_COMMAND, ICW1) => pics'.master.irr = {}
        /\ w # Put(PIC1_COMMAND, ICW1) => pics'.master.irr = pics.master.irr
    BY <1>1, <2>1, QuietWrite
  <2> QED
    BY <2>2 DEF w
<1>3. deaf' \in BOOLEAN
  BY OutbContext DEF IInv, TypeInv
<1>4. TypeInv'
  BY <1>2, <1>3, OutbContext DEF IInv, TypeInv, Pics
<1>5. HandlerInv'
  BY <1>1, <1>2, OutbContext DEF HandlerInv, NoneInService
<1>6. KeyboardInv'
  <2>1. ~ InKeyboardHandler'
    BY OutbContext DEF InKeyboardHandler
  <2>2. CASE Head(writes) = Put(PIC1_COMMAND, ICW1)
    <3>1. deaf' = (deaf \/ obf) /\ UNCHANGED <<queue, obf>>
      BY <2>2, OutbContext
    <3>2. obf => queue # << >>
      BY DEF IInv, KeyboardInv
    <3>3. obf' /\ ~ deaf' => FALSE
      BY <3>1
    <3> QED
      BY <1>2, <2>1, <2>2, <3>1, <3>2, <3>3 DEF KeyboardInv
  <2>3. CASE Head(writes) # Put(PIC1_COMMAND, ICW1)
    <3>1. pics'.master.irr = pics.master.irr /\ deaf' = deaf
      BY <1>2, <2>3, OutbContext DEF IInv, TypeInv
    <3> QED
      BY <3>1, OutbContext, KeyboardStays DEF IInv
  <2> QED
    BY <2>2, <2>3
<1> QED
  BY <1>4, <1>5, <1>6

\* Every write of pic_remap is an initialization word or a byte of data.
LEMMA RemapHead ==
  ASSUME IInv, Outb, pc = "exception_gates"
  PROVE  \E byte \in Bytes : Head(writes) \in Quiet(byte)
<1>1. PICK n \in 0 .. 10 : Remapping(n)
  BY DEF IInv, BootInv
<1>2. n \in 0 .. 9
  BY <1>1, OutbContext DEF Remapping
<1> DEFINE w == pic_remap(32, 40)
<1>3. Head(writes) = w[n + 1]
  BY <1>1, <1>2, OutbContext DEF Remapping
<1>4. 32 \in Bytes /\ 40 \in Bytes /\ 4 \in Bytes /\ 2 \in Bytes /\ 1 \in Bytes /\ 0 \in Bytes
  BY DEF Bytes
<1>5. n + 1 \in {1, 2, 3, 4, 5, 6, 7, 8, 9, 10}
  BY <1>2
<1>6. /\ w[1] \in Quiet(32) /\ w[2] \in Quiet(32)
      /\ w[3] \in Quiet(32) /\ w[4] \in Quiet(40)
      /\ w[5] \in Quiet(4) /\ w[6] \in Quiet(2)
      /\ w[7] \in Quiet(1) /\ w[8] \in Quiet(1)
      /\ w[9] \in Quiet(0) /\ w[10] \in Quiet(0)
  BY RemapWrites DEF Quiet
<1> HIDE DEF w
<1> QED
  BY <1>3, <1>4, <1>5, <1>6

LEMMA RemapOutb ==
  ASSUME IInv, Outb, pc = "exception_gates"
  PROVE  IInv'
<1>1. PICK n \in 0 .. 10 : Remapping(n)
  BY DEF IInv, BootInv
<1>2. n \in 0 .. 9 /\ Len(writes) = 10 - n
  BY <1>1, OutbContext DEF Remapping
<1>3. Remapping(n + 1)'
  BY <1>1, <1>2, OutbContext, RemapStep
<1>4. handler = "none" /\ ~ if_flag
  BY DEF IInv, BootInv
<1>5. BootInv'
  <2>1. n + 1 \in 0 .. 10
    BY <1>2
  <2>2. \E k \in 0 .. 10 : Remapping(k)'
    BY <1>3, <2>1
  <2>3. handler' = "none" /\ ~ if_flag' /\ pc' = "exception_gates"
    BY <1>4, OutbContext
  <2> QED
    BY <2>2, <2>3 DEF BootInv
<1>6. \E byte \in Bytes : Head(writes) \in Quiet(byte)
  BY RemapHead
<1> QED
  BY <1>4, <1>5, <1>6, OutbContext, QuietStep DEF IInv

LEMMA MaskOutb ==
  ASSUME IInv, Outb, pc = "sti"
  PROVE  IInv'
<1>1. PICK byte \in Bytes : writes = << Put(PIC1_DATA, byte) >>
  BY OutbContext DEF IInv, BootInv
<1> DEFINE write == Put(PIC1_DATA, byte)
<1>2. writes = <<write>>
  BY <1>1
<1>3. outb(pics, write).master.phase = NextPhase(pics.master.phase)
      /\ outb(pics, write).master.base = NextBase(pics.master.phase, pics.master.base, byte)
      /\ outb(pics, write).slave = pics.slave
  <2>1. pics.master \in Controller
    BY DEF IInv, TypeInv
  <2> QED
    BY <2>1, OutbContext, OutbFields, DataEffect
<1> HIDE DEF write
<1>4. Head(writes) = write /\ writes' = << >>
  BY <1>2, OutbContext
<1>5. handler = "none" /\ ~ if_flag
  BY DEF IInv, BootInv
<1>6. /\ pics.master.phase = "ready" /\ pics.master.base = 32
      /\ pics.slave.phase = "ready" /\ pics.slave.base = 40
  BY DEF IInv, BootInv
<1>7. /\ pics'.master.phase = "ready" /\ pics'.master.base = 32
      /\ pics'.slave.phase = "ready" /\ pics'.slave.base = 40
  BY <1>3, <1>4, <1>6, OutbContext DEF NextPhase, NextBase
<1>8. BootInv'
  BY <1>4, <1>5, <1>7, OutbContext DEF BootInv
<1>9. TypeInv' /\ HandlerInv' /\ KeyboardInv'
  BY <1>4, <1>5, QuietStep DEF write, Quiet
<1> QED
  BY <1>8, <1>9, OutbContext DEF IInv

\* The writes of pic_acknowledge: the slave's interrupt ends first, then the master's.
LEMMA EoiOutb ==
  ASSUME IInv, Outb, handler # "none"
  PROVE  IInv'
<1> DEFINE first == Eoi(PIC1_COMMAND)
           second == Eoi(PIC2_COMMAND)
<1>10. handler = "returning"
  <2>1. writes # << >>
    BY OutbContext
  <2> QED
    BY <2>1 DEF IInv, TypeInv, HandlerInv
<1>11. ~ if_flag /\ pc = "run" /\ Framed /\ Number \in 32 .. 47 /\ Acknowledging(Number)
  BY <1>10 DEF IInv, HandlerInv, BootInv
<1>12. PICK n \in 32 .. 47 : n = Number
  BY <1>11
<1>1. /\ handler = "returning" /\ ~ if_flag /\ pc = "run" /\ Framed
      /\ n = Number /\ Acknowledging(n)
  BY <1>10, <1>11, <1>12
<1>2. /\ pc' = "run" /\ handler' = "returning" /\ ~ if_flag' /\ Framed' /\ Number' = n
  BY <1>1, OutbContext, FrameStays
<1>3. /\ first # Put(PIC1_COMMAND, ICW1) /\ second # Put(PIC1_COMMAND, ICW1)
  BY DEF Eoi, Put, PIC1_COMMAND, PIC2_COMMAND, PIC_EOI, ICW1
<1> HIDE DEF first, second
<1>4. \/ writes = <<first>> /\ n < 40 /\ InService(n)
      \/ writes = <<first>> /\ n >= 40 /\ pics.master.isr = {CASCADE_IRQ} /\ pics.slave.isr = {}
      \/ writes = <<second, first>> /\ n >= 40 /\ InService(n)
  BY <1>1, OutbContext DEF Acknowledging, first, second
<1>5. /\ pics' \in Pics
      /\ pics'.master.phase = pics.master.phase /\ pics'.master.base = pics.master.base
      /\ pics'.slave.phase = pics.slave.phase /\ pics'.slave.base = pics.slave.base
      /\ pics'.master.irr = pics.master.irr
      /\ Acknowledging(n)'
      /\ Head(writes) # Put(PIC1_COMMAND, ICW1)
  <2>1. CASE writes = <<first>> /\ pics.slave.isr = {} /\ \E x : pics.master.isr \in {{x}, {}}
    <3>1. pics' = outb(pics, first) /\ writes' = << >> /\ Head(writes) = first
      BY <2>1, OutbContext
    <3>2. PICK x : pics.master.isr \in {{x}, {}}
      BY <2>1
    <3>3. /\ pics' \in Pics /\ pics'.slave = pics.slave
          /\ pics'.master.phase = pics.master.phase /\ pics'.master.base = pics.master.base
          /\ pics'.master.irr = pics.master.irr /\ pics'.master.isr = {}
      BY <3>1, <3>2, OutbContext, EoiWrite DEF first
    <3>4. NoneInService'
      BY <2>1, <3>3 DEF NoneInService
    <3>5. Acknowledging(n)'
      BY <3>1, <3>4 DEF Acknowledging
    <3> QED
      BY <1>3, <3>1, <3>3, <3>5
  <2>2. CASE writes = <<second, first>> /\ n >= 40 /\ InService(n)
    <3>1. pics' = outb(pics, second) /\ writes' = <<first>> /\ Head(writes) = second
      BY <2>2, OutbContext
    <3>2. PICK x : pics.slave.isr \in {{x}, {}}
      BY <1>1, <2>2 DEF InService
    <3>3. pics.master.isr = {CASCADE_IRQ}
      BY <1>1, <2>2 DEF InService
    <3>4. /\ pics' \in Pics /\ pics'.master = pics.master
          /\ pics'.slave.phase = pics.slave.phase /\ pics'.slave.base = pics.slave.base
          /\ pics'.slave.isr = {}
      BY <3>1, <3>2, OutbContext, EoiWrite DEF second
    <3>5. Acknowledging(n)'
      BY <2>2, <3>1, <3>3, <3>4 DEF Acknowledging, first
    <3> QED
      BY <1>3, <3>1, <3>4, <3>5
  <2>3. n < 40 /\ InService(n) =>
          pics.slave.isr = {} /\ pics.master.isr \in {{n - 32}, {}}
    BY DEF InService
  <2> QED
    BY <1>4, <2>1, <2>2, <2>3
<1>6. deaf' = deaf
  BY <1>5, OutbContext DEF IInv, TypeInv
<1>7. TypeInv'
  BY <1>5, <1>6, OutbContext DEF IInv, TypeInv, Pics
<1>8. BootInv'
  <2>1. /\ pics.master.phase = "ready" /\ pics.master.base = 32
        /\ pics.slave.phase = "ready" /\ pics.slave.base = 40
    BY <1>1 DEF IInv, BootInv
  <2> QED
    BY <1>2, <1>5, <2>1 DEF BootInv
<1>9. HandlerInv'
  <2>1. Acknowledging(Number)'
    BY <1>2, <1>5 DEF Acknowledging, InService
  <2>2. Number' >= 32 /\ Number' \in 0 .. 47
    BY <1>1, <1>2
  <2> QED
    BY <1>2, <2>1, <2>2 DEF HandlerInv
<1>13. KeyboardInv'
  BY <1>5, <1>6, OutbContext, KeyboardStays DEF IInv
<1> QED
  BY <1>7, <1>8, <1>9, <1>13, OutbContext DEF IInv

LEMMA OutbStep ==
  ASSUME IInv, Outb
  PROVE  IInv'
<1>1. handler = "none" => pc \in {"exception_gates", "sti"}
  <2>1. writes # << >>
    BY OutbContext
  <2> QED
    BY <2>1 DEF IInv, TypeInv, BootInv
<1> QED
  BY <1>1, RemapOutb, MaskOutb, EoiOutb

-----------------------------------------------------------------------------
(* Entry.                                                                  *)

\* In kernel_main every vector has its gate, and what is pushed is a frame.
LEMMA Entered ==
  ASSUME IInv, pc = "run", handler = "none", NEW v \in (0 .. 47) \ {21, 29}, Enter(v)
  PROVE  /\ Framed' /\ Number' = v /\ handler' = "entered" /\ if_flag' = FALSE
         /\ writes = << >> /\ writes' = << >>
         /\ UNCHANGED <<pc, gdt, gates, idt_loaded, segs, mode, kbd, queue, obf, deaf, sent>>
<1>1. /\ idt_loaded /\ v \in DOMAIN gates /\ gates[v] = v
      /\ segs = [cs |-> 8, ds |-> 16, tr |-> 43]
      /\ stack = << >> /\ writes = << >>
  <2>1. v \in DOMAIN gates /\ gates[v] = v
    <3>1. v \in 0 .. 31 \/ v \in 32 .. 47
      OBVIOUS
    <3> QED
      BY <3>1 DEF IInv, GateInv
  <2> QED
    BY <2>1 DEF IInv, GateInv, SegmentInv, HandlerInv, BootInv
<1>2. /\ stack' = stack \o CpuPushes(v) \o Stub(gates[v]) \o PushAll
      /\ segs' = [segs EXCEPT !.cs = 8, !.ds = 16]
      /\ handler' = "entered" /\ if_flag' = FALSE
      /\ UNCHANGED <<pc, gdt, gates, idt_loaded, mode, writes, kbd, queue, obf, deaf, sent>>
  BY <1>1 DEF Enter, boot, keyboard
<1>3. segs' = segs
  <2>1. segs' = [[cs |-> 8, ds |-> 16, tr |-> 43] EXCEPT !.cs = 8, !.ds = 16]
    BY <1>1, <1>2
  <2>2. segs' = [cs |-> 8, ds |-> 16, tr |-> 43]
    BY <2>1
  <2> QED
    BY <1>1, <2>2
<1>4. stack' = << >> \o CpuPushes(v) \o Stub(v) \o PushAll
  BY <1>1, <1>2
<1>5. segs.cs = 8 /\ segs.ds = 16
  BY <1>1
<1> DEFINE s == << >> \o CpuPushes(v) \o Stub(v) \o PushAll
<1>6. /\ s \in Seq(Words) /\ Len(s) = 14
      /\ \A k \in 1 .. 14 : s[k][1] = FrameFields[15 - k]
      /\ s[2][2] = 8 /\ s[14][2] = 16 /\ s[5][2] = v
  BY <1>5, FramePushed
<1> HIDE DEF s
<1>7. Framed' /\ Number' = v
  BY <1>4, <1>6 DEF Framed, Number, s
<1> QED
  BY <1>1, <1>2, <1>3, <1>7

\* An interrupt that puts its line in service and leaves the other requests alone.
LEMMA EnterStep ==
  ASSUME IInv, pc = "run", handler = "none", NEW v \in (0 .. 47) \ {21, 29}, Enter(v),
         pics' \in Pics,
         UNCHANGED <<pics.master.phase, pics.master.base, pics.slave.phase, pics.slave.base>>,
         pics'.master.irr \subseteq pics.master.irr,
         v >= 32 => InService(v)',
         v = KEYBOARD => 1 \in pics.master.irr /\ 1 \notin pics'.master.irr,
         v # KEYBOARD => (1 \in pics'.master.irr <=> 1 \in pics.master.irr)
  PROVE  IInv'
<1>1. /\ Framed' /\ Number' = v /\ handler' = "entered" /\ if_flag' = FALSE
      /\ writes = << >> /\ writes' = << >>
      /\ UNCHANGED <<pc, gdt, gates, idt_loaded, segs, mode, kbd, queue, obf, deaf, sent>>
  BY Entered
<1>2. TypeInv'
  BY <1>1 DEF IInv, TypeInv, Pics
<1>3. BootInv'
  <2>1. /\ pics.master.phase = "ready" /\ pics.master.base = 32
        /\ pics.slave.phase = "ready" /\ pics.slave.base = 40
    BY DEF IInv, BootInv
  <2> QED
    BY <1>1, <2>1 DEF BootInv
<1>4. GateInv' /\ SegmentInv' /\ ModifiersInv'
  BY <1>1, GatesStay, SegmentsStay, ModifiersStay DEF IInv
<1>5. HandlerInv'
  <2>1. Number' >= 32 => InService(Number)'
    BY <1>1 DEF InService
  <2>2. Number' \in 0 .. 47
    BY <1>1
  <2> QED
    BY <1>1, <2>1, <2>2 DEF HandlerInv
<1>6. KeyboardInv'
  <2>1. ~ InKeyboardHandler
    BY DEF InKeyboardHandler
  <2>2. InKeyboardHandler' <=> v = KEYBOARD
    BY <1>1 DEF InKeyboardHandler
  <2>3. CASCADE_IRQ \notin pics'.master.irr
    BY DEF IInv, KeyboardInv
  <2>4. obf' = obf /\ deaf' = deaf /\ queue' = queue
    BY <1>1
  <2>5. /\ 1 \in pics.master.irr => obf
        /\ obf => queue # << >>
        /\ obf /\ ~ deaf => 1 \in pics.master.irr
    BY <2>1 DEF IInv, KeyboardInv
  <2>6. CASE v = KEYBOARD
    BY <2>2, <2>3, <2>4, <2>5, <2>6 DEF KeyboardInv
  <2>7. CASE v # KEYBOARD
    BY <2>2, <2>3, <2>4, <2>5, <2>7 DEF KeyboardInv
  <2> QED
    BY <2>6, <2>7
<1> QED
  BY <1>2, <1>3, <1>4, <1>5, <1>6 DEF IInv

\* Where interrupts are enabled, nothing is in service and both controllers are ready.
LEMMA EnabledContext ==
  ASSUME IInv, pc = "run", handler = "none"
  PROVE  /\ pics \in Pics /\ pics.master \in Controller /\ pics.slave \in Controller
         /\ pics.master.phase = "ready" /\ pics.master.base = 32 /\ pics.master.isr = {}
         /\ pics.slave.phase = "ready" /\ pics.slave.base = 40 /\ pics.slave.isr = {}
         /\ CASCADE_IRQ \notin pics.master.irr
BY DEF IInv, TypeInv, BootInv, HandlerInv, NoneInService, KeyboardInv, Pics

\* A line goes from requested to in service.
LEMMA AcknowledgeEffect ==
  ASSUME NEW c \in Controller, NEW l \in Lines
  PROVE  LET d == Acknowledge(c, l)
         IN  /\ d \in Controller /\ d.phase = c.phase /\ d.base = c.base
             /\ d.irr = c.irr \ {l} /\ d.isr = c.isr \union {l}
<1> DEFINE r == c.irr \ {l}
           s == c.isr \union {l}
<1>1. r \in SUBSET Lines /\ s \in SUBSET Lines
  BY DEF Controller
<1>2. Acknowledge(c, l) = [c EXCEPT !.irr = r, !.isr = s]
  BY DEF Acknowledge, Controller
<1> HIDE DEF r, s
<1>3. LET d == [c EXCEPT !.irr = r, !.isr = s]
      IN  d \in Controller /\ d.phase = c.phase /\ d.base = c.base /\ d.irr = r /\ d.isr = s
  BY <1>1 DEF Controller
<1> QED
  BY <1>2, <1>3 DEF r, s

LEMMA PendingQuiet ==
  ASSUME NEW c \in Controller, c.phase = "ready", c.isr = {}
  PROVE  Pending(c) \in SUBSET Lines /\ Pending(c) \subseteq c.irr
BY DEF Pending, Controller

\* The interrupt of the master's line l, or of the slave's line s.
LEMMA InterruptEffect ==
  ASSUME IInv, pc = "run", handler = "none", InterruptRequested(pics)
  PROVE  LET i == Interrupt(pics)
         IN  \/ \E l \in Lines :
                  /\ l # CASCADE_IRQ /\ l \in pics.master.irr /\ i.vector = 32 + l
                  /\ i.pics = [master |-> Acknowledge(pics.master, l), slave |-> pics.slave]
             \/ \E s \in Lines :
                  /\ i.vector = 40 + s
                  /\ i.pics = [master |-> Acknowledge(pics.master, CASCADE_IRQ),
                               slave |-> Acknowledge(pics.slave, s)]
<1> DEFINE m == WithCascade(pics)
           p == Pending(m)
           q == Pending(pics.slave)
           l == Min(p)
           s == Min(q)
           irr == IF q = {} THEN pics.master.irr ELSE pics.master.irr \union {CASCADE_IRQ}
<1>1. q \in SUBSET Lines
  BY EnabledContext, PendingQuiet
<1>2. p # {}
  BY DEF InterruptRequested
<1>3. m \in Controller /\ m.phase = "ready" /\ m.isr = {} /\ m.irr = irr
  <2>1. m = [pics.master EXCEPT !.irr = irr]
    BY EnabledContext DEF WithCascade, Controller
  <2>2. irr \in SUBSET Lines
    BY EnabledContext DEF Controller, Lines, CASCADE_IRQ
  <2> HIDE DEF irr, m
  <2> QED
    BY <2>1, <2>2, EnabledContext DEF Controller
<1>4. p \in SUBSET Lines /\ p \subseteq irr
  <2> HIDE DEF m, irr
  <2> QED
    BY <1>3, PendingQuiet
<1>5. l \in p /\ l \in Lines
  <2> HIDE DEF p
  <2> QED
    BY <1>2, <1>4, MinOfLines
<1>6. Interrupt(pics) =
        IF l # CASCADE_IRQ
        THEN [pics |-> [pics EXCEPT !.master = Acknowledge(pics.master, l)],
              vector |-> pics.master.base + l]
        ELSE [pics |-> [master |-> Acknowledge(pics.master, l),
                        slave |-> Acknowledge(pics.slave, s)],
              vector |-> pics.slave.base + s]
  BY EnabledContext DEF Interrupt, Pics
<1>7. CASE l # CASCADE_IRQ
  <2>1. l \in pics.master.irr
    BY <1>4, <1>5, <1>7
  <2> HIDE DEF l
  <2>2. [pics EXCEPT !.master = Acknowledge(pics.master, l)]
          = [master |-> Acknowledge(pics.master, l), slave |-> pics.slave]
    BY EnabledContext DEF Pics
  <2>3. Interrupt(pics).vector = 32 + l
    BY <1>6, <1>7, EnabledContext
  <2>4. Interrupt(pics).pics = [master |-> Acknowledge(pics.master, l), slave |-> pics.slave]
    BY <1>6, <1>7, <2>2
  <2> QED
    BY <1>5, <1>7, <2>1, <2>3, <2>4
<1>8. CASE l = CASCADE_IRQ
  <2>1. q # {}
    BY <1>4, <1>5, <1>8, EnabledContext
  <2>2. s \in Lines
    <3> HIDE DEF q
    <3> QED
      BY <1>1, <2>1, MinOfLines
  <2> HIDE DEF l, s
  <2>3. Interrupt(pics).vector = 40 + s
    BY <1>6, <1>8, EnabledContext
  <2>4. Interrupt(pics).pics = [master |-> Acknowledge(pics.master, CASCADE_IRQ),
                                slave |-> Acknowledge(pics.slave, s)]
    BY <1>6, <1>8
  <2> QED
    BY <2>2, <2>3, <2>4
<1> QED
  BY <1>7, <1>8

LEMMA AcceptStep ==
  ASSUME IInv, AcceptInterrupt
  PROVE  IInv'
<1> DEFINE i == Interrupt(pics)
<1>1. if_flag /\ InterruptRequested(pics) /\ pics' = i.pics /\ Enter(i.vector)
  BY DEF AcceptInterrupt
<1>2. pc = "run" /\ handler = "none"
  BY <1>1 DEF IInv, BootInv, HandlerInv
<1>3. CASE \E l \in Lines :
             /\ l # CASCADE_IRQ /\ l \in pics.master.irr /\ i.vector = 32 + l
             /\ i.pics = [master |-> Acknowledge(pics.master, l), slave |-> pics.slave]
  <2>1. PICK l \in Lines :
          /\ l # CASCADE_IRQ /\ l \in pics.master.irr /\ i.vector = 32 + l
          /\ i.pics = [master |-> Acknowledge(pics.master, l), slave |-> pics.slave]
    BY <1>3
  <2> DEFINE d == Acknowledge(pics.master, l)
  <2>2. /\ d \in Controller /\ d.phase = pics.master.phase /\ d.base = pics.master.base
        /\ d.irr = pics.master.irr \ {l} /\ d.isr = {l}
    BY <1>2, EnabledContext, AcknowledgeEffect
  <2>3. pics' = [master |-> d, slave |-> pics.slave]
    BY <1>1, <2>1
  <2>4. i.vector = 32 + l
    BY <2>1
  <2> HIDE DEF d
  <2> DEFINE v == 32 + l
  <2>5. Enter(v)
    BY <1>1, <2>4
  <2>6. v \in (0 .. 47) \ {21, 29} /\ v >= 32 /\ v < 40 /\ v - 32 = l /\ (v = KEYBOARD <=> l = 1)
    BY DEF Lines, KEYBOARD
  <2> HIDE DEF v, i
  <2>7. /\ pics' \in Pics /\ pics'.master = d /\ pics'.slave = pics.slave
    BY <1>2, <2>2, <2>3, EnabledContext DEF Pics
  <2>8. InService(v)'
    BY <1>2, <2>2, <2>6, <2>7, EnabledContext DEF InService
  <2>9. UNCHANGED <<pics.master.phase, pics.master.base, pics.slave.phase, pics.slave.base>>
    BY <2>2, <2>7
  <2>10. pics'.master.irr = pics.master.irr \ {l} /\ l \in pics.master.irr
    BY <2>1, <2>2, <2>7
  <2>11. v = KEYBOARD => 1 \in pics.master.irr /\ 1 \notin pics'.master.irr
    BY <2>6, <2>10
  <2>12. v # KEYBOARD => (1 \in pics'.master.irr <=> 1 \in pics.master.irr)
    BY <2>6, <2>10
  <2>13. pics'.master.irr \subseteq pics.master.irr
    BY <2>10
  <2>14. v \in (0 .. 47) \ {21, 29}
    BY <2>6
  <2> QED
    BY <1>2, <2>5, <2>7, <2>8, <2>9, <2>11, <2>12, <2>13, <2>14, EnterStep
<1>4. CASE \E s \in Lines :
             /\ i.vector = 40 + s
             /\ i.pics = [master |-> Acknowledge(pics.master, CASCADE_IRQ),
                          slave |-> Acknowledge(pics.slave, s)]
  <2>1. PICK s \in Lines :
          /\ i.vector = 40 + s
          /\ i.pics = [master |-> Acknowledge(pics.master, CASCADE_IRQ),
                       slave |-> Acknowledge(pics.slave, s)]
    BY <1>4
  <2> DEFINE d == Acknowledge(pics.master, CASCADE_IRQ)
             e == Acknowledge(pics.slave, s)
  <2>2. CASCADE_IRQ \in Lines
    BY DEF CASCADE_IRQ, Lines
  <2>3. /\ d \in Controller /\ d.phase = pics.master.phase /\ d.base = pics.master.base
        /\ d.irr = pics.master.irr /\ d.isr = {CASCADE_IRQ}
    <3>1. /\ d \in Controller /\ d.phase = pics.master.phase /\ d.base = pics.master.base
          /\ d.irr = pics.master.irr \ {CASCADE_IRQ}
          /\ d.isr = pics.master.isr \union {CASCADE_IRQ}
      BY <1>2, <2>2, EnabledContext, AcknowledgeEffect
    <3>2. pics.master.irr \ {CASCADE_IRQ} = pics.master.irr /\ pics.master.isr = {}
      BY <1>2, EnabledContext
    <3> QED
      BY <3>1, <3>2
  <2>4. /\ e \in Controller /\ e.phase = pics.slave.phase /\ e.base = pics.slave.base
        /\ e.isr = {s}
    BY <1>2, EnabledContext, AcknowledgeEffect
  <2>5. pics' = [master |-> d, slave |-> e]
    BY <1>1, <2>1
  <2>6. i.vector = 40 + s
    BY <2>1
  <2> HIDE DEF d, e
  <2> DEFINE v == 40 + s
  <2>7. Enter(v)
    BY <1>1, <2>6
  <2>8. v \in (0 .. 47) \ {21, 29} /\ ~ (v < 40) /\ v - 40 = s /\ v # KEYBOARD
    BY DEF Lines, KEYBOARD
  <2> HIDE DEF v, i
  <2>9. pics' \in Pics /\ pics'.master = d /\ pics'.slave = e
    BY <2>3, <2>4, <2>5 DEF Pics
  <2>10. InService(v)'
    BY <2>3, <2>4, <2>8, <2>9 DEF InService
  <2>11. UNCHANGED <<pics.master.phase, pics.master.base, pics.slave.phase, pics.slave.base>>
    BY <2>3, <2>4, <2>9
  <2>12. pics'.master.irr = pics.master.irr
    BY <2>3, <2>9
  <2>13. v \in (0 .. 47) \ {21, 29} /\ v # KEYBOARD
    BY <2>8
  <2> QED
    BY <1>2, <2>7, <2>9, <2>10, <2>11, <2>12, <2>13, EnterStep
<1> QED
  BY <1>1, <1>2, <1>3, <1>4, InterruptEffect

LEMMA FaultStep ==
  ASSUME IInv, NEW v \in Faults, Fault(v)
  PROVE  IInv'
<1>1. pc = "run" /\ handler = "none" /\ Enter(v) /\ pics' = pics
  BY DEF Fault
<1>2. v \in (0 .. 47) \ {21, 29} /\ ~ (v >= 32) /\ v # KEYBOARD
  BY InterruptsAssumption DEF KEYBOARD
<1>3. pics' \in Pics
  BY <1>1, EnabledContext
<1> QED
  BY <1>1, <1>2, <1>3, EnterStep

\* A spurious interrupt has the vector of line 7, and no line of its own in service.
LEMMA GlitchStep ==
  ASSUME IInv, NEW bySlave \in BOOLEAN, Glitch(bySlave)
  PROVE  IInv'
<1> DEFINE i == Spurious(pics, bySlave)
<1>1. if_flag /\ pics' = i.pics /\ Enter(i.vector)
  BY DEF Glitch
<1>2. pc = "run" /\ handler = "none"
  BY <1>1 DEF IInv, BootInv, HandlerInv
<1>3. CASE bySlave
  <2> DEFINE d == Acknowledge(pics.master, CASCADE_IRQ)
  <2>1. CASCADE_IRQ \in Lines
    BY DEF CASCADE_IRQ, Lines
  <2>2. /\ d \in Controller /\ d.phase = pics.master.phase /\ d.base = pics.master.base
        /\ d.irr = pics.master.irr /\ d.isr = {CASCADE_IRQ}
    <3>1. /\ d \in Controller /\ d.phase = pics.master.phase /\ d.base = pics.master.base
          /\ d.irr = pics.master.irr \ {CASCADE_IRQ}
          /\ d.isr = pics.master.isr \union {CASCADE_IRQ}
      BY <1>2, <2>1, EnabledContext, AcknowledgeEffect
    <3>2. pics.master.irr \ {CASCADE_IRQ} = pics.master.irr /\ pics.master.isr = {}
      BY <1>2, EnabledContext
    <3> QED
      BY <3>1, <3>2
  <2>3. pics' = [pics EXCEPT !.master = d] /\ i.vector = pics.slave.base + 7
    BY <1>1, <1>2, <1>3, EnabledContext DEF Spurious, Pics
  <2>4. i.vector = 47
    BY <1>2, <2>3, EnabledContext
  <2>5. Enter(47)
    BY <1>1, <2>4
  <2> HIDE DEF d, i
  <2>6. pics' \in Pics /\ pics'.master = d /\ pics'.slave = pics.slave
    BY <1>2, <2>2, <2>3, EnabledContext DEF Pics
  <2>7. InService(47)'
    BY <1>2, <2>2, <2>6, EnabledContext DEF InService
  <2>8. UNCHANGED <<pics.master.phase, pics.master.base, pics.slave.phase, pics.slave.base>>
    BY <2>2, <2>6
  <2>9. pics'.master.irr = pics.master.irr
    BY <2>2, <2>6
  <2>10. 47 \in (0 .. 47) \ {21, 29} /\ 47 # KEYBOARD
    BY DEF KEYBOARD
  <2> QED
    BY <1>2, <2>5, <2>6, <2>7, <2>8, <2>9, <2>10, EnterStep
<1>4. CASE ~ bySlave
  <2>1. pics' = pics /\ i.vector = pics.master.base + 7
    BY <1>1, <1>4 DEF Spurious
  <2>2. i.vector = 39
    BY <1>2, <2>1, EnabledContext
  <2>3. Enter(39)
    BY <1>1, <2>2
  <2> HIDE DEF i
  <2>4. InService(39)'
    BY <1>2, <2>1, EnabledContext DEF InService
  <2>5. 39 \in (0 .. 47) \ {21, 29} /\ 39 # KEYBOARD
    BY DEF KEYBOARD
  <2>6. pics' \in Pics
    BY <1>2, <2>1, EnabledContext
  <2> QED
    BY <1>2, <2>1, <2>3, <2>4, <2>5, <2>6, EnterStep
<1> QED
  BY <1>3, <1>4

-----------------------------------------------------------------------------
(* The handler.                                                            *)

\* keyboard_handler changes the modifiers by what the byte means.
LEMMA HandlerMeaning ==
  ASSUME NEW k \in Modifiers, NEW scancode \in Scancodes
  PROVE  keyboard_handler(k, scancode).kbd = Meaning(k, scancode)
<1> DEFINE n == keyboard_handler(k, scancode).kbd
<1>1. scancode.release \in BOOLEAN
  BY DEF Scancodes
<1>2. "caps_lock" \notin ShiftKeys
  BY DEF ShiftKeys
<1>3. CASE scancode.key \in ShiftKeys
  <2>1. n = [k EXCEPT !.shift_pressed = ~ scancode.release]
    BY <1>3 DEF keyboard_handler
  <2> QED
    BY <1>1, <1>2, <1>3, <2>1 DEF Modifiers, Meaning
<1>4. CASE scancode.key \notin ShiftKeys /\ scancode = [key |-> "caps_lock", release |-> FALSE]
  <2>1. n = [k EXCEPT !.caps_lock = ~ k.caps_lock]
    BY <1>4 DEF keyboard_handler
  <2> QED
    BY <1>4, <2>1 DEF Modifiers, Meaning
<1>5. CASE scancode.key \notin ShiftKeys /\ scancode # [key |-> "caps_lock", release |-> FALSE]
  <2>1. scancode.release \/ scancode.key # "caps_lock"
    BY <1>1, <1>5 DEF Scancodes
  <2>2. n = k
    BY <1>5, <2>1 DEF keyboard_handler
  <2> QED
    BY <1>5, <2>2 DEF Modifiers, Meaning
<1> QED
  BY <1>3, <1>4, <1>5

\* The writes that acknowledge a controllers' interrupt.
LEMMA AcknowledgeWrites ==
  ASSUME NEW n \in 32 .. 47
  PROVE  LET w == pic_acknowledge(n)
         IN  /\ w \in Seq(Write)
             /\ n < 40 => w = <<Eoi(PIC1_COMMAND)>>
             /\ n >= 40 => w = <<Eoi(PIC2_COMMAND), Eoi(PIC1_COMMAND)>>
<1> DEFINE first == Eoi(PIC1_COMMAND)
           second == Eoi(PIC2_COMMAND)
<1>1. /\ PIC1_COMMAND \in Ports /\ PIC2_COMMAND \in Ports /\ PIC_EOI \in Bytes
  BY DEF PIC1_COMMAND, PIC2_COMMAND, PIC_EOI, Ports, Bytes
<1>2. first \in Write /\ second \in Write
  BY <1>1 DEF Eoi, Put, Write
<1>3. /\ n < 40 => pic_acknowledge(n) = <<first>>
      /\ n >= 40 => pic_acknowledge(n) = <<second, first>>
  BY DEF pic_acknowledge, Eoi, Put, PIC1_START_INTERRUPT, PIC2_START_INTERRUPT, PIC2_END_INTERRUPT
<1> HIDE DEF first, second
<1>4. <<first>> \in Seq(Write) /\ <<second, first>> \in Seq(Write)
  BY <1>2
<1>5. pic_acknowledge(n) \in Seq(Write)
  <2> DEFINE short == <<first>>
             long == <<second, first>>
  <2>1. pic_acknowledge(n) = short \/ pic_acknowledge(n) = long
    BY <1>3
  <2>2. short \in Seq(Write) /\ long \in Seq(Write)
    BY <1>4
  <2> HIDE DEF short, long
  <2> QED
    BY <2>1, <2>2
<1>6. /\ n < 40 => pic_acknowledge(n) = <<Eoi(PIC1_COMMAND)>>
      /\ n >= 40 => pic_acknowledge(n) = <<Eoi(PIC2_COMMAND), Eoi(PIC1_COMMAND)>>
  BY <1>3 DEF first, second
<1> QED
  BY <1>5, <1>6

\* An interrupt of the controllers: the byte is there, and is read; the writes are due.
LEMMA HandleIrqStep ==
  ASSUME IInv, exception_handler, Number >= 32
  PROVE  IInv'
<1>1. /\ handler = "entered" /\ Framed /\ Number \in 32 .. 47 /\ ~ if_flag /\ pc = "run"
      /\ InService(Number)
  <2>1. handler = "entered"
    BY DEF exception_handler
  <2>2. Framed /\ Number \in 0 .. 47 /\ ~ if_flag /\ pc = "run" /\ InService(Number)
    BY <2>1 DEF IInv, HandlerInv, BootInv
  <2>3. Number \in 32 .. 47
    BY <2>2
  <2> QED
    BY <2>1, <2>2, <2>3
<1>2. interrupt_num = Number
  BY <1>1, FieldsFit
<1>3. PICK n \in 32 .. 47 : n = Number
  BY <1>1
<1>4. /\ IF n = KEYBOARD THEN ReadScancode ELSE UNCHANGED <<kbd, queue, obf, deaf, sent>>
      /\ writes' = pic_acknowledge(n) /\ handler' = "returning"
      /\ UNCHANGED <<mode, if_flag, pc, gdt, gates, idt_loaded, segs, stack, pics>>
  BY <1>2, <1>3 DEF exception_handler, IsPicInterrupt, HandleIrq, boot, keyboard
<1>5. Framed' /\ Number' = n
  BY <1>1, <1>3, <1>4, FrameStays
<1>6. n = KEYBOARD => obf /\ 1 \notin pics.master.irr /\ queue # << >>
  BY <1>1, <1>3 DEF IInv, KeyboardInv, InKeyboardHandler
<1>7. /\ ModifiersInv' /\ kbd' \in Modifiers /\ queue' \in Seq(Scancodes)
      /\ deaf' = deaf /\ sent' = sent
      /\ n = KEYBOARD => obf' = FALSE
      /\ n # KEYBOARD => obf' = obf /\ queue' = queue
  <2>1. CASE n = KEYBOARD
    <3>1. /\ kbd' = keyboard_handler(kbd, Head(queue)).kbd /\ queue' = Tail(queue)
          /\ obf' = FALSE /\ deaf' = deaf /\ sent' = sent
      BY <1>4, <1>6, <2>1 DEF ReadScancode
    <3>2. /\ Leads(queue, kbd, sent) /\ queue \in Seq(Scancodes) /\ queue # << >>
          /\ kbd \in Modifiers /\ sent \in Modifiers
      BY <1>6, <2>1 DEF IInv, TypeInv, ModifiersInv
    <3>3. Head(queue) \in Scancodes /\ Tail(queue) \in Seq(Scancodes)
      BY <3>2
    <3>4. kbd' = Meaning(kbd, Head(queue)) /\ kbd' \in Modifiers
      BY <3>1, <3>2, <3>3, HandlerMeaning, MeaningType
    <3>5. Leads(queue', kbd', sent')
      BY <3>1, <3>2, <3>4, ReadByte
    <3> QED
      BY <2>1, <3>1, <3>3, <3>4, <3>5 DEF ModifiersInv
  <2>2. CASE n # KEYBOARD
    <3>1. UNCHANGED <<kbd, queue, obf, deaf, sent>>
      BY <1>4, <2>2
    <3> QED
      BY <2>2, <3>1, ModifiersStay DEF IInv, TypeInv
  <2> QED
    BY <2>1, <2>2
<1>8. writes' \in Seq(Write) /\ Acknowledging(n)'
  <2>1. writes' \in Seq(Write)
    BY <1>4, AcknowledgeWrites
  <2>2. InService(n)'
    BY <1>1, <1>3, <1>4 DEF InService
  <2>3. CASE n < 40
    BY <1>4, <2>2, <2>3, AcknowledgeWrites DEF Acknowledging
  <2>4. CASE n >= 40
    BY <1>4, <2>2, <2>4, AcknowledgeWrites DEF Acknowledging
  <2> QED
    BY <2>1, <2>3, <2>4
<1>9. TypeInv'
  <2>1. obf' \in BOOLEAN
    BY <1>7 DEF IInv, TypeInv
  <2> QED
    BY <1>4, <1>7, <1>8, <2>1 DEF IInv, TypeInv
<1>10. BootInv'
  <2>1. /\ pics.master.phase = "ready" /\ pics.master.base = 32
        /\ pics.slave.phase = "ready" /\ pics.slave.base = 40
    BY <1>1 DEF IInv, BootInv
  <2> QED
    BY <1>1, <1>4, <2>1 DEF BootInv
<1>11. GateInv' /\ SegmentInv'
  BY <1>4, GatesStay, SegmentsStay DEF IInv
<1>12. HandlerInv'
  <2>1. Acknowledging(Number)'
    BY <1>5, <1>8 DEF Acknowledging, InService
  <2>2. Number' >= 32 /\ Number' \in 0 .. 47
    BY <1>5
  <2> QED
    BY <1>1, <1>4, <1>5, <2>1, <2>2 DEF HandlerInv
<1>13. KeyboardInv'
  <2>1. ~ InKeyboardHandler' /\ pics' = pics
    BY <1>4 DEF InKeyboardHandler
  <2>2. KeyboardInv
    BY DEF IInv
  <2>3. CASE n = KEYBOARD
    BY <1>6, <1>7, <2>1, <2>2, <2>3 DEF KeyboardInv
  <2>4. CASE n # KEYBOARD
    <3>1. ~ InKeyboardHandler
      BY <1>3, <2>4 DEF InKeyboardHandler
    <3> QED
      BY <1>7, <2>1, <2>2, <2>4, <3>1 DEF KeyboardInv
  <2> QED
    BY <2>3, <2>4
<1> QED
  BY <1>7, <1>9, <1>10, <1>11, <1>12, <1>13 DEF IInv

\* An exception: the handler stops the machine.
LEMMA HandleExceptionStep ==
  ASSUME IInv, exception_handler, ~ (Number >= 32)
  PROVE  IInv'
<1>1. handler = "entered" /\ Framed
  BY DEF exception_handler, IInv, HandlerInv
<1>2. interrupt_num = Number
  BY <1>1, FieldsFit
<1>3. /\ mode' = "halted" /\ if_flag' = FALSE
      /\ UNCHANGED <<writes, handler, kbd, queue, obf, deaf, sent, pc, gdt, gates, idt_loaded,
                     segs, stack, pics>>
  BY <1>2 DEF exception_handler, IsPicInterrupt, HandleException, boot, keyboard
<1>4. ~ if_flag
  BY <1>1 DEF IInv, HandlerInv
<1>5. if_flag' = if_flag
  BY <1>3, <1>4 DEF IInv, TypeInv
<1>6. TypeInv'
  BY <1>3 DEF IInv, TypeInv
<1>7. BootInv'
  BY <1>3, BootStays DEF IInv
<1>8. GateInv' /\ SegmentInv' /\ ModifiersInv'
  BY <1>3, GatesStay, SegmentsStay, ModifiersStay DEF IInv
<1>9. HandlerInv' /\ KeyboardInv'
  BY <1>3, <1>5, HandlerStays, KeyboardStays DEF IInv
<1> QED
  BY <1>6, <1>7, <1>8, <1>9 DEF IInv

LEMMA Prefix ==
  ASSUME NEW S, NEW q \in Seq(S), NEW n \in Nat, n <= Len(q)
  PROVE  LET r == SubSeq(q, 1, n)
         IN  r \in Seq(S) /\ Len(r) = n /\ \A k \in 1 .. n : r[k] = q[k]
OBVIOUS

\* The frame is the whole stack; below the segment and the general registers, the number
\* and the error code lie iret's words.
LEMMA ReturnStep ==
  ASSUME IInv, IsrReturn
  PROVE  IInv'
<1>1. /\ handler = "returning" /\ writes = << >> /\ Framed /\ Acknowledging(Number)
      /\ pc = "run" /\ segs = [cs |-> 8, ds |-> 16, tr |-> 43]
  BY DEF IsrReturn, IInv, HandlerInv, BootInv, SegmentInv
<1> DEFINE s == Pop(stack, 1 + 8 + 2)
<1>2. /\ stack' = Pop(s, 3) /\ if_flag' = (s[Len(s) - 2][2] = 1)
      /\ segs' = [segs EXCEPT !.cs = s[Len(s) - 1][2], !.ds = stack[Len(stack)][2]]
      /\ handler' = "none"
      /\ UNCHANGED <<pc, gdt, gates, idt_loaded, writes, mode, pics, kbd, queue, obf, deaf, sent>>
  BY DEF IsrReturn, boot, keyboard
<1>3. stack \in Seq(Words) /\ Len(stack) = 14 /\ stack[2][2] = 8 /\ stack[14][2] = 16
  BY <1>1 DEF Framed
<1>4. s \in Seq(Words) /\ Len(s) = 3 /\ s[2] = stack[2]
  <2>1. s = SubSeq(stack, 1, 3)
    BY <1>3 DEF Pop
  <2> DEFINE n == 3
  <2>2. n \in Nat /\ n <= Len(stack) /\ s = SubSeq(stack, 1, n)
    BY <1>3, <2>1
  <2> HIDE DEF n, s
  <2>3. s \in Seq(Words) /\ Len(s) = n /\ \A k \in 1 .. n : s[k] = stack[k]
    BY <1>3, <2>2, Prefix
  <2>4. 2 \in 1 .. n
    BY DEF n
  <2> QED
    BY <2>3, <2>4 DEF n
<1> HIDE DEF s
<1>5. stack' = << >>
  BY <1>2, <1>4 DEF Pop
<1>6. segs' = [cs |-> 8, ds |-> 16, tr |-> 43]
  <2> DEFINE cs == s[Len(s) - 1][2]
             ds == stack[Len(stack)][2]
  <2>1. cs = 8 /\ ds = 16
    <3>1. Len(s) - 1 = 2 /\ Len(stack) = 14
      BY <1>3, <1>4
    <3> QED
      BY <1>3, <1>4, <3>1
  <2>2. segs' = [segs EXCEPT !.cs = cs, !.ds = ds]
    BY <1>2
  <2> HIDE DEF cs, ds
  <2>3. segs' = [[cs |-> 8, ds |-> 16, tr |-> 43] EXCEPT !.cs = 8, !.ds = 16]
    BY <1>1, <2>1, <2>2
  <2> QED
    BY <2>3
<1>7. NoneInService
  BY <1>1 DEF Acknowledging
<1>8. if_flag' \in BOOLEAN
  BY <1>2
<1>9. TypeInv'
  BY <1>2, <1>8 DEF IInv, TypeInv
<1>10. BootInv'
  <2>1. /\ pics.master.phase = "ready" /\ pics.master.base = 32
        /\ pics.slave.phase = "ready" /\ pics.slave.base = 40
    BY <1>1 DEF IInv, BootInv
  <2> QED
    BY <1>1, <1>2, <2>1 DEF BootInv
<1>11. GateInv' /\ ModifiersInv'
  BY <1>2, GatesStay, ModifiersStay DEF IInv
<1>12. SegmentInv'
  BY <1>1, <1>2, <1>6 DEF IInv, SegmentInv
<1>13. HandlerInv'
  BY <1>2, <1>5, <1>7 DEF HandlerInv, NoneInService
<1>14. KeyboardInv'
  <2>1. ~ InKeyboardHandler /\ ~ InKeyboardHandler'
    BY <1>1, <1>2 DEF InKeyboardHandler
  <2> QED
    BY <1>2, <2>1 DEF IInv, KeyboardInv
<1> QED
  BY <1>9, <1>10, <1>11, <1>12, <1>13, <1>14 DEF IInv

-----------------------------------------------------------------------------
(* Devices.                                                                *)

\* A byte joins the queue.
LEMMA SendStep ==
  ASSUME IInv, NEW scancode \in [key : TypedKeys, release : BOOLEAN], SendByte(scancode)
  PROVE  IInv'
<1>1. scancode \in Scancodes
  BY InterruptsAssumption DEF Scancodes
<1>2. /\ sent' = Meaning(sent, scancode)
      /\ queue' = Append(queue, scancode)
      /\ UNCHANGED <<pc, gdt, gates, idt_loaded, segs, writes, if_flag, mode, stack, handler,
                     kbd, pics, obf, deaf>>
  BY DEF SendByte, program, boot
<1>3. /\ queue \in Seq(Scancodes) /\ kbd \in Modifiers /\ sent \in Modifiers
      /\ Leads(queue, kbd, sent)
  BY DEF IInv, TypeInv, ModifiersInv
<1>4. queue' \in Seq(Scancodes) /\ queue' # << >>
  BY <1>1, <1>2, <1>3
<1>5. sent' \in Modifiers
  BY <1>1, <1>2, <1>3, MeaningType
<1>6. TypeInv'
  BY <1>2, <1>4, <1>5 DEF IInv, TypeInv
<1>7. BootInv'
  BY <1>2, BootStays DEF IInv
<1>8. GateInv' /\ SegmentInv'
  BY <1>2, GatesStay, SegmentsStay DEF IInv
<1>9. HandlerInv'
  BY <1>2, HandlerStays DEF IInv
<1>10. KeyboardInv'
  <2>1. InKeyboardHandler' <=> InKeyboardHandler
    BY <1>2, FrameStays DEF InKeyboardHandler
  <2> QED
    BY <1>2, <1>4, <2>1 DEF IInv, KeyboardInv
<1>11. ModifiersInv'
  BY <1>1, <1>2, <1>3, AddByte DEF ModifiersInv
<1> QED
  BY <1>6, <1>7, <1>8, <1>9, <1>10, <1>11 DEF IInv

\* A line of the master or the slave is requested.
LEMMA RaiseEffect ==
  ASSUME NEW p \in Pics, NEW line \in 0 .. 15
  PROVE  LET q == Raise(p, line)
         IN  /\ q \in Pics
             /\ q.master.phase = p.master.phase /\ q.master.base = p.master.base
             /\ q.slave.phase = p.slave.phase /\ q.slave.base = p.slave.base
             /\ q.master.isr = p.master.isr /\ q.slave.isr = p.slave.isr
             /\ q.master.irr = p.master.irr \union (IF line < 8 THEN {line} ELSE {})
             /\ p.slave.irr \subseteq q.slave.irr
<1>1. p.master \in Controller /\ p.slave \in Controller
  BY DEF Pics
<1>2. CASE line < 8
  <2> DEFINE r == p.master.irr \union {line}
             c == [p.master EXCEPT !.irr = r]
  <2>1. r \in SUBSET Lines
    BY <1>1, <1>2 DEF Controller, Lines
  <2>2. Raise(p, line) = [p EXCEPT !.master = c]
    BY <1>1, <1>2 DEF Raise, Pics, Controller
  <2> HIDE DEF r
  <2>3. /\ c \in Controller /\ c.phase = p.master.phase /\ c.base = p.master.base
        /\ c.isr = p.master.isr /\ c.irr = r
    BY <1>1, <2>1 DEF Controller
  <2> HIDE DEF c
  <2>4. LET q == [p EXCEPT !.master = c]
        IN  q \in Pics /\ q.master = c /\ q.slave = p.slave
    BY <2>3 DEF Pics
  <2> QED
    BY <1>2, <2>2, <2>3, <2>4 DEF r
<1>3. CASE ~ (line < 8)
  <2> DEFINE r == p.slave.irr \union {line - 8}
             c == [p.slave EXCEPT !.irr = r]
  <2>1. r \in SUBSET Lines
    BY <1>1, <1>3 DEF Controller, Lines
  <2>2. Raise(p, line) = [p EXCEPT !.slave = c]
    BY <1>1, <1>3 DEF Raise, Pics, Controller
  <2> HIDE DEF r
  <2>3. /\ c \in Controller /\ c.phase = p.slave.phase /\ c.base = p.slave.base
        /\ c.isr = p.slave.isr /\ p.slave.irr \subseteq c.irr
    BY <1>1, <2>1 DEF Controller, r
  <2> HIDE DEF c
  <2>4. LET q == [p EXCEPT !.slave = c]
        IN  q \in Pics /\ q.master = p.master /\ q.slave = c
    BY <2>3 DEF Pics
  <2> QED
    BY <1>3, <2>2, <2>3, <2>4
<1> QED
  BY <1>2, <1>3

\* What a request leaves alone.
LEMMA RequestStays ==
  ASSUME IInv, NEW line \in 0 .. 15, pics' = Raise(pics, line), obf' \in BOOLEAN,
         UNCHANGED <<pc, gdt, gates, idt_loaded, segs, writes, if_flag, mode, stack, handler,
                     kbd, queue, deaf, sent>>
  PROVE  /\ TypeInv' /\ BootInv' /\ GateInv' /\ SegmentInv' /\ HandlerInv' /\ ModifiersInv'
         /\ pics'.master.irr = pics.master.irr \union (IF line < 8 THEN {line} ELSE {})
<1>1. pics \in Pics
  BY DEF IInv, TypeInv, Pics
<1>2. /\ pics' \in Pics
      /\ pics'.master.phase = pics.master.phase /\ pics'.master.base = pics.master.base
      /\ pics'.slave.phase = pics.slave.phase /\ pics'.slave.base = pics.slave.base
      /\ pics'.master.isr = pics.master.isr /\ pics'.slave.isr = pics.slave.isr
      /\ pics'.master.irr = pics.master.irr \union (IF line < 8 THEN {line} ELSE {})
  BY <1>1, RaiseEffect
<1>3. TypeInv'
  BY <1>2 DEF IInv, TypeInv, Pics
<1>4. BootInv'
  BY <1>2, BootStays DEF IInv
<1>5. GateInv' /\ SegmentInv' /\ ModifiersInv'
  BY GatesStay, SegmentsStay, ModifiersStay DEF IInv
<1>6. HandlerInv'
  BY <1>2, HandlerStays DEF IInv
<1> QED
  BY <1>2, <1>3, <1>4, <1>5, <1>6

LEMMA OfferByteStep ==
  ASSUME IInv, OfferByte
  PROVE  IInv'
<1>1. /\ ~ obf /\ queue # << >> /\ obf' = TRUE /\ pics' = Raise(pics, 1)
      /\ UNCHANGED <<pc, gdt, gates, idt_loaded, segs, writes, if_flag, mode, stack, handler,
                     kbd, queue, deaf, sent>>
  BY DEF OfferByte, program, boot
<1>2. 1 \in 0 .. 15 /\ 1 < 8
  OBVIOUS
<1>3. /\ TypeInv' /\ BootInv' /\ GateInv' /\ SegmentInv' /\ HandlerInv' /\ ModifiersInv'
      /\ pics'.master.irr = pics.master.irr \union {1}
  BY <1>1, <1>2, RequestStays
<1>4. InKeyboardHandler' <=> InKeyboardHandler
  BY <1>1, FrameStays DEF InKeyboardHandler
<1>5. KeyboardInv'
  <2>1. ~ InKeyboardHandler /\ CASCADE_IRQ \notin pics.master.irr /\ CASCADE_IRQ # 1
    BY <1>1 DEF IInv, KeyboardInv, CASCADE_IRQ
  <2> QED
    BY <1>1, <1>3, <1>4, <2>1 DEF KeyboardInv
<1> QED
  BY <1>3, <1>5 DEF IInv

LEMMA RaiseLineStep ==
  ASSUME IInv, NEW line \in OtherLines, RaiseLine(line)
  PROVE  IInv'
<1>1. /\ pics' = Raise(pics, line)
      /\ UNCHANGED <<pc, gdt, gates, idt_loaded, segs, writes, if_flag, mode, stack, handler,
                     kbd, queue, obf, deaf, sent>>
  BY DEF RaiseLine, program, boot, keyboard
<1>2. line \in 0 .. 15 /\ line # 1 /\ line # CASCADE_IRQ
  BY InterruptsAssumption
<1>3. obf' \in BOOLEAN
  BY <1>1 DEF IInv, TypeInv
<1>4. /\ TypeInv' /\ BootInv' /\ GateInv' /\ SegmentInv' /\ HandlerInv' /\ ModifiersInv'
      /\ pics'.master.irr = pics.master.irr \union (IF line < 8 THEN {line} ELSE {})
  BY <1>1, <1>2, <1>3, RequestStays
<1>5. /\ CASCADE_IRQ \in pics'.master.irr <=> CASCADE_IRQ \in pics.master.irr
      /\ 1 \in pics'.master.irr <=> 1 \in pics.master.irr
  BY <1>2, <1>4
<1>6. InKeyboardHandler' <=> InKeyboardHandler
  BY <1>1, FrameStays DEF InKeyboardHandler
<1>7. KeyboardInv'
  BY <1>1, <1>5, <1>6 DEF IInv, KeyboardInv
<1> QED
  BY <1>4, <1>7 DEF IInv

-----------------------------------------------------------------------------
(* The invariant, and the properties it implies.                           *)

LEMMA StutterStep ==
  ASSUME IInv, UNCHANGED vars
  PROVE  IInv'
<1>1. /\ UNCHANGED <<pc, writes, gdt, segs, gates, idt_loaded, if_flag, mode, stack, handler>>
      /\ UNCHANGED <<pics, kbd, queue, obf, deaf, sent>>
  BY DEF vars
<1>2. TypeInv'
  BY <1>1 DEF IInv, TypeInv
<1>3. BootInv' /\ GateInv' /\ SegmentInv'
  BY <1>1, BootStays, GatesStay, SegmentsStay DEF IInv
<1>4. HandlerInv' /\ KeyboardInv' /\ ModifiersInv'
  BY <1>1, HandlerStays, KeyboardStays, ModifiersStay DEF IInv
<1> QED
  BY <1>2, <1>3, <1>4 DEF IInv

LEMMA CpuStep ==
  ASSUME IInv, Cpu
  PROVE  IInv'
<1>1. CASE InitGdt
  BY <1>1, InitGdtStep
<1>2. CASE InitIdt
  BY <1>2, ClearIdtStep, ExceptionGatesStep, IrqGatesStep, LoadIdtStep, ClearMaskStep, StiStep
     DEF InitIdt
<1>3. CASE Outb
  BY <1>3, OutbStep
<1>4. CASE AcceptInterrupt
  BY <1>4, AcceptStep
<1>5. CASE exception_handler
  BY <1>5, HandleIrqStep, HandleExceptionStep
<1>6. CASE IsrReturn
  BY <1>6, ReturnStep
<1> QED
  BY <1>1, <1>2, <1>3, <1>4, <1>5, <1>6 DEF Cpu

LEMMA NextStep == IInv /\ [Next]_vars => IInv'
<1> SUFFICES ASSUME IInv, [Next]_vars PROVE IInv'
  OBVIOUS
<1>1. CASE Cpu
  BY <1>1, CpuStep
<1>2. ASSUME NEW vector \in Faults, Fault(vector)
      PROVE  IInv'
  BY <1>2, FaultStep
<1>3. ASSUME NEW key \in TypedKeys, NEW release \in BOOLEAN,
             SendByte([key |-> key, release |-> release])
      PROVE  IInv'
  BY <1>3, SendStep
<1>4. CASE OfferByte
  BY <1>4, OfferByteStep
<1>5. ASSUME NEW line \in OtherLines, RaiseLine(line)
      PROVE  IInv'
  BY <1>5, RaiseLineStep
<1>6. ASSUME NEW bySlave \in BOOLEAN, Glitch(bySlave)
      PROVE  IInv'
  BY <1>6, GlitchStep
<1>7. CASE UNCHANGED vars
  BY <1>7, StutterStep
<1> QED
  BY <1>1, <1>2, <1>3, <1>4, <1>5, <1>6, <1>7 DEF Next

\* The inductive invariant holds in every state: the boot's place in its port writes, the
\* gates and segments it has installed by then, the frame of a handler with its line in
\* service, the request of a byte that waits, and the shift keys the queue still tells of.
THEOREM InterruptsInvariant == Spec => []IInv
<1>1. Init => IInv
  BY Beginning
<1>2. IInv /\ [Next]_vars => IInv'
  BY NextStep
<1> QED
  BY <1>1, <1>2, PTL DEF Spec

\* Every variable keeps its type; a frame is on the stack exactly while a handler runs.
THEOREM InterruptsTypeCorrect == Spec => []TypeOK
<1>1. IInv => TypeOK
  <2> SUFFICES ASSUME IInv PROVE TypeOK
    OBVIOUS
  <2>1. writes \in Seq(Write)
    BY DEF IInv, TypeInv
  <2>2. DOMAIN gates \subseteq 0 .. 255
    BY DEF IInv, GateInv
  <2>3. handler = "none" => Len(stack) = 0
    BY DEF IInv, HandlerInv
  <2>4. Len(FrameFields) = 14
    BY DEF FrameFields
  <2>5. handler # "none" => Len(stack) = Len(FrameFields)
    BY <2>4 DEF IInv, HandlerInv, Framed
  <2>6. Len(stack) = IF handler = "none" THEN 0 ELSE Len(FrameFields)
    BY <2>3, <2>5
  <2>7. mode \in {"running", "halted", "reset"}
    BY DEF IInv, TypeInv
  <2>8. /\ pc \in {"init_gdt", "memset", "exception_gates", "irq_gates", "lidt", "clear_mask",
                  "sti", "run"}
        /\ idt_loaded \in BOOLEAN /\ if_flag \in BOOLEAN
        /\ handler \in {"none", "entered", "returning"}
        /\ pics \in [master : Controller, slave : Controller]
        /\ kbd \in Modifiers
        /\ queue \in Seq(Scancodes) /\ obf \in BOOLEAN
        /\ sent \in Modifiers
    BY DEF IInv, TypeInv
  <2> QED
    BY <2>1, <2>2, <2>6, <2>7, <2>8, Zenon DEF TypeOK
<1> QED
  BY <1>1, InterruptsInvariant, PTL

\* init_idt installs every gate that can be needed before it enables interrupts: no
\* interrupt, exception or glitch resets the machine, whichever line, fault and moment.
THEOREM GatesPresent == Spec => []NeverReset
<1>1. IInv => NeverReset
  BY DEF IInv, TypeInv, NeverReset
<1> QED
  BY <1>1, InterruptsInvariant, PTL

\* The number that exception_handler acts on is that of the line in service, on the right
\* controllers, and the acknowledgements leave nothing in service behind a handler.
THEOREM ServiceMatches == Spec => []ServiceMatchesFrame
<1>1. IInv => ServiceMatchesFrame
  <2> SUFFICES ASSUME IInv PROVE ServiceMatchesFrame
    OBVIOUS
  <2>1. handler = "none" => pics.master.isr = {} /\ pics.slave.isr = {}
    BY DEF IInv, HandlerInv, NoneInService
  <2>2. handler # "none" => ~ if_flag
    BY DEF IInv, HandlerInv
  <2>3. SUFFICES ASSUME handler = "entered", IsPicInterrupt
        PROVE  LET line == interrupt_num - 32
               IN  IF line < 8
                   THEN /\ pics.slave.isr = {}
                        /\ pics.master.isr = {line} \/ (line = 7 /\ pics.master.isr = {})
                   ELSE /\ pics.master.isr = {CASCADE_IRQ}
                        /\ pics.slave.isr = {line - 8} \/ (line = 15 /\ pics.slave.isr = {})
    BY <2>1, <2>2 DEF ServiceMatchesFrame
  <2>4. interrupt_num = Number /\ Number \in 0 .. 47
    BY <2>3, FieldsFit DEF IInv, HandlerInv
  <2>5. PICK n \in 0 .. 47 : n = interrupt_num /\ n = Number
    BY <2>4
  <2>6. n >= 32 /\ InService(n)
    BY <2>3, <2>5 DEF IInv, HandlerInv, IsPicInterrupt
  <2>7. CASE n < 40
    BY <2>5, <2>6, <2>7 DEF InService
  <2>8. CASE ~ (n < 40)
    <3>1. (n - 32) - 8 = n - 40
      OBVIOUS
    <3> QED
      BY <2>5, <2>6, <2>8, <3>1 DEF InService
  <2> QED
    BY <2>7, <2>8
<1> QED
  BY <1>1, InterruptsInvariant, PTL

\* Whatever the CPU and the stubs push for a vector, every word lies in the field of
\* interrupt_frame_t that has its name.
THEOREM FramesMatch == Spec => []FramesFitStack
<1>1. IInv => FramesFitStack
  BY FieldsFit DEF IInv, HandlerInv, FramesFitStack
<1> QED
  BY <1>1, InterruptsInvariant, PTL

\* The selectors in the segment registers always name the kernel's flat segments and its
\* task segment in the table that init_gdt builds.
THEOREM SegmentsStayFit == Spec => []SegmentsFit
<1>1. IInv => SegmentsFit
  BY SelectorsFit DEF IInv, SegmentInv, SegmentsFit
<1> QED
  BY <1>1, InterruptsInvariant, PTL

\* A byte of the keyboard that waits is never forgotten, but by pic_remap, and
\* keyboard_handler never reads a byte that is not there.
THEOREM KeyboardArmed == Spec => []KeyboardStaysArmed
<1>1. IInv => KeyboardStaysArmed
  <2> SUFFICES ASSUME IInv PROVE KeyboardStaysArmed
    OBVIOUS
  <2>1. handler = "entered" => interrupt_num = Number
    BY FieldsFit DEF IInv, HandlerInv
  <2> QED
    BY <2>1 DEF IInv, KeyboardInv, InKeyboardHandler, KeyboardStaysArmed
<1> QED
  BY <1>1, InterruptsInvariant, PTL

\* Once the bytes are read, the modifiers are what all of them, in their order, stand
\* for: for every sequence of bytes of any keys.
THEOREM ModifiersFollow == Spec => []ModifiersFollowBytes
<1>1. IInv => ModifiersFollowBytes
  BY EmptyQueue DEF IInv, TypeInv, ModifiersInv, ModifiersFollowBytes
<1> QED
  BY <1>1, InterruptsInvariant, PTL

-----------------------------------------------------------------------------
(* Requests, step by step.                                                 *)

Kept(line) == LineRequested(line) => LineRequested(line)' \/ EnteredFor(line) \/ Reinitialized(line)

\* A step that takes no request away.
LEMMA NothingLost ==
  ASSUME pics.master.irr \subseteq pics'.master.irr, pics.slave.irr \subseteq pics'.slave.irr
  PROVE  \A line \in DeviceLines : Kept(line)
<1>1. \A line \in DeviceLines : LineRequested(line) => LineRequested(line)'
  BY DEF LineRequested
<1> QED
  BY <1>1 DEF Kept

\* Of the bytes the kernel writes, only the first initialization word forgets requests.
LEMMA CommandKeeps ==
  ASSUME NEW c \in Controller
  PROVE  Command(c, PIC_EOI).irr = c.irr
<1>1. PIC_EOI # ICW1
  BY DEF PIC_EOI, ICW1
<1> QED
  BY <1>1 DEF Command, Controller

LEMMA WriteKeeps ==
  ASSUME NEW p \in Pics, NEW byte \in Bytes,
         NEW w \in Quiet(byte) \union {Eoi(PIC1_COMMAND), Eoi(PIC2_COMMAND)}
  PROVE  /\ w = Put(PIC1_COMMAND, ICW1) \/ outb(p, w).master.irr = p.master.irr
         /\ w = Put(PIC2_COMMAND, ICW1) \/ outb(p, w).slave.irr = p.slave.irr
<1>1. p.master \in Controller /\ p.slave \in Controller
  BY DEF Pics
<1>2. CASE w = Put(PIC1_COMMAND, ICW1)
  BY <1>2, OutbFields
<1>3. CASE w = Put(PIC2_COMMAND, ICW1)
  BY <1>3, OutbFields
<1>4. CASE w = Put(PIC1_DATA, byte)
  BY <1>1, <1>4, OutbFields, DataEffect
<1>5. CASE w = Put(PIC2_DATA, byte)
  BY <1>1, <1>5, OutbFields, DataEffect
<1>6. CASE w = Eoi(PIC1_COMMAND)
  <2>1. w = Put(PIC1_COMMAND, PIC_EOI)
    BY <1>6 DEF Eoi
  <2> QED
    BY <1>1, <2>1, OutbFields, CommandKeeps
<1>7. CASE w = Eoi(PIC2_COMMAND)
  <2>1. w = Put(PIC2_COMMAND, PIC_EOI)
    BY <1>7 DEF Eoi
  <2> QED
    BY <1>1, <2>1, OutbFields, CommandKeeps
<1> QED
  BY <1>2, <1>3, <1>4, <1>5, <1>6, <1>7 DEF Quiet

\* Initialization words are written in pic_remap only.
LEMMA WritesOf ==
  ASSUME IInv, Outb
  PROVE  /\ \E byte \in Bytes :
              Head(writes) \in Quiet(byte) \union {Eoi(PIC1_COMMAND), Eoi(PIC2_COMMAND)}
         /\ Head(writes) \in {Put(PIC1_COMMAND, ICW1), Put(PIC2_COMMAND, ICW1)} =>
              pc = "exception_gates"
<1>1. writes # << >> /\ 0 \in Bytes
  BY OutbContext DEF Bytes
<1>2. CASE pc = "exception_gates"
  BY <1>2, RemapHead
<1>3. CASE pc = "sti"
  <2>1. PICK byte \in Bytes : writes = << Put(PIC1_DATA, byte) >>
    BY <1>1, <1>3 DEF IInv, BootInv
  <2>2. Head(writes) = Put(PIC1_DATA, byte)
    BY <2>1
  <2>3. Put(PIC1_DATA, byte) \notin {Put(PIC1_COMMAND, ICW1), Put(PIC2_COMMAND, ICW1)}
    BY DEF Put, PIC1_DATA, PIC1_COMMAND, PIC2_COMMAND
  <2> QED
    BY <2>2, <2>3 DEF Quiet
<1>4. CASE pc = "run"
  <2> DEFINE first == Eoi(PIC1_COMMAND)
             second == Eoi(PIC2_COMMAND)
  <2>1. {first, second} \intersect {Put(PIC1_COMMAND, ICW1), Put(PIC2_COMMAND, ICW1)} = {}
    BY DEF Eoi, Put, PIC_EOI, ICW1
  <2>2. handler = "returning"
    BY <1>1, <1>4 DEF IInv, TypeInv, BootInv, HandlerInv
  <2>3. Acknowledging(Number)
    BY <2>2 DEF IInv, HandlerInv
  <2>4. writes = <<first>> \/ writes = <<second, first>>
    BY <1>1, <2>3 DEF Acknowledging
  <2> HIDE DEF first, second
  <2>5. Head(writes) \in {first, second}
    BY <2>4
  <2> QED
    BY <1>1, <2>1, <2>5 DEF first, second
<1>5. pc \in {"exception_gates", "sti", "run"}
  BY <1>1 DEF IInv, TypeInv, BootInv
<1> QED
  BY <1>2, <1>3, <1>4, <1>5

LEMMA OutbKept ==
  ASSUME IInv, Outb
  PROVE  \A line \in DeviceLines : Kept(line)
<1>1. PICK byte \in Bytes :
        Head(writes) \in Quiet(byte) \union {Eoi(PIC1_COMMAND), Eoi(PIC2_COMMAND)}
  BY WritesOf
<1> DEFINE w == Head(writes)
<1>2. w = Put(PIC1_COMMAND, ICW1) \/ w = Put(PIC2_COMMAND, ICW1) => pc = "exception_gates"
  BY WritesOf
<1>3. pics \in Pics /\ pics' = outb(pics, w) /\ writes # << >>
  BY OutbContext
<1>4. \A line : Reinitialized(line) <=>
        pc = "exception_gates" /\ w = IF line < 8 THEN Put(PIC1_COMMAND, ICW1)
                                                  ELSE Put(PIC2_COMMAND, ICW1)
  BY <1>3 DEF Reinitialized, Put
<1>5. w \in Quiet(byte) \union {Eoi(PIC1_COMMAND), Eoi(PIC2_COMMAND)}
  BY <1>1
<1> HIDE DEF w
<1>6. /\ w = Put(PIC1_COMMAND, ICW1) \/ pics'.master.irr = pics.master.irr
      /\ w = Put(PIC2_COMMAND, ICW1) \/ pics'.slave.irr = pics.slave.irr
  BY <1>3, <1>5, WriteKeeps
<1>7. ASSUME NEW line \in DeviceLines
      PROVE  Kept(line)
  <2>1. CASE line < 8
    BY <1>2, <1>4, <1>6, <2>1 DEF Kept, LineRequested
  <2>2. CASE ~ (line < 8)
    BY <1>2, <1>4, <1>6, <2>2 DEF Kept, LineRequested
  <2> QED
    BY <2>1, <2>2
<1> QED
  BY <1>7

\* The number of the frame on the stack, after a step.
LEMMA NextNumber == Framed' => interrupt_num' = Number'
<1>1. Framed => interrupt_num = Number
  BY FieldsFit
<1>2. (Framed => interrupt_num = Number)'
  BY <1>1, PTL
<1> QED
  BY <1>2

\* The only request that goes with an accepted interrupt is that of the frame's number.
LEMMA AcceptKept ==
  ASSUME IInv, AcceptInterrupt
  PROVE  \A line \in DeviceLines : Kept(line)
<1> DEFINE i == Interrupt(pics)
<1>1. if_flag /\ InterruptRequested(pics) /\ pics' = i.pics /\ Enter(i.vector)
  BY DEF AcceptInterrupt
<1>2. pc = "run" /\ handler = "none"
  BY <1>1 DEF IInv, BootInv, HandlerInv
<1>3. ASSUME NEW v \in 32 .. 47, i.vector = v
      PROVE  handler' = "entered" /\ interrupt_num' = v
  <2>1. v \in (0 .. 47) \ {21, 29} /\ Enter(v)
    BY <1>1, <1>3
  <2>2. Framed' /\ Number' = v /\ handler' = "entered"
    BY <1>2, <2>1, Entered
  <2> QED
    BY <2>2, NextNumber
<1>4. CASE \E l \in Lines :
             /\ l # CASCADE_IRQ /\ l \in pics.master.irr /\ i.vector = 32 + l
             /\ i.pics = [master |-> Acknowledge(pics.master, l), slave |-> pics.slave]
  <2>1. PICK l \in Lines :
          /\ l # CASCADE_IRQ /\ l \in pics.master.irr /\ i.vector = 32 + l
          /\ i.pics = [master |-> Acknowledge(pics.master, l), slave |-> pics.slave]
    BY <1>4
  <2>2. pics'.master.irr = pics.master.irr \ {l} /\ pics'.slave.irr = pics.slave.irr
    <3>1. pics' = [master |-> Acknowledge(pics.master, l), slave |-> pics.slave]
      BY <1>1, <2>1
    <3>2. Acknowledge(pics.master, l).irr = pics.master.irr \ {l}
      BY <1>2, EnabledContext, AcknowledgeEffect
    <3> QED
      BY <3>1, <3>2
  <2>3. 32 + l \in 32 .. 47 /\ i.vector = 32 + l
    BY <2>1 DEF Lines
  <2> HIDE DEF i
  <2>4. handler' = "entered" /\ interrupt_num' = 32 + l
    BY <1>3, <2>3
  <2>5. TAKE line \in DeviceLines
  <2>6. CASE line = l
    BY <1>2, <2>4, <2>6 DEF Kept, EnteredFor
  <2>7. CASE line # l
    <3>1. LineRequested(line) => LineRequested(line)'
      BY <2>2, <2>7 DEF LineRequested
    <3> QED
      BY <3>1 DEF Kept
  <2> QED
    BY <2>6, <2>7
<1>5. CASE \E s \in Lines :
             /\ i.vector = 40 + s
             /\ i.pics = [master |-> Acknowledge(pics.master, CASCADE_IRQ),
                          slave |-> Acknowledge(pics.slave, s)]
  <2>1. PICK s \in Lines :
          /\ i.vector = 40 + s
          /\ i.pics = [master |-> Acknowledge(pics.master, CASCADE_IRQ),
                       slave |-> Acknowledge(pics.slave, s)]
    BY <1>5
  <2>2. /\ pics'.master.irr = pics.master.irr \ {CASCADE_IRQ}
        /\ pics'.slave.irr = pics.slave.irr \ {s}
    <3>1. pics' = [master |-> Acknowledge(pics.master, CASCADE_IRQ),
                   slave |-> Acknowledge(pics.slave, s)]
      BY <1>1, <2>1
    <3>2. CASCADE_IRQ \in Lines
      BY DEF CASCADE_IRQ, Lines
    <3>3. /\ Acknowledge(pics.master, CASCADE_IRQ).irr = pics.master.irr \ {CASCADE_IRQ}
          /\ Acknowledge(pics.slave, s).irr = pics.slave.irr \ {s}
      BY <1>2, <3>2, EnabledContext, AcknowledgeEffect
    <3> QED
      BY <3>1, <3>3
  <2>3. 40 + s \in 32 .. 47 /\ i.vector = 40 + s
    BY <2>1 DEF Lines
  <2> HIDE DEF i
  <2>4. handler' = "entered" /\ interrupt_num' = 40 + s
    BY <1>3, <2>3
  <2>5. TAKE line \in DeviceLines
  <2>6. line \in 0 .. 15 /\ line # CASCADE_IRQ
    BY DEF DeviceLines
  <2>7. CASE line = 8 + s
    <3>1. 32 + line = 40 + s
      BY <2>7 DEF Lines
    <3> QED
      BY <1>2, <2>4, <3>1 DEF Kept, EnteredFor
  <2>8. CASE line # 8 + s
    <3>1. line - 8 # s
      BY <2>6, <2>8 DEF Lines
    <3>2. LineRequested(line) => LineRequested(line)'
      BY <2>2, <2>6, <3>1 DEF LineRequested
    <3> QED
      BY <3>2 DEF Kept
  <2> QED
    BY <2>7, <2>8
<1> QED
  BY <1>1, <1>2, <1>4, <1>5, InterruptEffect

\* A spurious interrupt takes no device's request.
LEMMA GlitchKept ==
  ASSUME IInv, NEW bySlave \in BOOLEAN, Glitch(bySlave)
  PROVE  \A line \in DeviceLines : Kept(line)
<1>1. if_flag /\ pics' = Spurious(pics, bySlave).pics
  BY DEF Glitch
<1>2. pc = "run" /\ handler = "none"
  BY <1>1 DEF IInv, BootInv, HandlerInv
<1>3. CASE bySlave
  <2> DEFINE d == Acknowledge(pics.master, CASCADE_IRQ)
  <2>1. CASCADE_IRQ \in Lines
    BY DEF CASCADE_IRQ, Lines
  <2>2. d.irr = pics.master.irr \ {CASCADE_IRQ}
    BY <1>2, <2>1, EnabledContext, AcknowledgeEffect
  <2>3. pics' = [pics EXCEPT !.master = d]
    BY <1>1, <1>2, <1>3, EnabledContext DEF Spurious, Pics
  <2> HIDE DEF d
  <2>4. pics'.master = d /\ pics'.slave = pics.slave
    BY <1>2, <2>3, EnabledContext DEF Pics
  <2>5. pics.master.irr \subseteq pics'.master.irr
    BY <1>2, <2>2, <2>4, EnabledContext
  <2> QED
    BY <2>4, <2>5, NothingLost
<1>4. CASE ~ bySlave
  <2>1. pics' = pics
    BY <1>1, <1>4 DEF Spurious
  <2> QED
    BY <2>1, NothingLost
<1> QED
  BY <1>3, <1>4

\* A rising edge adds a request.
LEMMA RaiseKept ==
  ASSUME IInv, NEW raised \in 0 .. 15, pics' = Raise(pics, raised)
  PROVE  \A line \in DeviceLines : Kept(line)
<1>1. pics \in Pics
  BY DEF IInv, TypeInv, Pics
<1>2. pics.master.irr \subseteq pics'.master.irr /\ pics.slave.irr \subseteq pics'.slave.irr
  BY <1>1, RaiseEffect
<1> QED
  BY <1>2, NothingLost

\* The steps that do not touch the controllers, and the others.
LEMMA NextKept ==
  ASSUME IInv, [Next]_vars
  PROVE  \A line \in DeviceLines : Kept(line)
<1>1. CASE pics' = pics
  BY <1>1, NothingLost
<1>2. CASE Outb
  BY <1>2, OutbKept
<1>3. CASE AcceptInterrupt
  BY <1>3, AcceptKept
<1>4. ASSUME NEW bySlave \in BOOLEAN, Glitch(bySlave)
      PROVE  \A line \in DeviceLines : Kept(line)
  BY <1>4, GlitchKept
<1>5. CASE OfferByte
  <2>1. pics' = Raise(pics, 1) /\ 1 \in 0 .. 15
    BY <1>5 DEF OfferByte
  <2> QED
    BY <2>1, RaiseKept
<1>6. ASSUME NEW raised \in OtherLines, RaiseLine(raised)
      PROVE  \A line \in DeviceLines : Kept(line)
  <2>1. pics' = Raise(pics, raised) /\ raised \in 0 .. 15
    BY <1>6, InterruptsAssumption DEF RaiseLine
  <2> QED
    BY <2>1, RaiseKept
<1>7. InitGdt \/ InitIdt \/ exception_handler \/ IsrReturn => pics' = pics
  BY DEF InitGdt, InitIdt, ClearIdt, ExceptionGates, IrqGates, InstallGates, LoadIdt, ClearMask,
         Sti, Part, exception_handler, IsrReturn
<1>8. ASSUME NEW vector \in Faults, Fault(vector)
      PROVE  pics' = pics
  BY <1>8 DEF Fault
<1>9. ASSUME NEW scancode, SendByte(scancode)
      PROVE  pics' = pics
  BY <1>9 DEF SendByte
<1>10. UNCHANGED vars => pics' = pics
  BY DEF vars
<1> QED
  BY <1>1, <1>2, <1>3, <1>4, <1>5, <1>6, <1>7, <1>8, <1>9, <1>10 DEF Next, Cpu

\* No request is lost: a line's request goes only as exception_handler is entered with the
\* line's number in the frame, or as pic_remap initializes the line's controller, whatever
\* lines are raised, in whatever number and order.
THEOREM RequestsAreKept == Spec => RequestsKept
<1>1. IInv /\ [Next]_vars =>
        [\A line \in DeviceLines :
           LineRequested(line) => LineRequested(line)' \/ EnteredFor(line) \/ Reinitialized(line)]_vars
  BY NextKept DEF Kept
<1> QED
  BY <1>1, InterruptsInvariant, PTL DEF Spec, RequestsKept
=============================================================================
