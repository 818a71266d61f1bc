-------------------------------- MODULE Pic --------------------------------
(***************************************************************************)
(* The two interrupt controllers and interrupt/pic.h, which programs them. *)
(*                                                                         *)
(* A controller (an 8259A, external) has a mask register imr, requests irr *)
(* latched on the rising edge of a line, interrupts in service isr, the    *)
(* base of its vectors, and a phase: the next byte its data port expects.  *)
(* Sets of line numbers stand for the registers.  The functions of pic.h   *)
(* are the sequences of port writes they make.                             *)
(***************************************************************************)
EXTENDS Integers, Sequences, FiniteSetsExt

PIC1_COMMAND == 32
PIC1_DATA == 33
PIC2_COMMAND == 160
PIC2_DATA == 161
PIC_EOI == 32
ICW1 == 17             \* ICW1_INIT | ICW1_ICW4
ICW4_8086 == 1
CASCADE_IRQ == 2
PIC1_START_INTERRUPT == 32
PIC2_START_INTERRUPT == 40
PIC2_END_INTERRUPT == 47

Lines == 0 .. 7

Controller ==
  [ phase : {"ready", "icw2", "icw3", "icw4"}, base : 0 .. 248,
    imr : SUBSET Lines, irr : SUBSET Lines, isr : SUBSET Lines ]

\* A register's byte has one bit for each line.
Weight == <<1, 2, 4, 8, 16, 32, 64, 128>>
Bits(byte) == {b \in Lines : (byte \div Weight[b + 1]) % 2 = 1}
Byte(lines) ==
  LET Bit(b) == IF b \in lines THEN Weight[b + 1] ELSE 0
  IN  Bit(0) + Bit(1) + Bit(2) + Bit(3) + Bit(4) + Bit(5) + Bit(6) + Bit(7)

-----------------------------------------------------------------------------
(* The controllers.                                                        *)

\* A byte written to the command port: the first initialization word, which also
\* forgets every latched edge, or a non-specific end of interrupt.
Command(c, byte) ==
  IF byte = ICW1
  THEN [c EXCEPT !.phase = "icw2", !.imr = {}, !.irr = {}, !.isr = {}]
  ELSE IF byte = PIC_EOI /\ c.isr # {} THEN [c EXCEPT !.isr = @ \ {Min(@)}]
  ELSE c

\* A byte written to the data port.
Data(c, byte) ==
  CASE c.phase = "icw2" -> [c EXCEPT !.phase = "icw3", !.base = byte - (byte % 8)]
    [] c.phase = "icw3" -> [c EXCEPT !.phase = "icw4"]
    [] c.phase = "icw4" -> [c EXCEPT !.phase = "ready"]
    [] OTHER            -> [c EXCEPT !.imr = Bits(byte)]

outb(pics, write) ==
  LET port == write[1]
      byte == write[2]
  IN  CASE port = PIC1_COMMAND -> [pics EXCEPT !.master = Command(@, byte)]
        [] port = PIC1_DATA    -> [pics EXCEPT !.master = Data(@, byte)]
        [] port = PIC2_COMMAND -> [pics EXCEPT !.slave = Command(@, byte)]
        [] port = PIC2_DATA    -> [pics EXCEPT !.slave = Data(@, byte)]

\* The mask register, read from the data port.
inb(pics, port) == Byte(IF port = PIC1_DATA THEN pics.master.imr ELSE pics.slave.imr)

\* The requests that are not masked and outrank everything in service.
Pending(c) ==
  IF c.phase # "ready" THEN {}
  ELSE {l \in c.irr \ c.imr : \A s \in c.isr : l < s}

\* The slave's output is line 2 of the master.
WithCascade(pics) ==
  [pics.master EXCEPT !.irr = IF Pending(pics.slave) = {} THEN @ ELSE @ \union {CASCADE_IRQ}]

InterruptRequested(pics) == Pending(WithCascade(pics)) # {}

\* The line goes from requested to in service.
Acknowledge(c, l) == [c EXCEPT !.irr = @ \ {l}, !.isr = @ \union {l}]

\* What the CPU's acknowledge cycle does, and the vector it reads.
Interrupt(pics) ==
  LET l == Min(Pending(WithCascade(pics)))
  IN  IF l # CASCADE_IRQ
      THEN [pics |-> [pics EXCEPT !.master = Acknowledge(@, l)],
            vector |-> pics.master.base + l]
      ELSE LET s == Min(Pending(pics.slave))
           IN  [pics |-> [master |-> Acknowledge(pics.master, l),
                          slave |-> Acknowledge(pics.slave, s)],
                vector |-> pics.slave.base + s]

\* The same when the request has gone by then: the vector is that of line 7, and
\* nothing is in service, except line 2 of the master if the slave had asked.
Spurious(pics, bySlave) ==
  IF bySlave
  THEN [pics |-> [pics EXCEPT !.master = Acknowledge(@, CASCADE_IRQ)],
        vector |-> pics.slave.base + 7]
  ELSE [pics |-> pics, vector |-> pics.master.base + 7]

\* A rising edge on one of the lines 0 .. 15.
Raise(pics, line) ==
  IF line < 8 THEN [pics EXCEPT !.master.irr = @ \union {line}]
  ELSE [pics EXCEPT !.slave.irr = @ \union {line - 8}]

-----------------------------------------------------------------------------
(* The functions of pic.h, as the port writes they make.                   *)

\* Mutant of pic_remap: the second words of both controllers are swapped.
pic_remap_OffsetsSwapped(offset1, offset2) ==
  << <<PIC1_COMMAND, ICW1>>, <<PIC2_COMMAND, ICW1>>,
     <<PIC1_DATA, offset2>>, <<PIC2_DATA, offset1>>,
     <<PIC1_DATA, Weight[CASCADE_IRQ + 1]>>, <<PIC2_DATA, 2>>,
     <<PIC1_DATA, ICW4_8086>>, <<PIC2_DATA, ICW4_8086>>,
     <<PIC1_DATA, 0>>, <<PIC2_DATA, 0>> >>

\* Initialization words 1 to 4 of both controllers, then open masks.
pic_remap(offset1, offset2) ==
  << <<PIC1_COMMAND, ICW1>>, <<PIC2_COMMAND, ICW1>>,
     <<PIC1_DATA, offset1>>, <<PIC2_DATA, offset2>>,
     <<PIC1_DATA, Weight[CASCADE_IRQ + 1]>>, <<PIC2_DATA, 2>>,
     <<PIC1_DATA, ICW4_8086>>, <<PIC2_DATA, ICW4_8086>>,
     <<PIC1_DATA, 0>>, <<PIC2_DATA, 0>> >>

\* Mutant of pic_acknowledge: the first vector of the slave counts as the master's.
pic_acknowledge_OffByOne(interrupt) ==
  IF interrupt < PIC1_START_INTERRUPT \/ interrupt > PIC2_END_INTERRUPT THEN << >>
  ELSE IF interrupt > PIC2_START_INTERRUPT
  THEN << <<PIC2_COMMAND, PIC_EOI>>, <<PIC1_COMMAND, PIC_EOI>> >>
  ELSE << <<PIC1_COMMAND, PIC_EOI>> >>

\* Slave first, then master.
pic_acknowledge(interrupt) ==
  IF interrupt < PIC1_START_INTERRUPT \/ interrupt > PIC2_END_INTERRUPT THEN << >>
  ELSE IF interrupt >= PIC2_START_INTERRUPT
  THEN << <<PIC2_COMMAND, PIC_EOI>>, <<PIC1_COMMAND, PIC_EOI>> >>
  ELSE << <<PIC1_COMMAND, PIC_EOI>> >>

\* The mask is read, and written back without the line.
irq_clear_mask(pics, line) ==
  LET port == IF line < 8 THEN PIC1_DATA ELSE PIC2_DATA
  IN  << <<port, Byte(Bits(inb(pics, port)) \ {line % 8})>> >>
=============================================================================
