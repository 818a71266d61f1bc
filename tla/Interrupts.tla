----------------------------- MODULE Interrupts -----------------------------
(***************************************************************************)
(* Interrupts from a line of a device to the handler and back: init_gdt,   *)
(* init_idt, one port write after the other, the gates, stubs and segment  *)
(* registers, the frame on the stack, exception_handler with               *)
(* keyboard_handler in it, and the keyboard controller, whose next byte    *)
(* comes only after the last one was read.                                 *)
(*                                                                         *)
(* kernel_main is "run" behind init_idt: it may fault there, and ends in a *)
(* loop around hlt.  All gates are interrupt gates: handlers do not nest.  *)
(***************************************************************************)
EXTENDS Pic, Keyboard, Segments

CONSTANTS
  TypedKeys,     \* the keys whose bytes the keyboard sends
  OtherLines,    \* the lines raised besides the keyboard's
  Faults,        \* the exceptions kernel_main may raise
  MaxQueue,      \* bound: bytes in the keyboard and its controller
  MaxEvents      \* bound: bytes of the keyboard, edges and glitches

\* Exceptions 21 and 29, which push an error code their stubs do not expect, belong
\* to extensions (shadow stacks, encrypted guests) that this kernel does not enable.
ASSUME InterruptsAssumption ==
  /\ TypedKeys \subseteq Keys
  /\ OtherLines \subseteq 0 .. 15 /\ OtherLines \intersect {1, CASCADE_IRQ} = {}
  /\ Faults \subseteq 0 .. 31 /\ Faults \intersect {21, 29} = {}
  /\ {MaxQueue, MaxEvents} \subseteq Nat

VARIABLES
  pc,           \* "init_gdt", the next part of init_idt, or "run"
  writes,       \* the port writes that the current part has still to make
  gdt,          \* the segment descriptors that lgdt has loaded
  segs,         \* the selectors in cs, in the data segment registers, and in tr
  gates,        \* idt_entries: the stub of each vector that has a gate
  idt_loaded,   \* whether lidt has loaded it
  if_flag,      \* the interrupt flag of eflags
  mode,         \* "running", "halted" by cli; hlt, or "reset" by a missing gate
  stack,        \* what interrupts have pushed, the top last
  handler,      \* "none", "entered" exception_handler, or "returning"
  pics,         \* the two controllers
  kbd,          \* shift_pressed and caps_lock
  queue, obf,   \* scancodes not yet read; whether the first is in the output buffer
  deaf,         \* history: an edge of the keyboard was forgotten by pic_remap
  sent,         \* history: the modifiers that the bytes sent so far stand for
  events        \* how many events there were

vars == <<pc, writes, gdt, segs, gates, idt_loaded, if_flag, mode, stack, handler, pics, kbd,
          queue, obf, deaf, sent, events>>
boot == <<pc, gdt, gates, idt_loaded>>
keyboard == <<kbd, queue, obf, deaf, sent>>

Reset(base) == [phase |-> "ready", base |-> base, imr |-> {}, irr |-> {}, isr |-> {}]

\* After boot.nasm's cli, with the controllers as the BIOS programs them and the
\* segments of the boot loader, whose table nobody knows.
Init ==
  /\ pc = "init_gdt" /\ gdt = << >> /\ segs = [cs |-> 16, ds |-> 24, tr |-> 0]
  /\ writes = << >> /\ gates = << >> /\ idt_loaded = FALSE
  /\ if_flag = FALSE /\ mode = "running" /\ stack = << >> /\ handler = "none"
  /\ pics = [master |-> Reset(8), slave |-> Reset(112)]
  /\ kbd = [shift_pressed |-> FALSE, caps_lock |-> FALSE] /\ sent = kbd
  /\ queue = << >> /\ obf = FALSE /\ deaf = FALSE
  /\ events = 0

-----------------------------------------------------------------------------
(* init_gdt and init_idt.                                                  *)

KEYBOARD == 33

\* A part of init_idt begins when the port writes of the one before are done.
Part(from, to) ==
  /\ mode = "running" /\ handler = "none" /\ writes = << >>
  /\ pc = from /\ pc' = to
  /\ UNCHANGED <<mode, stack, handler, pics, keyboard, events>>

\* kernel_main loads the segments before init_idt: lgdt, ltr, flush_segments.
InitGdt ==
  /\ Part("init_gdt", "memset")
  /\ gdt' = init_gdt /\ segs' = [cs |-> 8, ds |-> 16, tr |-> 43]
  /\ UNCHANGED <<writes, gates, idt_loaded, if_flag>>

ClearIdt ==
  /\ Part("memset", "exception_gates")
  /\ gates' = << >> /\ writes' = pic_remap(32, 40)
  /\ UNCHANGED <<gdt, segs, idt_loaded, if_flag>>

InstallGates(from, vectors, to) ==
  /\ Part(from, to)
  /\ gates' = [v \in vectors \union DOMAIN gates |-> IF v \in vectors THEN v ELSE gates[v]]
  /\ UNCHANGED <<gdt, segs, writes, idt_loaded, if_flag>>

ExceptionGates == InstallGates("exception_gates", 0 .. 31, "irq_gates")

\* Mutant of IrqGates: vector < 15.
IrqGates_OneShort == InstallGates("irq_gates", 32 .. 46, "lidt")

IrqGates == InstallGates("irq_gates", 32 .. 47, "lidt")

LoadIdt ==
  /\ Part("lidt", "clear_mask")
  /\ idt_loaded' = TRUE
  /\ UNCHANGED <<gdt, segs, writes, gates, if_flag>>

ClearMask ==
  /\ Part("clear_mask", "sti")
  /\ writes' = irq_clear_mask(pics, 1)
  /\ UNCHANGED <<gdt, segs, gates, idt_loaded, if_flag>>

Sti ==
  /\ Part("sti", "run")
  /\ if_flag' = TRUE
  /\ UNCHANGED <<gdt, segs, writes, gates, idt_loaded>>

InitIdt == ClearIdt \/ ExceptionGates \/ IrqGates \/ LoadIdt \/ ClearMask \/ Sti

\* The next port write, of init_idt or of a handler.  The initialization of the
\* master forgets an edge whose line stays high.
Outb ==
  /\ mode = "running" /\ writes # << >>
  /\ pics' = outb(pics, Head(writes))
  /\ writes' = Tail(writes)
  /\ deaf' = (deaf \/ (obf /\ Head(writes) = <<PIC1_COMMAND, ICW1>>))
  /\ UNCHANGED <<boot, segs, if_flag, mode, stack, handler, kbd, queue, obf, sent, events>>

-----------------------------------------------------------------------------
(* Entry and return.  A word on the stack has a name and a value.          *)

\* The exceptions for which the CPU pushes an error code.
ErrorCodeVectors == {8, 10, 11, 12, 13, 14, 17, 21, 29, 30}

CpuPushes(vector) ==
  << <<"eflags", IF if_flag THEN 1 ELSE 0>>, <<"cs", segs.cs>>, <<"eip", 0>> >>
    \o (IF vector \in ErrorCodeVectors THEN << <<"error_code", vector>> >> ELSE << >>)

\* Mutant of Stub: the table of stubs takes vector 14 for one without error code.
Stub_PageFault(n) ==
  (IF n \in {8, 10, 11, 12, 13, 17, 30} THEN << >> ELSE << <<"error_code", 0>> >>)
    \o << <<"interrupt_num", n>> >>

\* isr_err_stub and isr_no_err_stub.
Stub(n) ==
  (IF n \in {8, 10, 11, 12, 13, 14, 17, 30} THEN << >> ELSE << <<"error_code", 0>> >>)
    \o << <<"interrupt_num", n>> >>

\* pushad and the push of ds in isr_common_stub.
PushAll ==
  << <<"eax", 0>>, <<"ecx", 0>>, <<"edx", 0>>, <<"ebx", 0>>, <<"esp", 0>>, <<"ebp", 0>>,
     <<"esi", 0>>, <<"edi", 0>>, <<"ds", segs.ds>> >>

\* interrupt_frame_t: its fields, from the top of the stack on.
FrameFields ==
  <<"ds", "edi", "esi", "ebp", "esp", "ebx", "edx", "ecx", "eax",
    "interrupt_num", "error_code", "eip", "cs", "eflags">>

FrameWord(field) ==
  stack[Len(stack) + 1 - (CHOOSE k \in DOMAIN FrameFields : FrameFields[k] = field)]

interrupt_num == FrameWord("interrupt_num")[2]

\* The CPU takes an interrupt or exception: through its gate, or not at all.  The
\* gate has the selector of the handler's code, the stub loads that of its data.
Enter(vector) ==
  /\ IF idt_loaded /\ vector \in DOMAIN gates
     THEN /\ stack' = stack \o CpuPushes(vector) \o Stub(gates[vector]) \o PushAll
          /\ segs' = [segs EXCEPT !.cs = 8, !.ds = 16]
          /\ handler' = "entered" /\ UNCHANGED mode
     ELSE /\ mode' = "reset" /\ UNCHANGED <<stack, segs, handler>>
  /\ if_flag' = FALSE
  /\ UNCHANGED <<boot, writes, keyboard>>

AcceptInterrupt ==
  /\ mode = "running" /\ if_flag /\ InterruptRequested(pics)
  /\ LET i == Interrupt(pics) IN pics' = i.pics /\ Enter(i.vector)
  /\ UNCHANGED events

Fault(vector) ==
  /\ mode = "running" /\ pc = "run" /\ handler = "none"
  /\ Enter(vector)
  /\ UNCHANGED <<pics, events>>

\* keyboard_handler reads port 0x60, which empties the output buffer.
ReadScancode ==
  IF obf
  THEN /\ kbd' = keyboard_handler(kbd, Head(queue)).kbd
       /\ queue' = Tail(queue) /\ obf' = FALSE
       /\ UNCHANGED <<deaf, sent>>
  ELSE UNCHANGED keyboard

IsPicInterrupt == interrupt_num >= 32 /\ interrupt_num <= 47

\* Mutant of HandleIrq: the interrupt is acknowledged without reading the byte.
HandleIrq_ByteLeft ==
  /\ UNCHANGED keyboard
  /\ writes' = pic_acknowledge(interrupt_num)
  /\ handler' = "returning"
  /\ UNCHANGED <<mode, if_flag>>

\* The branch of exception_handler for the controllers' interrupts.
HandleIrq ==
  /\ IF interrupt_num = KEYBOARD THEN ReadScancode ELSE UNCHANGED keyboard
  /\ writes' = pic_acknowledge(interrupt_num)
  /\ handler' = "returning"
  /\ UNCHANGED <<mode, if_flag>>

\* Every other handler prints, and ends with cli; hlt.
HandleException ==
  /\ mode' = "halted" /\ if_flag' = FALSE
  /\ UNCHANGED <<writes, handler, keyboard>>

exception_handler ==
  /\ mode = "running" /\ handler = "entered"
  /\ IF IsPicInterrupt THEN HandleIrq ELSE HandleException
  /\ UNCHANGED <<boot, segs, stack, pics, events>>

\* The stack without its top n words.
Pop(s, n) == SubSeq(s, 1, Len(s) - n)

\* Mutant of IsrReturn: only the interrupt number is removed.
IsrReturn_ErrorCodeLeft ==
  /\ mode = "running" /\ handler = "returning" /\ writes = << >>
  /\ LET s == Pop(stack, 10)
     IN  /\ stack' = Pop(s, 3)
         /\ if_flag' = (s[Len(s) - 2][2] = 1)
         /\ segs' = [segs EXCEPT !.cs = s[Len(s) - 1][2], !.ds = stack[Len(stack)][2]]
  /\ handler' = "none"
  /\ UNCHANGED <<boot, writes, mode, pics, keyboard, events>>

\* ds and popad, then the number and the error code, then iret's three words.
IsrReturn ==
  /\ mode = "running" /\ handler = "returning" /\ writes = << >>
  /\ LET s == Pop(stack, 1 + 8 + 2)
     IN  /\ stack' = Pop(s, 3)
         /\ if_flag' = (s[Len(s) - 2][2] = 1)
         /\ segs' = [segs EXCEPT !.cs = s[Len(s) - 1][2], !.ds = stack[Len(stack)][2]]
  /\ handler' = "none"
  /\ UNCHANGED <<boot, writes, mode, pics, keyboard, events>>

Cpu == InitGdt \/ InitIdt \/ Outb \/ AcceptInterrupt \/ exception_handler \/ IsrReturn

-----------------------------------------------------------------------------
(* Devices.                                                                *)

program == <<boot, segs, writes, if_flag, mode, stack, handler, kbd>>

Event == events < MaxEvents /\ events' = events + 1

\* What a byte means to the modifiers, whichever key it was sent for.
Meaning(m, scancode) ==
  [ shift_pressed |-> IF scancode.key \in ShiftKeys THEN ~ scancode.release
                      ELSE m.shift_pressed,
    caps_lock     |-> m.caps_lock # (scancode = [key |-> "caps_lock", release |-> FALSE]) ]

\* The keyboard sends a byte, and any byte may follow any other: a key repeats, a key
\* of several bytes (E0 2A E0 37 for Print Screen) has the left shift key's among
\* them, and bytes that find the keyboard's buffer full are lost.
SendByte(scancode) ==
  /\ Event
  /\ Len(queue) < MaxQueue
  /\ queue' = Append(queue, scancode)
  /\ sent' = Meaning(sent, scancode)
  /\ UNCHANGED <<program, pics, obf, deaf>>

\* The controller offers the next byte: a rising edge on line 1.
OfferByte ==
  /\ ~ obf /\ queue # << >>
  /\ obf' = TRUE /\ pics' = Raise(pics, 1)
  /\ UNCHANGED <<program, queue, deaf, sent, events>>

RaiseLine(line) ==
  /\ Event
  /\ pics' = Raise(pics, line)
  /\ UNCHANGED <<program, keyboard>>

\* A request that is gone when the CPU acknowledges it.
Glitch(bySlave) ==
  /\ Event
  /\ mode = "running" /\ if_flag /\ ~ InterruptRequested(pics)
  /\ LET i == Spurious(pics, bySlave) IN pics' = i.pics /\ Enter(i.vector)

Next ==
  \/ Cpu
  \/ \E vector \in Faults : Fault(vector)
  \/ \E key \in TypedKeys, release \in BOOLEAN : SendByte([key |-> key, release |-> release])
  \/ OfferByte
  \/ \E line \in OtherLines : RaiseLine(line)
  \/ \E bySlave \in BOOLEAN : Glitch(bySlave)

Spec == Init /\ [][Next]_vars /\ WF_vars(Cpu) /\ WF_vars(OfferByte)

-----------------------------------------------------------------------------
Ports == 0 .. 65535
Bytes == 0 .. 255
Write == Ports \X Bytes

TypeOK ==
  /\ pc \in {"init_gdt", "memset", "exception_gates", "irq_gates", "lidt", "clear_mask", "sti", "run"}
  /\ writes \in Seq(Write)
  /\ DOMAIN gates \subseteq 0 .. 255
  /\ idt_loaded \in BOOLEAN /\ if_flag \in BOOLEAN
  /\ mode \in {"running", "halted", "reset"}
  /\ Len(stack) = IF handler = "none" THEN 0 ELSE Len(FrameFields)
  /\ handler \in {"none", "entered", "returning"}
  /\ pics \in [master : Controller, slave : Controller]
  /\ kbd \in Modifiers
  /\ queue \in Seq(Scancodes) /\ obf \in BOOLEAN
  /\ sent \in Modifiers

(***************************************************************************)
(* Interrupts are enabled only when every vector the controllers or a      *)
(* fault can deliver has a gate in the loaded table, line 7 of the slave   *)
(* included, which only a glitch raises: a missing one resets the machine. *)
(***************************************************************************)
NeverReset == mode # "reset"

(***************************************************************************)
(* "hardware IRQs at 32-47" (interrupt.h:87): in exception_handler the     *)
(* number in the frame names the one line in service, on both controllers  *)
(* for the slave's, or none if the request was spurious; and no bit stays  *)
(* in service when the handler is left, which would block its line and all *)
(* lower ones for ever.                                                    *)
(***************************************************************************)
ServiceMatchesFrame ==
  /\ handler = "none" => pics.master.isr = {} /\ pics.slave.isr = {}
  /\ handler # "none" => ~ if_flag
  /\ handler = "entered" /\ IsPicInterrupt =>
       LET line == interrupt_num - 32
       IN  IF line < 8
           THEN /\ pics.slave.isr = {}
                /\ pics.master.isr = {line} \/ (line = 7 /\ pics.master.isr = {})
           ELSE /\ pics.master.isr = {CASCADE_IRQ}
                /\ pics.slave.isr = {line - 8} \/ (line = 15 /\ pics.slave.isr = {})

(***************************************************************************)
(* "Interrupt frame structure matching the stack layout" (interrupt.h:35): *)
(* for each vector, the words that the CPU, its stub and the common stub   *)
(* push, with and without error code, lie where exception_handler reads    *)
(* the fields of the frame and where iret finds the return address.        *)
(***************************************************************************)
FramesFitStack ==
  handler # "none" => \A k \in DOMAIN FrameFields : FrameWord(FrameFields[k])[1] = FrameFields[k]

(***************************************************************************)
(* From init_gdt on, in kernel_main, in handlers and after them, the CPU   *)
(* runs with a code and a data selector that name flat segments of the     *)
(* kernel's level, and with the task segment at tss_entry: the selectors   *)
(* that gdt.h, gdt.nasm, idt_set_descriptor and the stubs each write down, *)
(* the table, and the fields a base and a limit are scattered over agree.  *)
(***************************************************************************)
SegmentsFit ==
  pc # "init_gdt" =>
    /\ IsFlat(gdt, segs.cs, "kernel_code")
    /\ IsFlat(gdt, segs.ds, "kernel_data")
    /\ Selected(gdt, segs.tr).access = "task" /\ Base(Selected(gdt, segs.tr)) = TssBase

(***************************************************************************)
(* The keyboard controller asks once for each byte, and never again while  *)
(* the byte waits: as long as it waits, its request is latched or the      *)
(* handler that will read it has been entered, and the handler never finds *)
(* the buffer empty.  The exception is a byte that came before pic_remap,  *)
(* which forgets the request.                                              *)
(***************************************************************************)
KeyboardStaysArmed ==
  mode = "running" =>
    /\ obf /\ ~ deaf =>
         \/ 1 \in pics.master.irr
         \/ handler = "entered" /\ interrupt_num = KEYBOARD
    /\ handler = "entered" /\ interrupt_num = KEYBOARD => obf

(***************************************************************************)
(* The keyboard's bytes are handled once each and in their order: when     *)
(* none is left to read, shift_pressed says whether the last byte of a     *)
(* shift key, left or right, was a press, and caps_lock whether it was     *)
(* pressed an odd number of times, whatever interrupted the way of a byte  *)
(* to keyboard_handler.  That need not be what the keys are doing: one     *)
(* flag stands for two keys, and for the bytes Print Screen sends.         *)
(***************************************************************************)
ModifiersFollowBytes == queue = << >> => kbd = sent

\* Line 2 of the master is not a device's: it is the slave's output.
DeviceLines == (0 .. 15) \ {CASCADE_IRQ}

LineRequested(line) ==
  IF line < 8 THEN line \in pics.master.irr ELSE line - 8 \in pics.slave.irr

\* The next port write of pic_remap begins the controller's initialization.
Reinitialized(line) ==
  /\ pc = "exception_gates" /\ writes # << >>
  /\ Head(writes) = << IF line < 8 THEN PIC1_COMMAND ELSE PIC2_COMMAND, ICW1 >>

\* An interrupt is taken, and its frame tells exception_handler that it is the line's.
EnteredFor(line) ==
  handler = "none" /\ handler' = "entered" /\ interrupt_num' = 32 + line

(***************************************************************************)
(* No request is lost: whatever the bytes written to the ports, the other  *)
(* lines, the acknowledgements and the spurious interrupts, the request of *)
(* a line goes only in the step that enters exception_handler with that    *)
(* line's number, or when pic_remap initializes its controller.            *)
(***************************************************************************)
RequestsKept ==
  [][\A line \in DeviceLines :
       LineRequested(line) => LineRequested(line)' \/ EnteredFor(line) \/ Reinitialized(line)]_vars

(***************************************************************************)
(* Every request is served: of a byte from the keyboard, unless its edge   *)
(* was forgotten, and of each other line, whatever else arrives while the  *)
(* handlers run; or an exception halts the machine.                        *)
(***************************************************************************)
RequestsServed ==
  /\ obf ~> ~ obf \/ deaf \/ mode = "halted"
  /\ \A line \in OtherLines : LineRequested(line) ~> ~ LineRequested(line) \/ mode = "halted"

(***************************************************************************)
(* "XOR for Caps Lock toggling shift effect on letters" (keyboard.h:50):   *)
(* caps lock changes no other key.                                         *)
(***************************************************************************)
CapsLockIsForLetters ==
  \A key \in Keys \ Letters :
    scancode_to_ascii(kbd, key) = scancode_to_ascii([kbd EXCEPT !.caps_lock = FALSE], key)
=============================================================================
