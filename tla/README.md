# x86 32-bit kernel: TLA+ models, checks and proofs

This directory models the kernel in `src/` with TLA+, checks it with TLC on small machines
and proves with TLAPS, for every machine, the safety properties of its two allocators, its
terminal with and without interrupts, its interrupt handling, its scanning loops and `printf`.
Run `tlc -config Pfa.cfg MCPfa` (and likewise for every run of `PROJECT.json`) to check, `tlapm
PfaProofs.tla` (and likewise for the other `...Proofs` modules) to prove. `PROJECT.json` lists runs, mutants, source lines, findings, hazards
and theorems.

## 1. Inventory: the system

`kernel_main` (`src/src/main.c`) runs on one CPU, without processes: it prepares the terminal,
the segments, the interrupts (which are enabled from then on), the frame allocator and the
recursive page directory slot, surveys the directory, allocates 2 MB of virtual memory, surveys
again, and halts in a loop that only interrupts leave.

| Component | State | Operations | What makes it correct |
|---|---|---|---|
| Bitmap primitives (`util/bitmap.h`) | the bits, in a `vm_bitmap_t` of their users | set, clear, test, mark ranges, first-fit search | the search finds the lowest free range although it skips ahead inside its loop |
| Page frame allocator (`memory/pfa.h`, `pfa_helpers.h`) | `vm_bitmap`: bits, size, number of frames, end of memory | `init_pfa` and its five steps, `pfa_alloc`, `pfa_free` | a frame has at most one owner, none gets lost, none that is reserved is handed out |
| Virtual memory allocator (`memory/vma.h`) | `kernel_vm_bitmap`, the page directory, page tables | `vma_alloc`, `vma_free` | ranges are disjoint, each page is backed by its own frame, failure and freeing undo what was done, the kernel stays mapped |
| Page tables (`boot.nasm`, `memory/memory.h`, `alloc_new_pt` in `pfa.h`) | directory, `page_table`, new tables | boot mapping, `setup_recursive_pd`, `alloc_new_pt` with its temporary mapping, directory survey | tables exist and are zero before entries are written; the survey is complete |
| Terminal (`terminal/terminal.h`, `vga.h`) | `term`: framebuffer, cursor, scrollback ring, view | output, clear, scrolling, cursor | the ring holds the last lines, a view shows history, cursor and screen agree |
| Keyboard (`terminal/keyboard.h`) | `shift_pressed`, `caps_lock`; the controller's output buffer | `keyboard_handler` | every byte is read, once and in order; the modifiers follow the bytes |
| Interrupts (`interrupt/`) | IDT, interrupt flag, the frame on the stack; mask, request and in-service bits of two PICs | `init_idt`, `pic_remap`, `irq_clear_mask`, the stubs, `exception_handler`, `pic_acknowledge` | every vector has its gate, its frame and its acknowledgement; every request is served |
| Formatted output (`util/printf.h`) | the place in the format and in the arguments | `printf` | text and arguments match, numbers are printed as they are |
| Segments (`memory/gdt.h`, `gdt.nasm`) | the descriptor table, the segment registers | `init_gdt` | every selector the code writes down names the descriptor it means |
| Boot modules, ports, build files | none | | |

Interaction is by calls and shared globals. `vma_alloc` calls `alloc_new_pt` and `pfa_alloc`;
`vma_free` calls `pfa_free`; everything prints through `terminal_putchar`; the keyboard
interrupt prints too, in the middle of whatever was running. The allocators are linked by
memory as well: page tables are frames of the frame allocator, page table entries are reached
through the address translation they define, and `kernel_vm_bitmap`, which nobody initializes,
lies at virtual address 0, over physical frames that the frame allocator may hand out.

Hard to test here: long sequences of allocations, frees and failures; out of memory half way
through an operation; rounding at both ends of regions and reservations; tables reached through
themselves; the ring buffer at its limit; unsigned underflow; interrupts in the middle of
terminal output; edges, masks and acknowledgements of two cascaded interrupt controllers. `PROJECT.json` lists these hazards with lines and the properties on them.

## 2. Modules

| Module | Models | Uses |
|---|---|---|
| `Bitmap` | `util/bitmap.h`, a bitmap as the set of its 1 bits | |
| `BitmapScan` | the two loops of `bitmap_find_free_range`, one bit a step | `Bitmap` |
| `PdeScan` | the directory survey of `memory.h`, one entry a step | |
| `ScanProofs` | theorems about `BitmapScan`, `PdeScan` and `Printf` | these, TLAPS |
| `PageFrames` | all of `pfa.h` and `pfa_helpers.h` except `alloc_new_pt`, as functions on `vm_bitmap` | `Bitmap` |
| `FrameAllocator` | abstract: a pool filled once, a frame is in it or owned | |
| `Pfa` | the frame allocator and its clients as a state machine | `PageFrames`, `FrameAllocator` |
| `MCPfa` | a machine of 16 frames and its memory maps, for TLC | `Pfa` |
| `PageFramesProofs` | lemmas about the operations of `PageFrames` | `PageFrames`, TLAPS |
| `PfaProofs` | theorems about `Pfa` | `Pfa`, `PageFramesProofs` |
| `RangeAllocator` | abstract: a space of pages, from which whole ranges are taken and given back | |
| `Vma` | frame allocator, virtual bitmap, directory and page tables composed | `PageFrames`, `RangeAllocator` |
| `MCVma` | a machine with tables of 7 entries, for TLC | `Vma` |
| `VmaProofs` | theorems about `Vma` | `Vma`, `PageFramesProofs` |
| `TerminalCalls` | the operations of `terminal.h` as functions on `term` | |
| `Terminal` | any sequence of them, each run to its end | `TerminalCalls` |
| `TerminalCallsProofs` | lemmas: which fields each operation changes, and how | `TerminalCalls`, TLAPS |
| `TerminalProofs` | theorems about `Terminal` | `Terminal`, `TerminalCallsProofs` |
| `Keyboard` | `keyboard_handler`: modifiers and printed characters | |
| `TerminalIrq` | `terminal_putchar` in single accesses, with handlers that print in between | `TerminalCalls`, `Keyboard` |
| `MCTerminalIrq` | a screen of two rows and two columns, for TLC | `TerminalIrq` |
| `TerminalIrqProofs` | theorems about `TerminalIrq` | `TerminalIrq`, `TerminalCallsProofs` |
| `Pic` | two 8259A controllers (external) and `pic.h` as the port writes it makes | |
| `Segments` | `gdt.h`: how descriptors are encoded, and how the CPU (external) reads them | |
| `Interrupts` | `init_gdt`, `init_idt`, stubs, frames, `exception_handler`, keyboard controller, other devices | `Pic`, `Keyboard`, `Segments` |
| `MCInterrupts` | one key of each kind, for TLC | `Interrupts` |
| `InterruptsProofs` | theorems about `Interrupts` | `Interrupts`, TLAPS |
| `Printf` | `printf` and its number helpers, one iteration a step | |
| `MCLoops` | bitmaps of 8 bits, a directory of 10 entries, words of ten bits and two strings, for TLC | `BitmapScan`, `PdeScan`, `Printf` |

**Frame allocator.** `vm_bitmap` is the record of that name. `pfa_alloc(vb)` returns the new
record and the address; `init_pfa` is the composition of the five steps in the order of the
code, the early return for a machine without memory map included. Whole bytes are searched
(`ScannedBits`), so up to seven bits beyond the last frame can be taken, as in the code; frame 0
is marked and passed over. The state machine adds the history variable `held` (frames clients
own) and `ret`. No interrupt handler touches the allocator, so a call is one step. The multiboot
structure is reserved at `KernelBase + mbi`, because `boot.nasm:88` turns the pointer into a
virtual address before `pfa_reserve_multiboot_structures` divides it by the page size.

**Virtual memory.** `pmem` maps each frame to a table of entries; an entry is `NotPresent` or a
frame (the code stores `frame|3` or 0). `Translate` is the CPU's two-level walk and is external;
`GET_PT` is the virtual page a table is reached at, and entries are written where `Translate`
sends them, not where they should be. `vma_alloc` and `vma_free` are one step up to their loops
and one step per iteration, `alloc_new_pt` and `pfa_alloc` included. A missing table behind
`GET_PT` is a page fault, whose handler halts: `phase = "halted"`; so is losing one of the
mappings the kernel runs on. `vm_used` are the set bits of `kernel_vm_bitmap`, at virtual
address 0: zeroing a new page table clears those in its frame (`BitmapFrame`). To whoever looks on from outside,
`RangeAllocator` happens: a range is taken in one step, when `vma_alloc` returns it (the call that runs is not
part of the refinement mapping), given back when `vma_free` is entered, and a failed call takes nothing. That holds as long as no
page table has been placed on the bitmap (`BitmapIntact`). The other
direction, later bits showing up as page table entries, is left out, and so are the TLB (every
access walks the tables) and what callers write to their pages. `flags` is unused by the code.

**Terminal.** `term` is the global; its field `hardware_cursor` is the position in the VGA
controller. Each operation is a function on `term` with every call it makes (so `terminal_putchar`
contains leaving the view, wrapping, saving the line and scrolling). `history` records, apart from
the ring, the last lines that scrolled off. `start_line` is computed modulo `SizeMod`, as `size_t`
is. Attributes and colours are left out.

**Terminal under interrupts.** From `init_idt` on, the handlers print through the same `term` in the
middle of `terminal_putchar`. `TerminalIrq` runs it access by access: `pc` is the next load, store or
port write, `reg` what was loaded, as in the unoptimized code the `Makefile` builds (`term.cursor_x++`
is a load and a store). Tests of `term` are steps of their own. An interrupt (`Interrupt`) fixes what
its handler prints: everything `keyboard_handler` can print for any scancode and modifiers, or the line
`exception_handler` prints for another interrupt. `HandlerPuts` applies the atomic `terminal_putchar`
of `TerminalCalls` to its next character; interrupt gates keep the flag off, so that nothing else
happens until the last one (`printing` is what is left). The VGA controller is two
byte registers behind an index register, so that a handler between two port writes redirects the
next. `expected` remembers what the atomic operation would have made of the call, until an interrupt
comes: a call that nobody interrupts must end there, which ties the two modules together.
`kernel_main` and `printf` print no tab, return or backspace, and nothing enters the scrollback view.

**Interrupts.** `Pic` has the controllers: requests latched on rising edges, mask, in-service bits,
fixed priorities, the cascade over line 2, end of interrupt, and the initialization words, of which
each data port write is one only because of those before it. `pic_remap`, `pic_acknowledge` and `irq_clear_mask` are
sequences of port writes; `Interrupts` performs them one at a time (`Outb`), with devices acting in
between. `init_gdt`, which runs with interrupts off, is one step, `init_idt` one action per part of it. `Enter` pushes what the CPU, the stub of that vector and
`isr_common_stub` push, word by word, and loads the selectors of the gate and of the stub (`segs`); `exception_handler` reads its frame off that stack through the
offsets of `interrupt_frame_t`, and `IsrReturn` pops what the code pops. A vector without gate is a
reset. All handlers but those of the controllers' lines end in `cli; hlt`: `mode = "halted"`. The
keyboard sends any byte after any other (`SendByte`): one key may send several, with fake presses of the left
shift key among them (Print Screen: E0 2A E0 37), a key repeats, and bytes are lost when the keyboard's buffer is
full. A byte is a key of the tables and the release bit; E0 is a release of a key that is in none. `sent` records the modifiers that
the bytes sent stand for. The bytes queue up, and the keyboard controller offers one at a time, with one edge each, and the next only after port 0x60 was read. A glitch is a request that has
gone when the CPU acknowledges it. The handlers' output is left out here: it is `TerminalIrq`'s.

**printf.** A call is the list of directives its author meant; the format and the argument words are
derived from it (`FormatOf`, `WordsOf`), and `printf` walks both with the indices of the code (`pos` is its `i`, and `ap`
the argument list). `out` has one text per iteration, so that what a directive printed can be told from its neighbours. Words
have `WordMod` values, signed ones in two's complement. A string is named by its address. The digit loops are
the recursive function `Buf`; the properties do not repeat them, but read the digits back (`ValueOf`).

**Scans.** `bitmap_find_free_range` and `collect_free_pde_ranges` run step by step, with the variables of the code:
`BitmapScan` distinguishes the outer loop from the inner one and jumps `i` behind a run that was too short, `PdeScan` looks
at one entry a step and closes the last range behind the loop. Directories grow by `setup_recursive_pd` and `alloc_new_pt` in any order.

## 3. Runs

Passing runs, with the machine they use:

| Run | Bounds | Shows |
|---|---|---|
| `loops` | one loop at a time: all 256 bitmaps of 8 bits, all starts and lengths; 10 directory entries, all directories reachable from the boot one, all buffer sizes; for `printf`, words of ten bits, eleven values at the ends of the signed and unsigned range and at new numbers of digits, every pair of directives, an empty string and one that looks like a directive | `ScanIsFirstFit`: the skipping search is first fit, so `Bitmap` may define it so. Eight bits hold runs of all lengths with gaps at start, middle and end. `RangesAreFreeRuns`, `SummaryIsComplete`: a buffer of half the entries is enough. `PrintsDirectives`, `ArgumentsInStep`: what one directive of `printf` leaves behind shows in the next one |
| `pfa` | 16 frames of 4 bytes, 42 boot situations: with and without memory map, holes, incomplete frames at an end, overlapping and unaligned regions, memory across 4 GB, modules over a frame boundary, command line; any sequence of calls | `FramesAccounted`: with regions that start at frames and a memory map not cut at one (`MapNotCut`), owned and allocatable frames are exactly the usable unreserved ones, but for the two frames that `pfa_multiboot` is about; `ProtectedNeverHeld`: on every map no reserved frame gets an owner; `ImplementsFrameAllocator`: refinement of the abstract allocator, out of memory included |
| `vma` | 7 entries per table, 5 to 8 allocatable frames or no memory map, requests of nothing, one page, three pages, two pages with a hint at an empty directory entry, one page at the recursive slot, two pages where only one is left; one free; two contents of the memory under the bitmap | `RangesReserved`, `TablesBeforeEntries`, `FramesExclusive`, `KernelStaysMapped`, `CallsReturn`; `ImplementsRangeAllocator`: while the bitmap is intact, refinement of the abstract allocator of ranges. Memory runs out before the first page of a call, between two pages, for a table and for a page |
| `terminal` | 3 columns, 2 rows, a ring of 3 lines, tab stop 2, one character plus space and controls, all calls | `ScrollbackHoldsLastLines`, `FullViewIsHistoryWindow`, `HardwareCursorFollows`. The ring is longer than the screen, and wraps; a full view at several offsets exists |
| `terminal_irq` | 2 columns, 2 rows, a ring of 2 lines, registers of 3 values (a position needs both), one character and newline from `kernel_main`; the handlers print nothing, one character, newlines, backspaces, a tab or a line that scrolls twice; any number of interrupts in a call | `CursorOnScreenBetweenCalls`, `StoresStayInVideoMemory`, `RingOverrunByOne`: what survives the races; `UninterruptedCallsAreAtomic`: the accesses add up to the operation, and repair a torn cursor. Every access is followed by wraps, scrolls and a full ring |
| `interrupts` | the bytes of both shift keys, caps lock and a key in no table, the timer, line 8 of the slave, six exceptions with and without error code, spurious interrupts of both controllers; five events, two bytes queued; descriptors with nibbles of two bits | `NeverReset`, `ServiceMatchesFrame`, `FramesFitStack`, `SegmentsFit`, `KeyboardStaysArmed`, `ModifiersFollowBytes`; `RequestsKept`: a step may take a request away only to enter its handler or to initialize its controller; `RequestsServed`. Five events suffice for a byte waiting behind another one, with both controllers in service in turn, before, during and after `init_idt` |

`TypeOK` is checked in all runs but `loops`; it also says that addresses are never
negative, page numbers stay within the space and the cursor is on the screen between calls, which the
array indexes of the code rely on, and that the stack is empty again after every handler.

Runs that show a disagreement between the code and its own comments (the findings):

| Run | The comment | What the code does |
|---|---|---|
| `pfa_multiboot` | `pfa.h:136` "Reserve the multiboot info structure itself" | the frame number is computed from the structure's virtual address (`boot.nasm:88` adds 0xC0000000); the frame the structure lies in is handed out, the first one where it lies in low memory |
| `vma_recursive` | `memory.h:23` "Set last PDE to point to PD itself" | `setup_recursive_pd` copies entry 0, the first page table, into entry 1023. `vma_alloc` therefore writes its entries into whatever frame `page_table` names at that index, and the pages it returns are not mapped to their frames |
| `vma_free` | `vma.h:79` "return phys to PFA" | `pfa_free` is given the frame of the page table, not that of the page |
| `vma_overlap` | `vma.h:32` "Mark as used (before mapping, to reserve)" | `kernel_vm_bitmap` has no storage of its own; a page table placed on its bits clears them, and a page is returned twice |
| `terminal_irq_count` | `terminal.h:24` "Number of lines currently in scrollback" | the count is tested, loaded and stored with interrupts on; a handler that scrolls between makes it one more than the ring holds, for good |
| `keyboard_caps` | `keyboard.h:50` "XOR for Caps Lock toggling shift effect on letters" | caps lock shifts every key |

**Known divergences** that no run shows:

- *Frame allocator.* A region that starts inside a frame frees the whole frame (`pfa.h:55`). A memory
  map across a frame boundary is reserved by its length only (`pfa.h:143`). `free_frames` is not updated after boot.
- *Virtual memory.* On out of memory only the virtual range is given back, frames already taken leak
  (`vma.h:54` "Rollback"). The ceiling wraps for sizes above 4 GB - 4 KB: zero pages, and success
  (`vma.h:19`). `invlpg` is given the stack slot of its argument (`util.h:22`).
- *Terminal.* `start_line` underflows when the history is shorter than the rows to fill; rows show slots
  that were never saved (`terminal.h:215`). Scrolling down at the newest output, or up with an empty
  history, clears the screen (`terminal.h:256`). After an interrupted `update_hardware_cursor` the
  cursor shows a position made of two until the next call.
- *Keyboard.* `shift_pressed` need not say whether a shift key is held. Releasing one clears the flag
  of both (`keyboard.h:73`). The E0 before the bytes of an extended key is ignored (its release bit is set), so that the fake shift bytes some of
  these keys send are taken for the left shift key: Print Screen (E0 2A E0 37, then E0 B7 E0 AA) sets the flag while it is held
  (`keyboard.h:79`). A byte lost in a full buffer leaves the flag as it was. Holding caps lock repeats its press and toggles
  `caps_lock` each time (`keyboard.h:83`). No comment or test says otherwise, so these are no findings; `ModifiersFollowBytes` states what
  the flags follow instead. Enter prints two
  newlines and Backspace two backspaces (`keyboard.h:93`, `:95`). On a real 8259A a key pressed
  before `pic_remap` leaves the keyboard silent: its edge is forgotten, and nobody reads the port.
- *Interrupts.* `pic_remap` opens every line, although `interrupt.h:105` says "Enable specific IRQs we
  want". Vectors 21 and 29 push error codes their stubs do not expect (`interrupt.nasm:62`, `:70`); they
  belong to extensions the kernel does not enable. `write_tss` sets `ss0` twice and never `esp0` (`gdt.h:82`), and passes the end of the task segment
  as its limit (`gdt.h:77`); no user program runs that would need either.
- *printf.* The least int prints as a lone "-" (`printf.h:14` says it is not handled). A format that ends in
  % is read past its end. `vma.h:67` passes `B_TO_KB`, a 64-bit value, for `%u`: the directives behind
  it print the wrong words.

**Fairness.** `CallsReturn` assumes weak fairness of `vma_alloc_page` and `vma_free_page` only: the CPU
keeps executing a call that it has entered, interrupt handlers return (`exception_handler` acknowledges and
ends), and nothing else disables the steps. `RequestsServed` assumes weak fairness of `Cpu`, everything the
processor does (the kernel's code and taking interrupts), and of `OfferByte`, the keyboard
controller passing on what it has; nobody has to press a key, raise a line or fault. No fairness makes anybody
call.

**Deadlock** checking is switched off where the system may stop: in the Vma configurations, since a
machine halted in the page fault handler has no next step, and in `Interrupts.cfg` and `KeyboardCaps.cfg`, for the
same reason.

**Mutants.** Each property of a passing run has a mutated definition (marked "Mutant of") with
which TLC finds it violated: rounding the wrong way, a frame not kept, a table not linked, a head
that does not move, an acknowledgement to the wrong controller, a stub with a word too few, and so on.

## 4. Proofs

Every safety property of the passing runs, invariants, action properties and refinements, is proved for every
value of the constants. In each component it follows from an inductive invariant (`IInv` of the
proof module, unless named below), which in most components TLC was given first as an invariant of the component's run.

**Bitmap and directory scans** (`ScanProofs`, parts 1 and 2), for every bitmap and start, every directory and
every buffer; the summary for one of at least half as many ranges as entries.

- `SearchIsFirstFit`: `BitmapSpec => []ScanIsFirstFit`. `SearchInv` says that no range that is long enough starts
  below `i`, and that the bits counted from `i` on are free. The jump behind the bit that ended a run keeps it because a
  range that starts within the run contains that bit (`RunTooShort`). `Bitmap`, and so both allocators, define the
  search as first fit by this theorem.
- `RangesAreRuns` and `SummaryComplete` from `SurveyInvariant`: the ranges stored are the maximal runs of free
  entries that have ended, in order, the entries counted are those of all of them, and the run that is open is not stored yet.
  That a buffer of half the entries is enough is counted: two runs have a used entry between them.

**Frame allocator** (`PageFramesProofs`, `PfaProofs`), for every page size, address space, reservation
layout, set of boot structures and sequence of calls.

- `TypeCorrect`: `Spec => []TypeOK`. One lemma per operation: it keeps `VmBitmap`. The minimum in
  `pfa_alloc` and the maximum in `find_usable_memory_bounds` exist by `LeastExists`, from
  well-foundedness of `<`, and `MaxOfNats`, its mirror image below the cap at 4 GB.
- `HeldInvariant`: `Spec => []IInv`, the inductive invariant: `TypeOK`; before `init_pfa` there is no
  bitmap and no client; an owned frame is not 0, is one of the searched bits, is set, and lies
  below `max_phys_addr`. The last two are what the refinement needs and no property says: without
  "set", an owned frame might be allocated again; without "below", `pfa_free` would ignore it and the
  frame would be lost.
- `Refinement`: `Spec => Abstract!Spec`. `AllocEffect` and `FreeEffect` say what the two operations do
  to the allocatable frames; the interesting case is a failing `pfa_alloc`, which sets bits, but only
  of frames that could not be allocated anyway. `init_pfa` is `Fill`, `PfaFree` is `Free`.
- `ProtectedFramesSafe`: `Spec => []ProtectedNeverHeld`. Its invariant: no protected frame has an
  owner and, after boot, either there is no bitmap to search or every protected frame is set; `TouchesInRange` links
  byte ranges to rounded frame ranges, `InitPfaProtects` that the reservations come after the freeing.
- `AllFramesAccounted`: `Spec => []FramesAccounted`. The boot step is the whole of it: `init_pfa` clears
  exactly the frames of the regions and sets exactly those of the reservations, and a range that is
  counted from its length covers the frames its bytes touch. `AccountedInv` is the same of all frames, with the one that is reserved
  for the multiboot structure. The proof showed that this last point
  needs the memory map not to be cut by a frame boundary more than its length needs (`MapNotCut`), a
  condition the property now states; see Known divergences for the other case. After boot, frames move between `held` and the
  allocatable ones by `AllocEffect` and `FreeEffect`.

**Virtual memory** (`VmaProofs`), for every size of tables, memory map, contents of memory at boot and
sequence of calls.

- `VmaTypeCorrect`, `TablesFirst`, `RangesExact`, `FramesStayExclusive`, `KernelMappingSurvives`: the five
  invariants of the run.
- What carries them is `DirectoryInv`: since the recursive slot is a copy of entry 0, `GET_PT(i)` leads to
  whatever frame `page_table` names at `i`, which is frame `i` or nothing, and never the directory or
  `page_table` itself, whose frames have lower numbers than the kernel's directory entry. So the wrong
  writes hit neither. `Exclusive` says that all frames in use differ and are marked used: until the first
  `vma_free`, which returns the wrong frame. `RangesInv` is disjointness of the ranges, of the one being
  allocated or freed too.
- `RangeRefinement`: `Spec => ImplementsRangeAllocator`. The steps of a call up to its last one are stutters, the last
  step of `vma_alloc` takes the range or, on failure, nothing. That a range taken is free is `RangesExact`, that it is the whole
  request and lies in the space is the invariant of the loop.

**Terminal** (`TerminalCallsProofs`, `TerminalProofs`), for every screen, ring, tab stop and `size_t` that
can count to twice the ring and the screen.

- `TerminalTypeCorrect`, `ScrollbackKept`, `ViewCorrect` and `CursorCorrect` from `ViewInvariant`: `Sound`
  (the cursor is on the screen; the view's offset is at most the number of saved lines, and not 0 only in
  scrollback mode), `Holds` (slot head + k, modulo the ring, is line k of the history) and `Shows`. The
  offset's bound is what makes `start_line` computable without wrapping around for a full view. `Holds`
  survives because consecutive slots of a ring are different (`ModDistinct`) and because head and
  count change together.

**Terminal under interrupts** (`TerminalIrqProofs`), for every screen and ring, every
key table, every message a handler prints and any number of interrupts.

- `IrqTypeCorrect`, `CursorOnScreen`, `StoresInVideoMemory`, `RingOverrun` from `TerminalInvariant`. `IInv`
  says for each place in `terminal_putchar` where the cursor may be (`CursorInv`: before the wrap one cell
  to the right of the screen or one row below, never both) and what a loaded value is bounded by (`RegInv`), since it may be
  stored long after a handler changed what it was loaded from. A handler always leaves the cursor on the
  screen, which is within each of these bounds.
- `CallsAreAtomic`: `Spec => UninterruptedCallsAreAtomic`. `Rest` says at each place what the steps still to
  come make of the terminal: at the start it is `terminal_putchar`, no step changes it, and at the end
  nothing is left. That needs `Good`: what has been loaded is still true, which is what an interrupt breaks.

**Interrupts** (`InterruptsProofs`), for every set of keys, lines and faults, key table, width of a
descriptor's fields, place of the task segment, and any number of events and bytes queued.

- `InterruptsTypeCorrect`, `GatesPresent`, `ServiceMatches`, `FramesMatch`, `SegmentsStayFit`, `KeyboardArmed` and
  `ModifiersFollow` from `InterruptsInvariant`, whose parts are: `BootInv`, the place of `init_idt` in the ten
  port writes of `pic_remap` and the phase and base each controller has there; `GateInv` and
  `SegmentInv`, what is installed by then; `HandlerInv`, while a handler runs the frame of its vector is on
  the stack (`FramePushed`: whether the CPU or the stub pushes the error code), its line is in service, and the writes of
  `pic_acknowledge` still to make match the controllers that have it in service; `KeyboardInv`, a byte in
  the output buffer has its request or its handler; `ModifiersInv`, the bytes not yet read
  lead from the modifiers there are to those all bytes sent stand for (`ReadByte`, `AddByte`).
- `NeverReset` needs the vector of any acknowledge cycle to be one of 32 to 47, hence both bases; these
  need every `pic_remap` write to meet the phase it is meant for (`RemapStep`). `SegmentsFit` needs that the
  pieces of a base and of a limit add up again (`BaseIsKept`, `FlatLimit`).

- `RequestsAreKept`: `Spec => RequestsKept`, an action property. Every step is one of few effects on the requests: the CPU's
  acknowledge cycle takes the request of the line it delivers, and `NextNumber` shows that the interrupt number it pushes is that
  line's, on either controller and with the bases `pic_remap` has set; a glitch takes a request that never was
  an interrupt of that line; an edge adds one; and of the port writes only ICW1 takes requests away, which is written nowhere but in `pic_remap` (`WritesOf`).
  Line 2 is the cascade, which has no device.

**printf** (`ScanProofs`, part 3), for every call of any length, every string, and every even number of values of a word.

- `ArgumentsStay` and `DirectivesPrinted` from `PrintfInvariant`: after n iterations `pos` and `ap` stand
  behind what the first n directives are written as and were passed as, and text n means directive n. The step is `AtDirective`: what is found
  at `pos` and `ap` belongs to directive n + 1 (`FlattenNext`); `AtPercent` tells from a specifier which kind of directive it is.
- That a number is printed as it is, is `BufSpells`: the reversed buffer has the digits of the number, does not begin with 0,
  and is read back as the number. `SignedPrinted` adds the sign, for all words but the least int.
- These need induction over data, of the recursive functions `Buf`, `ValueOf` and `FlattenSeq`. It is done on sets: the set of numbers
  up to which a claim holds is all of them, since otherwise there would be a least number outside
  (`LeastNumber`, from well-foundedness of `<`). For each function one lemma says that a table of its values exists for every
  size, one that two tables agree where both are defined, and one gives its recursion equation (`BufLoop`, `ValueMore`, `FlattenMore`),
  which is all that the rest uses.

**Assumptions.** The constants' ASSUMEs, which TLC evaluates in the runs:

- `SizesAssumption`, `LayoutAssumption`, `BootAssumption`: positive sizes, frame 0 among the system areas, the
  kernel's end not before its start, boot structures well typed; nothing about how regions are aligned
  or overlap. `WholeBytesAssumption`: the bitmap of all frames fills whole bytes, as with 2^32 and 4096.
- `TotalPagesAssumption`, `PdeScanAssumption`: at least one bit; more entries than the boot ones, and a buffer of half as many ranges
  as entries (512 for 1024, `memory.h:126`). `PrintfAssumption`: words of an even number of values that hold a character,
  strings at addresses that are words.
- `PagingAssumption`, `VmaInputsAssumption`: the address space is N tables of N pages, the kernel's entry is
  neither the first nor the last. `KernelLayoutAssumption`: the directory and `page_table` lie in the kernel's
  first 3 MB (`linker.ld`, `.bootstrap_bss`), behind the bytes of `kernel_vm_bitmap`, and a hint is 0 or in the
  kernel's space (`kernel_main` passes 0). With a hint below it, `vma_alloc` could write into `page_table`.
- `TerminalAssumption`, `TerminalIrqAssumption`, `TablesAssumption`: positive sizes, different names for
  different characters, tables for all keys, two bytes that hold every position of the screen and the row below it.
- `SegmentsAssumption`, `InterruptsAssumption`: fields of at least two values, the task segment in memory,
  lines other than the keyboard's and the cascade's, exceptions other than 21 and 29, which belong to extensions the kernel does not enable.

**Only model-checked.** `CallsReturn` and `RequestsServed`: liveness under fairness, which the prover cannot do here.
The violation runs show counterexamples; there is nothing to prove about them.

## 5. Not modelled, and why

- `start_module` is not called and runs foreign code; the contents of the task segment are for such programs.
- `memset`/`memcpy`: part of the operations that use them. `kalloc.h` is empty.
- The TLB. `alloc_new_pt` invalidates its window itself and loads `cr3`; `invlpg` is
  wrong, but the entries it is called for take part in no translation as long as the recursive
  slot points to a page table (`vma_recursive`), so a stale copy of them has no effect to check.
- Of the modelled parts: cell attributes, printed statistics, and functions without callers: the
  `_old` bitmap functions, `PIC_sendEOI`, `pic_disable`, `irq_set_mask`, `handle_keyboard_interrupt`.
- Interrupts in the middle of anything but `terminal_putchar`: the handlers share no other state with
  `kernel_main`. The stack interrupts use is large and not bounded in the model, since they do not nest.

## 6. Plan

Done: bitmaps, frame allocator and virtual memory, each with the refinement of an abstract allocator, survey,
terminal in calls and in accesses, keyboard, interrupts, segments, printf; proofs of every safety property of the passing runs. Next, in this order:

1. Properties of `TerminalIrq` that relate more than one call: which lines an interrupted scroll can lose.
2. A TLB in `Vma`, once the recursive slot is right and stale entries can matter.
