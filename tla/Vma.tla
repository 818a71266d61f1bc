-------------------------------- MODULE Vma --------------------------------
(***************************************************************************)
(* The virtual memory allocator (memory/vma.h) over the page frame         *)
(* allocator, the page directory and the page tables: vma_alloc, vma_free, *)
(* alloc_new_pt with its temporary mapping (pfa.h), setup_recursive_pd     *)
(* (memory.h) and the paging structures boot.nasm builds.                  *)
(*                                                                         *)
(* Physical memory is a function from frames to tables of entries; an      *)
(* entry is NotPresent or the number of the frame it points to (the code   *)
(* only ever stores frame|3 or 0).  The page tables are reached the way    *)
(* the code reaches them: through the address translation of the CPU,      *)
(* which Translate models, at the virtual page GET_PT gives.               *)
(*                                                                         *)
(* kernel_vm_bitmap is a zeroed global that nothing initializes, so its    *)
(* bits live at virtual address 0, which PDE 0 maps to physical address 0: *)
(* vm_used holds those bits, and BitmapFrame says in which frame each one  *)
(* lies.  What the boot loader left in that memory is leftover.  The other *)
(* direction, bits that are set later showing up as entries of a page      *)
(* table that was placed on them, is not modelled.                         *)
(*                                                                         *)
(* A call of vma_alloc or vma_free is one step up to its loop and one step *)
(* per iteration of the loop, everything the iteration calls included.     *)
(***************************************************************************)
EXTENDS PageFrames

CONSTANTS
  N,            \* PDE_COUNT and PAGES_PER_PT, 1024
  KernelPde,    \* 768, the directory entry of the kernel's 4 MB
  PdFrame,      \* the frame of page_directory
  PtFrame,      \* the frame of page_table, the kernel's first page table
  NumFrames,    \* the frames of physical memory that are modelled
  NotPresent,   \* an entry whose present bit is clear
  BootInfos,    \* the multiboot structures the boot loader may pass
  Leftovers,    \* what the boot loader may have left under kernel_vm_bitmap
  Requests,     \* <<bytes, hint>>: the arguments of vma_alloc
  MaxFrees      \* a bound on the calls of vma_free; kernel_main makes none

TotalPages == N * N                       \* BITMAP_SIZE
Frame == 0 .. NumFrames - 1
Page == 0 .. TotalPages - 1
Index == 0 .. N - 1
Entry == Frame \union {NotPresent}
KernelFirstPage == KernelPde * N          \* 0xC0000000 / PAGE_SIZE
RecursivePde == N - 1                     \* entry 1023
PageBits == PageSize * BitsPerByte        \* the bits of a bitmap in one frame

ASSUME PagingAssumption ==
  /\ N \in Nat \ {0, 1, 2}
  /\ KernelPde \in 1 .. N - 2
  /\ NumFrames \in Nat
  /\ N <= NumFrames
  /\ PdFrame \in 1 .. N - 2 /\ PtFrame \in 1 .. N - 2 /\ PdFrame # PtFrame
  /\ NotPresent \notin Nat
  /\ AddrSpace = TotalPages * PageSize
  /\ KernelBase = KernelFirstPage * PageSize

ASSUME VmaInputsAssumption ==
  /\ BootInfos \in SUBSET BootInfo
  /\ \A info \in BootInfos : find_usable_memory_bounds(info) <= NumFrames * PageSize
  /\ Leftovers \in SUBSET (SUBSET Page)
  /\ Requests \in SUBSET ((0 .. AddrSpace - 1) \X (0 .. AddrSpace - 1))
  /\ MaxFrees \in Nat

\* The directory and the page table are in .bootstrap_bss (linker.ld), in the kernel's
\* first 3 MB, which begin behind the storage of kernel_vm_bitmap (128 KB at address 0);
\* kernel_main, the only caller, passes no hint, or one would be into the kernel's space.
ASSUME KernelLayoutAssumption ==
  /\ {PdFrame, PtFrame} \subseteq KernelFrames
  /\ PdFrame < KernelPde /\ PtFrame < KernelPde
  /\ TotalPages <= PtFrame * PageBits
  /\ \A q \in Requests : q[2] = 0 \/ q[2] >= KernelBase

VARIABLES
  phase,       \* where kernel_main is: "init_pfa", "setup_recursive_pd", "running",
               \* or "halted" after a page fault
  boot_info,   \* the structure kernel_main was called with
  vm_bitmap,   \* the page frame allocator
  vm_used,     \* the bits of kernel_vm_bitmap that are set
  leftover,    \* their value at boot
  pmem,        \* physical memory as tables of entries
  call,        \* the vma_alloc or vma_free call being executed
  ret,         \* what the last vma_alloc returned
  live,        \* history: the allocations vma_alloc returned and nobody freed
  backing,     \* history: <<page, frame>> for every frame vma_alloc got for a page
  frees        \* history: how often vma_free was called

vars == <<phase, boot_info, vm_bitmap, vm_used, leftover, pmem, call, ret, live,
          backing, frees>>

Idle == [op |-> "none", start |-> 0, num |-> 0, page |-> 0, bytes |-> 0]

Call ==
  [ op    : {"none", "vma_alloc", "vma_free"},
    start : Page,                  \* start_page_idx
    num   : 0 .. TotalPages,       \* num_pages
    page  : 0 .. TotalPages,       \* the loop variable
    bytes : 0 .. AddrSpace - 1 ]

TypeOK ==
  /\ phase \in {"init_pfa", "setup_recursive_pd", "running", "halted"}
  /\ boot_info \in BootInfos
  /\ vm_bitmap \in VmBitmap
  /\ vm_used \in SUBSET Page
  /\ leftover \in SUBSET Page
  /\ pmem \in [Frame -> [Index -> Entry]]
  /\ call \in Call
  /\ ret \in 0 .. AddrSpace - 1
  /\ live \in SUBSET Call
  /\ backing \in SUBSET (Page \X Frame)
  /\ frees \in 0 .. MaxFrees

-----------------------------------------------------------------------------
(* The CPU's address translation.                                          *)

pd(pm) == pm[PdFrame]

\* The frame a virtual page is mapped to.
Translate(pm, page) ==
  IF pd(pm)[page \div N] = NotPresent THEN NotPresent
  ELSE pm[pd(pm)[page \div N]][page % N]

\* The kernel runs on, and addresses its tables and bitmaps through, the two
\* mappings of low memory; without them the next access is a triple fault.
KernelMapped(pm) ==
  \A f \in 0 .. N - 2 : /\ Translate(pm, f) = f
                        /\ Translate(pm, KernelFirstPage + f) = f

\* The virtual page of GET_PT(pde_index).
GET_PT(pde_index) == RecursivePde * N + pde_index

-----------------------------------------------------------------------------
(* Boot.                                                                   *)

\* boot.nasm: page_table maps the first N frames, entries 0 and KernelPde of the
\* directory point to it.
BootTables ==
  [f \in Frame |->
     CASE f = PtFrame -> [i \in Index |-> i]
       [] f = PdFrame -> [i \in Index |-> IF i \in {0, KernelPde} THEN PtFrame
                                          ELSE NotPresent]
       [] OTHER       -> [i \in Index |-> NotPresent]]

Init ==
  /\ phase = "init_pfa"
  /\ boot_info \in BootInfos
  /\ vm_bitmap = InitialVmBitmap
  /\ leftover \in Leftovers
  /\ vm_used = leftover
  /\ pmem = BootTables
  /\ call = Idle
  /\ ret = 0
  /\ live = {}
  /\ backing = {}
  /\ frees = 0

InitPfa ==
  /\ phase = "init_pfa"
  /\ vm_bitmap' = init_pfa(vm_bitmap, boot_info)
  /\ phase' = "setup_recursive_pd"
  /\ UNCHANGED <<boot_info, vm_used, leftover, pmem, call, ret, live, backing, frees>>

\* The last entry becomes a copy of entry 0.
setup_recursive_pd ==
  /\ phase = "setup_recursive_pd"
  /\ pmem' = [pmem EXCEPT ![PdFrame][RecursivePde] = pd(pmem)[0]]
  /\ phase' = "running"
  /\ UNCHANGED <<boot_info, vm_bitmap, vm_used, leftover, call, ret, live, backing,
                 frees>>

-----------------------------------------------------------------------------
(* vma_alloc.                                                              *)

\* (bytes + PAGE_SIZE - 1) / PAGE_SIZE in 32-bit arithmetic.
NumPages(bytes) == ((bytes + PageSize - 1) % AddrSpace) \div PageSize

\* The bits of kernel_vm_bitmap that lie in a frame.
BitmapFrame(frame) == Span(frame * PageBits, PageBits)

\* Mutant of Advance: the loop of vma_free does not step to the next page.
Advance_Stuck(c) == IF c.op = "vma_free" THEN c ELSE [c EXCEPT !.page = @ + 1]

\* The page of the current iteration, and the step of the for loops.
CurrentPage == call.start + call.page
Advance(c) == [c EXCEPT !.page = @ + 1]
IsLast(c) == c.page + 1 = c.num

\* Mutant of alloc_new_pt: the new table is not entered in the directory.
alloc_new_pt_NotLinked(m, pde_index) ==
  [m EXCEPT !.vm_bitmap = pfa_alloc(m.vm_bitmap).vb]

\* Mutant of alloc_new_pt: its frame is not marked used.
alloc_new_pt_FrameNotKept(m, pde_index) ==
  LET r     == pfa_alloc(m.vm_bitmap)
      frame == FrameOf(r.addr)
  IN  IF r.addr = 0 THEN m
      ELSE [m EXCEPT !.pmem[frame] = [i \in Index |-> NotPresent],
                     !.pmem[PdFrame][pde_index] = frame]

\* Mutant of alloc_new_pt: the temporary mapping is one entry too low.
alloc_new_pt_TempSlot(m, pde_index) ==
  LET r     == pfa_alloc(m.vm_bitmap)
      frame == FrameOf(r.addr)
  IN  IF r.addr = 0 THEN [m EXCEPT !.vm_bitmap = r.vb]
      ELSE [m EXCEPT !.vm_bitmap = r.vb,
                     !.pmem[frame] = [i \in Index |-> NotPresent],
                     !.pmem[PdFrame][pde_index] = frame,
                     !.pmem[PtFrame][N - 2] = NotPresent]

\* alloc_new_pt: take a frame, zero it through the last entry of page_table, enter
\* it in the directory and clear that entry again.  Zeroing the frame also zeroes
\* the bits of kernel_vm_bitmap in it.  Without a frame nothing changes but the
\* bits pfa_alloc sets on its way.
alloc_new_pt(m, pde_index) ==
  LET r     == pfa_alloc(m.vm_bitmap)
      frame == FrameOf(r.addr)
  IN  IF r.addr = 0 THEN [m EXCEPT !.vm_bitmap = r.vb]
      ELSE [ vm_bitmap |-> r.vb,
             vm_used   |-> m.vm_used \ BitmapFrame(frame),
             pmem      |-> [[m.pmem EXCEPT ![frame] = [i \in Index |-> NotPresent]]
                              EXCEPT ![PdFrame][pde_index] = frame,
                                     ![PtFrame][N - 1] = NotPresent] ]

\* Up to the loop: reject, or find a range and mark it used.
vma_alloc(bytes, hint) ==
  LET num   == NumPages(bytes)
      start == bitmap_find_free_range(vm_used, num,
                 IF hint = 0 THEN KernelFirstPage ELSE hint \div PageSize, TotalPages)
      got   == [op |-> "vma_alloc", start |-> start, num |-> num, page |-> 0,
                bytes |-> bytes]
  IN  /\ phase = "running" /\ call = Idle
      /\ IF bytes = 0 \/ start = -1
         THEN ret' = 0 /\ UNCHANGED <<vm_used, call, live>>
         ELSE /\ vm_used' = bitmap_mark_range_used(vm_used, start, num)
              /\ IF num = 0
                 THEN /\ ret' = start * PageSize
                      /\ live' = live \union {got}
                      /\ UNCHANGED call
                 ELSE call' = got /\ UNCHANGED <<ret, live>>
      /\ UNCHANGED <<phase, boot_info, vm_bitmap, leftover, pmem, backing, frees>>

\* The directory has a table for the page: m is what it took to see to that.
WithTable(pde) ==
  LET m == [vm_bitmap |-> vm_bitmap, vm_used |-> vm_used, pmem |-> pmem]
  IN  IF pd(pmem)[pde] = NotPresent THEN alloc_new_pt(m, pde) ELSE m

\* One iteration: make sure of a page table, take a frame, write the entry through
\* the recursive mapping.  Out of memory gives the range back.
vma_alloc_page ==
  /\ phase = "running" /\ call.op = "vma_alloc"
  /\ \E m \in {WithTable(CurrentPage \div N)} : \E r \in {pfa_alloc(m.vm_bitmap)} :
       LET table == Translate(m.pmem, GET_PT(CurrentPage \div N))
       IN  \/ /\ KernelMapped(m.pmem) /\ r.addr = 0
              /\ vm_bitmap' = r.vb
              /\ vm_used' = bitmap_mark_range_free(m.vm_used, call.start, call.num)
              /\ backing' = {b \in backing : b[1] \notin Span(call.start, call.num)}
              /\ pmem' = m.pmem
              /\ ret' = 0
              /\ call' = Idle
              /\ UNCHANGED <<phase, live>>
           \/ /\ KernelMapped(m.pmem) /\ r.addr # 0 /\ table # NotPresent
              /\ vm_bitmap' = r.vb
              /\ vm_used' = m.vm_used
              /\ backing' = backing \union {<<CurrentPage, FrameOf(r.addr)>>}
              /\ pmem' = [m.pmem EXCEPT ![table][CurrentPage % N] = FrameOf(r.addr)]
              /\ phase' = IF KernelMapped(pmem') THEN phase ELSE "halted"
              /\ IF IsLast(call)
                 THEN /\ call' = Idle
                      /\ ret' = call.start * PageSize
                      /\ live' = live \union {[call EXCEPT !.page = 0]}
                 ELSE call' = Advance(call) /\ UNCHANGED <<ret, live>>
           \/ /\ ~ KernelMapped(m.pmem) \/ (r.addr # 0 /\ table = NotPresent)
              /\ vm_bitmap' = IF KernelMapped(m.pmem) THEN r.vb ELSE m.vm_bitmap
              /\ vm_used' = m.vm_used
              /\ pmem' = m.pmem
              /\ phase' = "halted"
              /\ UNCHANGED <<call, ret, live, backing>>
  /\ UNCHANGED <<boot_info, leftover, frees>>

-----------------------------------------------------------------------------
(* vma_free.                                                               *)

\* Up to the loop; clients free what vma_alloc gave them, with the same size.
vma_free(a) ==
  /\ phase = "running" /\ call = Idle
  /\ frees < MaxFrees
  /\ a.num > 0
  /\ call' = [a EXCEPT !.op = "vma_free"]
  /\ frees' = frees + 1
  /\ live' = live \ {a}
  /\ UNCHANGED <<phase, boot_info, vm_bitmap, vm_used, leftover, pmem, ret, backing>>

\* One iteration: skip a page without table or entry, else clear the entry and
\* give pt_phys, the frame of the page table, to pfa_free.
vma_free_page ==
  LET v     == CurrentPage
      pde   == v \div N
      table == Translate(pmem, GET_PT(pde))
      skip  == pd(pmem)[pde] = NotPresent
  IN  /\ phase = "running" /\ call.op = "vma_free"
      /\ IF ~ skip /\ table = NotPresent
         THEN phase' = "halted" /\ UNCHANGED <<vm_bitmap, vm_used, pmem, call, backing>>
         ELSE /\ IF skip \/ pmem[table][v % N] = NotPresent
                 THEN UNCHANGED <<phase, vm_bitmap, pmem>>
                 ELSE /\ pmem' = [pmem EXCEPT ![table][v % N] = NotPresent]
                      /\ vm_bitmap' = pfa_free(vm_bitmap, pd(pmem)[pde] * PageSize)
                      /\ phase' = IF KernelMapped(pmem') THEN phase ELSE "halted"
              /\ backing' = {b \in backing : b[1] # v}
              /\ vm_used' = IF IsLast(call)
                            THEN bitmap_mark_range_free(vm_used, call.start, call.num)
                            ELSE vm_used
              /\ call' = IF IsLast(call) THEN Idle ELSE Advance(call)
      /\ UNCHANGED <<boot_info, leftover, ret, live, frees>>

-----------------------------------------------------------------------------
Next ==
  \/ InitPfa
  \/ setup_recursive_pd
  \/ \E q \in Requests : vma_alloc(q[1], q[2])
  \/ vma_alloc_page
  \/ \E a \in live : vma_free(a)
  \/ vma_free_page

Spec == Init /\ [][Next]_vars

\* The kernel keeps executing a call it has entered.
FairSpec == Spec /\ WF_vars(vma_alloc_page) /\ WF_vars(vma_free_page)
-----------------------------------------------------------------------------
(* What the allocator does right.                                          *)

RangeOf(c) == Span(c.start, c.num)

\* The page tables vma_alloc has added; boot.nasm's own one is PtFrame.
NewTables == {pd(pmem)[i] : i \in Index} \ {NotPresent, PtFrame}

\* No page table lies on the bits of kernel_vm_bitmap (see RangesNeverOverlap).
BitmapIntact == \A f \in NewTables : BitmapFrame(f) \intersect Page = {}

(***************************************************************************)
(* Reserving, rolling back and freeing keep kernel_vm_bitmap exact: as     *)
(* long as no page table was placed on it, the set bits are those found at *)
(* boot, the live allocations' and the current call's, all disjoint.       *)
(* vma_alloc marks the whole range before its loop (vma.h:33), rolls the   *)
(* whole range back (vma.h:55) and vma_free clears it after its loop       *)
(* (vma.h:104), whatever happened to single pages in between.              *)
(***************************************************************************)
RangesReserved ==
  LET ranges == {RangeOf(c) : c \in live \union {call}} \ {{}}
  IN  BitmapIntact =>
        /\ vm_used = leftover \union UNION ranges
        /\ \A r \in ranges : r \intersect leftover = {}
        /\ \A c, d \in live \union {call} : c # d => RangeOf(c) \intersect RangeOf(d) = {}

(***************************************************************************)
(* The loops of vma_alloc and vma_free, with their page tables, frames and *)
(* rollback, implement an allocator of ranges as long as no page table was *)
(* placed on the bitmap: an allocation takes effect when it returns, a free*)
(* when it is called, and out of memory (vma.h:52-58), after any number of *)
(* pages and with or without a new table, leaves every page as it was.     *)
(***************************************************************************)
Ranges == INSTANCE RangeAllocator
            WITH NoPage <- 0,
                 free   <- Page \ (vm_used \ RangeOf(call)),
                 held   <- {RangeOf(c) : c \in live} \ {{}},
                 answer <- FrameOf(ret)

ImplementsRangeAllocator ==
  Ranges!Init /\ [][BitmapIntact' => [Ranges!Next]_(Ranges!vars)]_vars

(***************************************************************************)
(* alloc_new_pt reports running out of memory only on the screen and       *)
(* vma_alloc goes on as if the table existed (vma.h:44-52).  That is safe  *)
(* because pfa_alloc, having failed once, fails again: no page is ever     *)
(* given a frame while its directory entry is not present.                 *)
(***************************************************************************)
TablesBeforeEntries == \A b \in backing : pd(pmem)[b[1] \div N] # NotPresent

(***************************************************************************)
(* A call that has been entered returns, or the machine halts in a page    *)
(* fault handler (exception_handler.h): the loops of vma_alloc and         *)
(* vma_free end on every path through them.                                *)
(***************************************************************************)
CallsReturn == call # Idle ~> (call = Idle \/ phase = "halted")

(***************************************************************************)
(* Until the first vma_free, a frame has one use: the frames of pages      *)
(* are different from each other, from the page tables and from the        *)
(* kernel's frames, and the frame allocator holds all of them as used, on  *)
(* the out-of-memory and rollback paths too.                               *)
(***************************************************************************)
FramesExclusive ==
  frees = 0 =>
    /\ \A a, b \in backing : a[2] = b[2] => a = b
    /\ \A b \in backing : b[2] \notin NewTables \union KernelFrames \union {0}
    /\ NewTables \intersect (KernelFrames \union {0}) = {}
    /\ \A i, j \in Index :
         pd(pmem)[i] \in NewTables /\ pd(pmem)[i] = pd(pmem)[j] => i = j
    /\ (NewTables \union {b[2] : b \in backing}) \intersect FreeBits(vm_bitmap) = {}

(***************************************************************************)
(* Until the first vma_free, the mappings the kernel itself runs on        *)
(* survive every call: neither the temporary mapping in page_table[1023],  *)
(* nor the zeroing of new page tables, nor the entries that go through the *)
(* recursive slot into the wrong frame touch the directory or the first N-1*)
(* entries of the kernel's page table.                                     *)
(***************************************************************************)
KernelStaysMapped == frees = 0 => KernelMapped(pmem)

-----------------------------------------------------------------------------
(* What its comments say and it does not do.                               *)

(***************************************************************************)
(* "Set last PDE to point to PD itself" (memory.h:23), so that the tables  *)
(* are accessible "via recursive mapping" (vma.h:48): a page of a live     *)
(* allocation is mapped to the frame that was taken for it.                *)
(***************************************************************************)
LivePagesMapped ==
  \A c \in live : \A p \in RangeOf(c) : <<p, Translate(pmem, p)>> \in backing

(***************************************************************************)
(* "For each page, return phys to PFA" (vma.h:79): an iteration of         *)
(* vma_free frees no frame but the one taken for its page.                 *)
(***************************************************************************)
FreeReturnsPhys ==
  [][call.op = "vma_free" =>
       FreeBits(vm_bitmap') \ FreeBits(vm_bitmap)
         \subseteq {b[2] : b \in {q \in backing : q[1] = CurrentPage}}]_vars

(***************************************************************************)
(* "Mark as used (before mapping, to reserve)" (vma.h:32): two live        *)
(* allocations share no page.                                              *)
(***************************************************************************)
RangesNeverOverlap ==
  \A c, d \in live : c # d => RangeOf(c) \intersect RangeOf(d) = {}
=============================================================================
