----------------------------- MODULE VmaProofs -----------------------------
(***************************************************************************)
(* Theorems about the virtual memory allocator on its page tables and its  *)
(* frame allocator, for every size of tables, memory map, contents of      *)
(* memory at boot and sequence of calls.                                   *)
(***************************************************************************)
EXTENDS Vma, PageFramesProofs

-----------------------------------------------------------------------------
(* Arithmetic of pages and directory entries.                              *)

LEMMA SpaceType ==
  /\ TotalPages \in Nat /\ TotalPages > 0
  /\ KernelFirstPage \in Nat
  /\ RecursivePde \in Nat
  /\ PageBits \in Nat
BY PagingAssumption, SizesAssumption
   DEF TotalPages, KernelFirstPage, RecursivePde, PageBits

LEMMA PageIndexes ==
  ASSUME NEW v \in Page
  PROVE  v \div N \in Index /\ v % N \in Index
<1>1. N \in Nat /\ N > 0 /\ v \in Nat /\ v < N * N
  BY PagingAssumption DEF Page, TotalPages
<1>2. v \div N \in Nat /\ v \div N < N
  BY <1>1
<1>3. v % N \in 0 .. N - 1
  BY <1>1
<1> QED
  BY <1>1, <1>2, <1>3 DEF Index

LEMMA KernelPdes ==
  ASSUME NEW v \in Page, v >= KernelFirstPage
  PROVE  v \div N >= KernelPde
<1>1. N \in Nat /\ N > 0 /\ v \in Nat /\ KernelPde \in Nat /\ v >= KernelPde * N
  BY PagingAssumption DEF Page, TotalPages, KernelFirstPage
<1> QED
  BY <1>1

LEMMA SplitPage ==
  ASSUME NEW d \in Index, NEW e \in Index
  PROVE  (d * N + e) \div N = d /\ (d * N + e) % N = e
BY PagingAssumption DEF Index

LEMMA AddressType ==
  ASSUME NEW start \in Page
  PROVE  start * PageSize \in 0 .. AddrSpace - 1
<1>1. start \in Nat /\ start + 1 <= TotalPages
  BY SpaceType DEF Page
<1>2. (start + 1) * PageSize <= TotalPages * PageSize
  BY <1>1, SpaceType, SizesAssumption, TimesMonotonic
<1>3. (start + 1) * PageSize = start * PageSize + PageSize
  BY <1>1, SizesAssumption
<1>4. start * PageSize \in Nat
  BY <1>1, SizesAssumption, TimesType
<1> QED
  BY <1>2, <1>3, <1>4, SizesAssumption, PagingAssumption

-----------------------------------------------------------------------------
(* The inductive invariant.                                                *)

\* A range of pages of the kernel's space.
InSpace(c) == c.start >= KernelFirstPage /\ c.start + c.num <= TotalPages

CallInv ==
  /\ call.op = "none" => call = Idle
  /\ call.op # "none" => call.page < call.num /\ InSpace(call)
  /\ call.op = "vma_free" => frees > 0
  /\ \A c \in live : InSpace(c) /\ c.page = 0

\* dir is the directory, low is page_table.  Entries of the directory never disappear,
\* none of them makes the directory a page table, and page_table still names the
\* frames that boot.nasm entered.
DirectoryOk(dir, low) ==
  /\ dir[0] = PtFrame /\ dir[KernelPde] = PtFrame
  /\ \A i \in Index : dir[i] # PdFrame
  /\ \A i \in Index : low[i] \in {i, NotPresent}

\* With the recursive slot a copy of entry 0, GET_PT(i) leads to the physical frame i,
\* and from no i of the kernel's space to the directory or to page_table.
DirectoryInv ==
  /\ DirectoryOk(pd(pmem), pmem[PtFrame])
  /\ phase \in {"running", "halted"} => pd(pmem)[RecursivePde] = PtFrame

\* Before init_pfa there is no bitmap; afterwards its frames are ones of the modelled
\* memory, and the directory's is never free.
FrameOk(vb) ==
  /\ vb \in VmBitmap
  /\ vb.max_phys_addr <= NumFrames * PageSize
  /\ PdFrame \notin FreeBits(vb)

FrameInv == FrameOk(vm_bitmap)

TablesOf(dir) == {dir[i] : i \in Index} \ {NotPresent, PtFrame}
FramesOf(pairs) == {b[2] : b \in pairs}

BootInv ==
  /\ phase = "init_pfa" => vm_bitmap = InitialVmBitmap
  /\ phase \in {"init_pfa", "setup_recursive_pd"} =>
       backing = {} /\ TablesOf(pd(pmem)) = {}

\* All frames in use are different and marked used.
Exclusive(dir, low, vb, pairs) ==
  /\ \A a, b \in pairs : a[2] = b[2] => a = b
  /\ TablesOf(dir) \intersect FramesOf(pairs) = {}
  /\ \A i, j \in Index : dir[i] \in TablesOf(dir) /\ dir[i] = dir[j] => i = j
  /\ (TablesOf(dir) \union FramesOf(pairs)) \intersect (KernelFrames \union {0}) = {}
  /\ (TablesOf(dir) \union FramesOf(pairs)) \intersect FreeBits(vb) = {}
  /\ KernelFrames \intersect FreeBits(vb) = {}
  /\ \A f \in 0 .. N - 2 : low[f] = f

ExclusiveInv == frees = 0 => Exclusive(pd(pmem), pmem[PtFrame], vm_bitmap, backing)

\* The set bits: found at boot, of live allocations, and of the running call.
LivePages == UNION {RangeOf(c) : c \in live}

RangesInv ==
  BitmapIntact =>
    /\ vm_used = leftover \union RangeOf(call) \union LivePages
    /\ RangeOf(call) \intersect (leftover \union LivePages) = {}
    /\ LivePages \intersect leftover = {}
    /\ \A c, d \in live : c # d => RangeOf(c) \intersect RangeOf(d) = {}

IInv ==
  /\ TypeOK /\ CallInv /\ DirectoryInv /\ FrameInv /\ BootInv
  /\ TablesBeforeEntries /\ ExclusiveInv /\ RangesInv

-----------------------------------------------------------------------------
(* What the pieces of a step do.                                           *)

LEMMA FrameRange ==
  /\ PdFrame \in Frame /\ PtFrame \in Frame /\ PdFrame # PtFrame
  /\ 0 \in Index /\ KernelPde \in Index /\ RecursivePde \in Index
  /\ KernelPde # 0 /\ RecursivePde # 0 /\ RecursivePde # KernelPde
  /\ RecursivePde = N - 1
  /\ NotPresent \notin Frame /\ Index \subseteq Frame
BY PagingAssumption DEF Frame, Index, RecursivePde

\* pfa_alloc takes a free frame of the modelled memory, and fails for good.
LEMMA AllocFrame ==
  ASSUME NEW vb, FrameOk(vb)
  PROVE  LET r == pfa_alloc(vb)
         IN  /\ FrameOk(r.vb)
             /\ FreeBits(r.vb) \subseteq FreeBits(vb)
             /\ \/ /\ r.addr = 0
                   /\ AllocatableFrames(vb) = {} /\ AllocatableFrames(r.vb) = {}
                \/ /\ r.addr # 0 /\ AllocatableFrames(vb) # {}
                   /\ FrameOf(r.addr) \in Frame \ {0}
                   /\ FrameOf(r.addr) \in FreeBits(vb) \ FreeBits(r.vb)
<1> DEFINE r == pfa_alloc(vb)
<1>1. vb \in VmBitmap /\ vb.max_phys_addr \in Nat /\ vb.max_phys_addr <= NumFrames * PageSize
  BY DEF FrameOk, VmBitmap
<1>2. /\ r.vb \in VmBitmap
      /\ r.vb.bitmap_size = vb.bitmap_size
      /\ r.vb.max_phys_addr = vb.max_phys_addr
      /\ vb.bits \subseteq r.vb.bits
      /\ \/ r.addr = 0 /\ AllocatableFrames(vb) = {} /\ AllocatableFrames(r.vb) = {}
         \/ \E f \in AllocatableFrames(vb) : r.addr = f * PageSize /\ f \in r.vb.bits
  BY <1>1, AllocEffect
<1> HIDE DEF r
<1>3. FreeBits(r.vb) \subseteq FreeBits(vb)
  BY <1>2 DEF FreeBits, ScannedBits, bitmap_test
<1>4. FrameOk(r.vb)
  BY <1>2, <1>3 DEF FrameOk
<1>5. ASSUME NEW f \in AllocatableFrames(vb), r.addr = f * PageSize, f \in r.vb.bits
      PROVE  /\ r.addr # 0
             /\ FrameOf(r.addr) \in Frame \ {0}
             /\ FrameOf(r.addr) \in FreeBits(vb) \ FreeBits(r.vb)
  <2>1. f \in FreeBits(vb) /\ f # 0 /\ f * PageSize < vb.max_phys_addr
    BY DEF AllocatableFrames
  <2>2. f \in Nat
    BY <1>1, <2>1, ScannedType DEF FreeBits
  <2>3. FrameOf(r.addr) = f /\ r.addr # 0 /\ f * PageSize \in Nat
    BY <1>5, <2>1, <2>2, FrameOfFrame, AddressNotZero
  <2>4. f < NumFrames
    <3>1. SUFFICES ASSUME NumFrames <= f
                   PROVE  FALSE
      BY <2>2, PagingAssumption
    <3>2. NumFrames * PageSize <= f * PageSize
      BY <2>2, <3>1, TimesMonotonic, PagingAssumption, SizesAssumption
    <3>3. NumFrames * PageSize \in Nat
      BY TimesType, PagingAssumption, SizesAssumption
    <3> QED
      BY <1>1, <2>1, <2>3, <3>2, <3>3
  <2>5. f \in Frame
    BY <2>2, <2>4, PagingAssumption DEF Frame
  <2>6. f \notin FreeBits(r.vb)
    BY <1>5 DEF FreeBits, bitmap_test
  <2> QED
    BY <2>1, <2>3, <2>5, <2>6
<1> QED
  BY <1>2, <1>3, <1>4, <1>5 DEF r

\* GET_PT goes through page_table.
LEMMA RecursiveSlot ==
  ASSUME NEW pm, pd(pm)[RecursivePde] = PtFrame, NEW pde \in Index
  PROVE  Translate(pm, GET_PT(pde)) = pm[PtFrame][pde]
<1>1. GET_PT(pde) \div N = RecursivePde /\ GET_PT(pde) % N = pde
  BY SplitPage, FrameRange DEF GET_PT
<1>2. PtFrame # NotPresent
  BY FrameRange
<1> QED
  BY <1>1, <1>2 DEF Translate

LEMMA MappedLow ==
  ASSUME NEW pm, pd(pm)[0] = PtFrame, pd(pm)[KernelPde] = PtFrame
  PROVE  KernelMapped(pm) <=> \A f \in 0 .. N - 2 : pm[PtFrame][f] = f
<1>1. ASSUME NEW f \in 0 .. N - 2
      PROVE  /\ Translate(pm, f) = pm[PtFrame][f]
             /\ Translate(pm, KernelFirstPage + f) = pm[PtFrame][f]
  <2>1. f \in Index
    BY PagingAssumption DEF Index
  <2>2. f \div N = 0 /\ f % N = f
    BY PagingAssumption
  <2>3. (KernelFirstPage + f) \div N = KernelPde /\ (KernelFirstPage + f) % N = f
    BY <2>1, SplitPage, FrameRange DEF KernelFirstPage
  <2>4. PtFrame # NotPresent
    BY FrameRange
  <2> QED
    BY <2>2, <2>3, <2>4 DEF Translate
<1> QED
  BY <1>1 DEF KernelMapped

-----------------------------------------------------------------------------
(* alloc_new_pt, when and if the loop of vma_alloc calls it.               *)

Memory == [Frame -> [Index -> Entry]]

\* What it does to physical memory, with the frame f.
NewTable(pm, f, pde) ==
  [[pm EXCEPT ![f] = [i \in Index |-> NotPresent]]
     EXCEPT ![PdFrame][pde] = f, ![PtFrame][N - 1] = NotPresent]

LEMMA NewTablePmem ==
  ASSUME NEW pm \in Memory, NEW f \in Frame, f # PdFrame, NEW pde \in Index
  PROVE  LET q == NewTable(pm, f, pde)
         IN  /\ q \in Memory
             /\ pd(q) = [pd(pm) EXCEPT ![pde] = f]
             /\ \A i \in Index : q[PtFrame][i] \in {pm[PtFrame][i], NotPresent}
             /\ f # PtFrame => \A i \in 0 .. N - 2 : q[PtFrame][i] = pm[PtFrame][i]
<1> DEFINE zero == [i \in Index |-> NotPresent]
           a == [pm EXCEPT ![f] = zero]
           b == [a EXCEPT ![PdFrame] = [a[PdFrame] EXCEPT ![pde] = f]]
           q == [b EXCEPT ![PtFrame] = [b[PtFrame] EXCEPT ![N - 1] = NotPresent]]
<1>1. zero \in [Index -> Entry] /\ f \in Entry /\ NotPresent \in Entry
  BY DEF Entry
<1>2. a \in Memory /\ a[PdFrame] = pm[PdFrame] /\ a[f] = zero
      /\ (f # PtFrame => a[PtFrame] = pm[PtFrame])
  BY <1>1, FrameRange DEF Memory
<1> HIDE DEF a, zero
<1>3. b \in Memory /\ b[PdFrame] = [pm[PdFrame] EXCEPT ![pde] = f] /\ b[PtFrame] = a[PtFrame]
  BY <1>1, <1>2, FrameRange DEF Memory
<1> HIDE DEF b
<1>4. /\ q \in Memory /\ q[PdFrame] = b[PdFrame]
      /\ q[PtFrame] = [b[PtFrame] EXCEPT ![N - 1] = NotPresent]
  BY <1>1, <1>3, FrameRange DEF Memory
<1>5. b[PtFrame] \in [Index -> Entry] /\ N - 1 \in Index
  BY <1>3, FrameRange DEF Memory
<1>6. q[PtFrame] = [i \in Index |-> IF i = N - 1 THEN NotPresent ELSE a[PtFrame][i]]
  BY <1>3, <1>4, <1>5
<1>7. \A i \in Index : a[PtFrame][i] \in {pm[PtFrame][i], NotPresent}
  BY <1>2 DEF zero
<1>8. q = NewTable(pm, f, pde)
  BY DEF NewTable, a, b, zero
<1> HIDE DEF q
<1>9. \A i \in 0 .. N - 2 : i \in Index /\ i # N - 1
  BY PagingAssumption DEF Index
<1> QED
  BY <1>2, <1>3, <1>4, <1>6, <1>7, <1>8, <1>9 DEF pd

\* Either there is a table, or there will never be one again for lack of frames, or a
\* free frame becomes one.
LEMMA TableEffect ==
  ASSUME TypeOK, FrameInv, NEW pde \in Index
  PROVE  LET m == WithTable(pde)
         IN  /\ FrameOk(m.vm_bitmap) /\ FreeBits(m.vm_bitmap) \subseteq FreeBits(vm_bitmap)
             /\ m.pmem \in Memory
             /\ \/ /\ m.pmem = pmem /\ m.vm_used = vm_used
                   /\ \/ pd(pmem)[pde] # NotPresent
                      \/ AllocatableFrames(m.vm_bitmap) = {}
                \/ /\ pd(pmem)[pde] = NotPresent
                   /\ \E f \in Frame \ {0, PdFrame} :
                        /\ f \in FreeBits(vm_bitmap) \ FreeBits(m.vm_bitmap)
                        /\ m.vm_used = vm_used \ BitmapFrame(f)
                        /\ pd(m.pmem) = [pd(pmem) EXCEPT ![pde] = f]
                        /\ \A i \in Index :
                             m.pmem[PtFrame][i] \in {pmem[PtFrame][i], NotPresent}
                        /\ f # PtFrame =>
                             \A i \in 0 .. N - 2 : m.pmem[PtFrame][i] = pmem[PtFrame][i]
<1> DEFINE n == [vm_bitmap |-> vm_bitmap, vm_used |-> vm_used, pmem |-> pmem]
           r == pfa_alloc(vm_bitmap)
           f == FrameOf(r.addr)
           q == NewTable(pmem, f, pde)
<1>1. pmem \in Memory /\ FrameOk(vm_bitmap)
  BY DEF TypeOK, Memory, FrameInv
<1>2. CASE pd(pmem)[pde] # NotPresent
  BY <1>1, <1>2 DEF WithTable
<1>3. CASE pd(pmem)[pde] = NotPresent
  <2>1. /\ FrameOk(r.vb) /\ FreeBits(r.vb) \subseteq FreeBits(vm_bitmap)
        /\ \/ r.addr = 0 /\ AllocatableFrames(r.vb) = {}
           \/ /\ r.addr # 0 /\ f \in Frame \ {0}
              /\ f \in FreeBits(vm_bitmap) \ FreeBits(r.vb)
    BY <1>1, AllocFrame
  <2>2. WithTable(pde) = IF r.addr = 0 THEN [n EXCEPT !.vm_bitmap = r.vb]
                         ELSE [vm_bitmap |-> r.vb, vm_used |-> vm_used \ BitmapFrame(f),
                               pmem |-> q]
    BY <1>3 DEF WithTable, alloc_new_pt, NewTable
  <2>3. CASE r.addr = 0
    BY <1>1, <2>1, <2>2, <2>3
  <2>4. CASE r.addr # 0
    <3>1. f # PdFrame
      BY <1>1, <2>1, <2>4 DEF FrameOk
    <3>2. f \in Frame
      BY <2>1, <2>4
    <3> HIDE DEF r, f
    <3>3. /\ q \in Memory
          /\ pd(q) = [pd(pmem) EXCEPT ![pde] = f]
          /\ \A i \in Index : q[PtFrame][i] \in {pmem[PtFrame][i], NotPresent}
          /\ f # PtFrame => \A i \in 0 .. N - 2 : q[PtFrame][i] = pmem[PtFrame][i]
      BY <1>1, <3>1, <3>2, NewTablePmem
    <3> HIDE DEF q
    <3> QED
      BY <1>3, <2>1, <2>2, <2>4, <3>1, <3>2, <3>3
  <2> QED
    BY <2>3, <2>4
<1> QED
  BY <1>2, <1>3

-----------------------------------------------------------------------------
(* The steps of boot.                                                      *)

LEMMA BootTablesType ==
  /\ BootTables \in Memory
  /\ pd(BootTables) = [i \in Index |-> IF i \in {0, KernelPde} THEN PtFrame ELSE NotPresent]
  /\ BootTables[PtFrame] = [i \in Index |-> i]
<1>1. \A i \in Index : i \in Entry /\ PtFrame \in Entry /\ NotPresent \in Entry
  BY FrameRange DEF Entry
<1>2. BootTables = [f \in Frame |-> IF f = PtFrame THEN [i \in Index |-> i]
                      ELSE IF f = PdFrame
                      THEN [i \in Index |-> IF i \in {0, KernelPde} THEN PtFrame
                                            ELSE NotPresent]
                      ELSE [i \in Index |-> NotPresent]]
  BY FrameRange DEF BootTables
<1> QED
  BY <1>1, <1>2, FrameRange DEF Memory, pd

LEMMA NoBitmap ==
  /\ FreeBits(InitialVmBitmap) = {}
  /\ FrameOk(InitialVmBitmap)
<1>1. FreeBits(InitialVmBitmap) = {}
  BY SizesAssumption DEF InitialVmBitmap, FreeBits, ScannedBits, Span
<1>2. InitialVmBitmap \in VmBitmap
  BY DEF InitialVmBitmap, VmBitmap
<1>3. InitialVmBitmap.max_phys_addr <= NumFrames * PageSize
  BY TimesType, PagingAssumption, SizesAssumption DEF InitialVmBitmap
<1> QED
  BY <1>1, <1>2, <1>3 DEF FrameOk

LEMMA InitIInv == Init => IInv
<1> SUFFICES ASSUME Init
             PROVE  IInv
  OBVIOUS
<1>1. TypeOK
  <2>1. Idle \in Call
    BY SpaceType, SizesAssumption DEF Idle, Call, Page
  <2>2. vm_used \in SUBSET Page /\ leftover \in SUBSET Page
    BY VmaInputsAssumption DEF Init
  <2>3. vm_bitmap \in VmBitmap
    BY NoBitmap DEF Init, FrameOk
  <2>4. ret \in 0 .. AddrSpace - 1 /\ frees \in 0 .. MaxFrees
    BY SizesAssumption, VmaInputsAssumption DEF Init
  <2> QED
    BY <2>1, <2>2, <2>3, <2>4, BootTablesType DEF Init, TypeOK, Memory
<1>2. CallInv
  BY DEF Init, CallInv, Idle
<1>3. pd(pmem) = [i \in Index |-> IF i \in {0, KernelPde} THEN PtFrame ELSE NotPresent]
      /\ pmem[PtFrame] = [i \in Index |-> i]
  BY BootTablesType DEF Init
<1>4. DirectoryInv
  BY <1>3, FrameRange DEF Init, DirectoryInv, DirectoryOk
<1>5. FrameInv
  BY NoBitmap DEF Init, FrameInv
<1>6. TablesBeforeEntries
  BY DEF Init, TablesBeforeEntries
<1>7. ExclusiveInv
  <2>1. TablesOf(pd(pmem)) = {}
    BY <1>3 DEF TablesOf
  <2>2. FramesOf(backing) = {}
    BY DEF Init, FramesOf
  <2>3. FreeBits(vm_bitmap) = {}
    BY NoBitmap DEF Init
  <2>4. \A f \in 0 .. N - 2 : f \in Index
    BY PagingAssumption DEF Index
  <2>5. \A f \in 0 .. N - 2 : pmem[PtFrame][f] = f
    BY <1>3, <2>4
  <2> QED
    BY <2>1, <2>2, <2>3, <2>5 DEF Init, ExclusiveInv, Exclusive
<1>8. RangesInv
  <2>1. RangeOf(call) = {}
    BY DEF Init, Idle, RangeOf, Span
  <2> QED
    BY <2>1 DEF Init, RangesInv, LivePages
<1>9. BootInv
  BY <1>3 DEF Init, BootInv, TablesOf
<1> QED
  BY <1>1, <1>2, <1>4, <1>5, <1>6, <1>7, <1>8, <1>9 DEF IInv

LEMMA InitPfaStep ==
  ASSUME IInv, InitPfa
  PROVE  IInv'
<1> USE DEF InitPfa
<1> DEFINE vb == init_pfa(InitialVmBitmap, boot_info)
<1>1. boot_info \in BootInfo /\ boot_info \in BootInfos
  BY VmaInputsAssumption DEF IInv, TypeOK
<1>2. vm_bitmap' = vb
  BY DEF IInv, BootInv
<1>3. vb \in VmBitmap
  BY <1>1, InitPfaType, NoBitmap DEF FrameOk
<1>4. KernelFrames \intersect FreeBits(vb) = {}
  BY <1>1, InitPfaProtects DEF FreeBits, bitmap_test, Protected
<1>5. vb.max_phys_addr <= NumFrames * PageSize
  <2>1. find_usable_memory_bounds(boot_info) <= NumFrames * PageSize
    BY <1>1, VmaInputsAssumption
  <2>2. 0 <= NumFrames * PageSize
    BY TimesType, PagingAssumption, SizesAssumption
  <2> QED
    BY <1>1, <2>1, <2>2, InitPfaMax
<1>6. FrameOk(vb)
  BY <1>3, <1>4, <1>5, KernelLayoutAssumption DEF FrameOk
<1> HIDE DEF vb
<1>7. TypeOK'
  BY <1>2, <1>3 DEF IInv, TypeOK
<1>8. CallInv'
  BY DEF IInv, CallInv, InSpace
<1>9. DirectoryInv'
  BY DEF IInv, DirectoryInv
<1>10. FrameInv'
  BY <1>2, <1>6 DEF FrameInv
<1>11. TablesBeforeEntries'
  BY DEF IInv, TablesBeforeEntries
<1>12. ExclusiveInv'
  <2>1. backing = {} /\ TablesOf(pd(pmem)) = {} /\ FramesOf(backing) = {}
    BY DEF IInv, BootInv, FramesOf
  <2>2. frees = 0 => \A f \in 0 .. N - 2 : pmem[PtFrame][f] = f
    BY DEF IInv, ExclusiveInv, Exclusive
  <2> QED
    BY <1>2, <1>4, <2>1, <2>2 DEF ExclusiveInv, Exclusive
<1>13. RangesInv'
  BY DEF IInv, RangesInv, BitmapIntact, NewTables, LivePages
<1>14. BootInv'
  BY DEF IInv, BootInv
<1> QED
  BY <1>7, <1>8, <1>9, <1>10, <1>11, <1>12, <1>13, <1>14 DEF IInv

\* The last entry of the directory becomes PtFrame: no new page table.
LEMMA SetupStep ==
  ASSUME IInv, setup_recursive_pd
  PROVE  IInv'
<1> USE DEF setup_recursive_pd
<1>1. pmem \in Memory /\ pd(pmem)[0] = PtFrame /\ pd(pmem)[KernelPde] = PtFrame
  BY DEF IInv, TypeOK, Memory, DirectoryInv, DirectoryOk
<1>2. /\ pmem' \in Memory
      /\ pd(pmem') = [pd(pmem) EXCEPT ![RecursivePde] = PtFrame]
      /\ pmem'[PtFrame] = pmem[PtFrame]
  BY <1>1, FrameRange DEF Memory, pd, Entry
<1>3. pd(pmem) \in [Index -> Entry]
  BY <1>1, FrameRange DEF Memory, pd
<1>4. \A i \in Index : pd(pmem')[i] = IF i = RecursivePde THEN PtFrame ELSE pd(pmem)[i]
  BY <1>2, <1>3
<1>5. TablesOf(pd(pmem)) = {} /\ TablesOf(pd(pmem')) = {} /\ backing = {}
  BY <1>4 DEF IInv, BootInv, TablesOf
<1>6. TypeOK'
  BY <1>2 DEF IInv, TypeOK, Memory
<1>7. CallInv'
  BY DEF IInv, CallInv, InSpace
<1>8. DirectoryInv'
  BY <1>1, <1>2, <1>4, FrameRange DEF IInv, DirectoryInv, DirectoryOk
<1>9. FrameInv'
  BY DEF IInv, FrameInv
<1>10. TablesBeforeEntries'
  BY <1>5 DEF TablesBeforeEntries
<1>11. ExclusiveInv'
  BY <1>2, <1>5 DEF IInv, ExclusiveInv, Exclusive
<1>12. RangesInv'
  <2>1. BitmapIntact
    BY <1>5 DEF BitmapIntact, NewTables, TablesOf
  <2> QED
    BY <2>1 DEF IInv, RangesInv, LivePages
<1>13. BootInv'
  BY DEF BootInv
<1> QED
  BY <1>6, <1>7, <1>8, <1>9, <1>10, <1>11, <1>12, <1>13 DEF IInv

-----------------------------------------------------------------------------
(* The step of vma_alloc up to its loop.                                   *)

LEMMA FoundRange ==
  ASSUME NEW used \in SUBSET Page, NEW num \in Nat, NEW from \in Nat,
         from >= KernelFirstPage
  PROVE  LET start == bitmap_find_free_range(used, num, from, TotalPages)
         IN  \/ start = -1
             \/ /\ start \in Page /\ start >= KernelFirstPage
                /\ start + num <= TotalPages
                /\ Span(start, num) \intersect used = {}
<1> DEFINE S == FreeStarts(used, num, from, TotalPages)
<1>1. CASE S = {}
  BY <1>1 DEF bitmap_find_free_range
<1>2. CASE S # {}
  <2>1. S \in SUBSET Nat
    BY SpaceType DEF FreeStarts
  <2>2. Min(S) \in S
    BY <1>2, <2>1, MinOfNats
  <2>3. bitmap_find_free_range(used, num, from, TotalPages) = Min(S)
    BY <1>2 DEF bitmap_find_free_range
  <2>4. \A i \in S : /\ i \in Page /\ i >= KernelFirstPage /\ i + num <= TotalPages
                     /\ Span(i, num) \intersect used = {}
    BY SpaceType DEF FreeStarts, Page
  <2> QED
    BY <2>2, <2>3, <2>4
<1> QED
  BY <1>1, <1>2

LEMMA RequestType ==
  ASSUME NEW q \in Requests
  PROVE  LET from == IF q[2] = 0 THEN KernelFirstPage ELSE q[2] \div PageSize
         IN  /\ q[1] \in 0 .. AddrSpace - 1
             /\ NumPages(q[1]) \in Nat
             /\ from \in Nat /\ from >= KernelFirstPage
<1>1. q[1] \in 0 .. AddrSpace - 1 /\ q[2] \in Nat
  BY VmaInputsAssumption, SizesAssumption
<1>2. (q[1] + PageSize - 1) % AddrSpace \in Nat
  BY <1>1, SizesAssumption
<1>3. NumPages(q[1]) \in Nat
  BY <1>2, SizesAssumption, DivType DEF NumPages
<1>4. ASSUME q[2] >= KernelFirstPage * PageSize
      PROVE  q[2] \div PageSize >= KernelFirstPage /\ q[2] \div PageSize \in Nat
  BY <1>1, <1>4, SizesAssumption, SpaceType
<1>5. q[2] = 0 \/ q[2] >= KernelFirstPage * PageSize
  BY KernelLayoutAssumption, PagingAssumption
<1> QED
  BY <1>1, <1>3, <1>4, <1>5, SpaceType

\* A request is rejected, or finds a free range got and marks it used.
LEMMA VmaAllocEffect ==
  ASSUME IInv, NEW q \in Requests, vma_alloc(q[1], q[2])
  PROVE  /\ phase = "running" /\ call = Idle /\ RangeOf(call) = {} /\ call.op = "none"
         /\ UNCHANGED <<phase, boot_info, vm_bitmap, leftover, pmem, backing, frees>>
         /\ \/ ret' = 0 /\ UNCHANGED <<vm_used, call, live>>
            \/ \E got \in Call :
                 /\ InSpace(got) /\ got.page = 0 /\ got.op = "vma_alloc"
                 /\ RangeOf(got) \subseteq Page /\ RangeOf(got) \intersect vm_used = {}
                 /\ vm_used' = vm_used \union RangeOf(got)
                 /\ \/ /\ got.num = 0 /\ RangeOf(got) = {} /\ ret' = got.start * PageSize
                       /\ live' = live \union {got} /\ UNCHANGED call
                    \/ got.num > 0 /\ call' = got /\ UNCHANGED <<ret, live>>
<1> DEFINE bytes == q[1]
           num   == NumPages(bytes)
           from  == IF q[2] = 0 THEN KernelFirstPage ELSE q[2] \div PageSize
           start == bitmap_find_free_range(vm_used, num, from, TotalPages)
           got   == [op |-> "vma_alloc", start |-> start, num |-> num, page |-> 0,
                     bytes |-> bytes]
<1>1. /\ phase = "running" /\ call = Idle
      /\ UNCHANGED <<phase, boot_info, vm_bitmap, leftover, pmem, backing, frees>>
      /\ \/ ret' = 0 /\ UNCHANGED <<vm_used, call, live>>
         \/ /\ start # -1 /\ vm_used' = vm_used \union Span(start, num)
            /\ \/ /\ num = 0 /\ ret' = start * PageSize
                  /\ live' = live \union {got} /\ UNCHANGED call
               \/ num # 0 /\ call' = got /\ UNCHANGED <<ret, live>>
  BY DEF vma_alloc, bitmap_mark_range_used
<1>2. bytes \in 0 .. AddrSpace - 1 /\ num \in Nat /\ from \in Nat /\ from >= KernelFirstPage
  BY RequestType
<1>3. vm_used \in SUBSET Page
  BY DEF IInv, TypeOK
<1> HIDE DEF num, from, bytes
<1>4. start # -1 => /\ start \in Page /\ start >= KernelFirstPage
                    /\ start + num <= TotalPages
                    /\ Span(start, num) \intersect vm_used = {}
  BY <1>2, <1>3, FoundRange
<1> HIDE DEF start
<1>5. start # -1 => /\ got \in Call /\ InSpace(got) /\ got.page = 0 /\ got.num = num
                    /\ got.op = "vma_alloc" /\ RangeOf(got) = Span(start, num)
                    /\ Span(start, num) \subseteq Page /\ got.start = start
                    /\ (num = 0 => RangeOf(got) = {})
  BY <1>2, <1>4, SpaceType DEF Call, InSpace, RangeOf, Span, Page
<1>6. /\ RangeOf(call) = {} /\ call.op = "none"
  BY <1>1 DEF Idle, RangeOf, Span
<1> HIDE DEF got
<1>7. num # 0 => num > 0
  BY <1>2
<1> QED
  BY <1>1, <1>4, <1>5, <1>6, <1>7

LEMMA VmaAllocStep ==
  ASSUME IInv, NEW q \in Requests, vma_alloc(q[1], q[2])
  PROVE  IInv'
<1>1. /\ phase = "running" /\ call = Idle /\ RangeOf(call) = {} /\ call.op = "none"
      /\ UNCHANGED <<phase, boot_info, vm_bitmap, leftover, pmem, backing, frees>>
  BY VmaAllocEffect
<1>2. DirectoryInv' /\ FrameInv' /\ BootInv' /\ TablesBeforeEntries' /\ ExclusiveInv'
  BY <1>1 DEF IInv, DirectoryInv, FrameInv, BootInv, TablesBeforeEntries, ExclusiveInv
<1>3. CASE ret' = 0 /\ UNCHANGED <<vm_used, call, live>>
  <2>1. TypeOK' /\ CallInv'
    BY <1>1, <1>3, SizesAssumption DEF IInv, TypeOK, CallInv, InSpace
  <2>2. RangesInv'
    BY <1>1, <1>3 DEF IInv, RangesInv, BitmapIntact, NewTables, LivePages
  <2> QED
    BY <1>2, <2>1, <2>2 DEF IInv
<1>4. ASSUME NEW got \in Call,
             InSpace(got), got.page = 0, got.op = "vma_alloc",
             RangeOf(got) \subseteq Page, RangeOf(got) \intersect vm_used = {},
             vm_used' = vm_used \union RangeOf(got),
             \/ /\ got.num = 0 /\ RangeOf(got) = {} /\ ret' = got.start * PageSize
                /\ live' = live \union {got} /\ UNCHANGED call
             \/ got.num > 0 /\ call' = got /\ UNCHANGED <<ret, live>>
      PROVE  IInv'
  <2>1. got.start * PageSize \in 0 .. AddrSpace - 1
    BY AddressType DEF Call
  <2>2. TypeOK'
    BY <1>1, <1>4, <2>1 DEF IInv, TypeOK
  <2>3. CallInv'
    BY <1>1, <1>4 DEF IInv, CallInv, InSpace
  <2>4. RangesInv'
    <3>1. SUFFICES ASSUME BitmapIntact
                   PROVE  /\ vm_used' = leftover' \union RangeOf(call)' \union LivePages'
                          /\ RangeOf(call)' \intersect (leftover' \union LivePages') = {}
                          /\ LivePages' \intersect leftover' = {}
                          /\ \A c, d \in live' : c # d => RangeOf(c) \intersect RangeOf(d) = {}
      BY <1>1 DEF RangesInv, BitmapIntact, NewTables
    <3>2. /\ vm_used = leftover \union LivePages
          /\ LivePages \intersect leftover = {}
          /\ \A c, d \in live : c # d => RangeOf(c) \intersect RangeOf(d) = {}
      BY <1>1, <3>1 DEF IInv, RangesInv
    <3>3. CASE RangeOf(got) = {} /\ live' = live \union {got} /\ UNCHANGED call
      <4>1. LivePages' = LivePages
        BY <3>3 DEF LivePages
      <4> QED
        BY <1>1, <1>4, <3>2, <3>3, <4>1
    <3>4. CASE call' = got /\ UNCHANGED live
      <4>1. LivePages' = LivePages /\ RangeOf(call)' = RangeOf(got)
        BY <3>4 DEF LivePages
      <4> QED
        BY <1>1, <1>4, <3>2, <3>4, <4>1
    <3> QED
      BY <1>4, <3>3, <3>4
  <2> QED
    BY <1>2, <2>2, <2>3, <2>4 DEF IInv
<1> QED
  BY <1>3, <1>4, VmaAllocEffect

-----------------------------------------------------------------------------
(* The steps of vma_free.                                                  *)

\* The next iteration, if there is one, is of the same call and range.
LEMMA AdvanceKeeps ==
  ASSUME NEW c \in Call, InSpace(c), c.page < c.num, ~ IsLast(c)
  PROVE  /\ Advance(c) \in Call /\ InSpace(Advance(c))
         /\ Advance(c).page < Advance(c).num
         /\ Advance(c).op = c.op
         /\ RangeOf(Advance(c)) = RangeOf(c)
<1>1. /\ c.page \in Nat /\ c.num \in 0 .. TotalPages /\ TotalPages \in Nat
  BY SpaceType DEF Call
<1>2. c.page + 1 \in 0 .. TotalPages /\ c.page + 1 < c.num
  BY <1>1 DEF IsLast
<1>3. /\ Advance(c).op = c.op /\ Advance(c).start = c.start /\ Advance(c).num = c.num
      /\ Advance(c).page = c.page + 1
  BY DEF Advance, Call
<1>4. Advance(c) \in Call
  BY <1>2 DEF Advance, Call
<1> QED
  BY <1>2, <1>3, <1>4 DEF InSpace, RangeOf

LEMMA DoneKeeps ==
  ASSUME NEW c \in Call
  PROVE  LET d == [c EXCEPT !.page = 0]
         IN  /\ d \in Call /\ d.page = 0 /\ RangeOf(d) = RangeOf(c)
             /\ d.start = c.start /\ d.num = c.num
<1>1. 0 \in 0 .. TotalPages
  BY SpaceType
<1>2. [c EXCEPT !.page = 0] \in Call
  BY <1>1 DEF Call
<1> QED
  BY <1>2 DEF Call, RangeOf

\* The page of an iteration and the frame GET_PT leads it to.
LEMMA CallPage ==
  ASSUME IInv, phase = "running", call.op # "none"
  PROVE  LET table == Translate(pmem, GET_PT(CurrentPage \div N))
         IN  /\ CurrentPage \in Page
             /\ CurrentPage \in RangeOf(call)
             /\ CurrentPage \div N \in Index /\ CurrentPage % N \in Index
             /\ CurrentPage \div N \notin {PdFrame, PtFrame}
             /\ table \in {CurrentPage \div N, NotPresent}
<1>1. /\ call \in Call /\ InSpace(call) /\ call.page < call.num
  BY DEF IInv, TypeOK, CallInv
<1>2. /\ CurrentPage \in Page /\ CurrentPage >= KernelFirstPage
      /\ CurrentPage \in RangeOf(call)
  BY <1>1, SpaceType DEF Call, InSpace, CurrentPage, Page, RangeOf, Span
<1>3. CurrentPage \div N \in Index /\ CurrentPage % N \in Index
  BY <1>2, PageIndexes
<1>4. CurrentPage \div N >= KernelPde
  BY <1>2, KernelPdes
<1>5. CurrentPage \div N \notin {PdFrame, PtFrame}
  BY <1>3, <1>4, KernelLayoutAssumption, PagingAssumption DEF Index
<1>6. Translate(pmem, GET_PT(CurrentPage \div N)) = pmem[PtFrame][CurrentPage \div N]
  BY <1>3, RecursiveSlot DEF IInv, DirectoryInv
<1>7. pmem[PtFrame][CurrentPage \div N] \in {CurrentPage \div N, NotPresent}
  BY <1>3 DEF IInv, DirectoryInv, DirectoryOk
<1> QED
  BY <1>2, <1>3, <1>5, <1>6, <1>7

\* An entry written elsewhere leaves the directory and page_table alone.
WithEntry(pm, f, i, e) == [pm EXCEPT ![f][i] = e]

LEMMA EntryWrite ==
  ASSUME NEW pm \in Memory, NEW f \in Frame, f \notin {PdFrame, PtFrame},
         NEW i \in Index, NEW e \in Entry
  PROVE  LET q == WithEntry(pm, f, i, e)
         IN  q \in Memory /\ pd(q) = pd(pm) /\ q[PtFrame] = pm[PtFrame]
BY FrameRange DEF Memory, pd, WithEntry

LEMMA FreeFrame ==
  ASSUME NEW vb, FrameOk(vb), NEW f \in Frame, f # PdFrame
  PROVE  FrameOk(pfa_free(vb, f * PageSize))
<1>1. FrameOf(f * PageSize) = f
  BY FrameOfFrame DEF Frame
<1>2. pfa_free(vb, f * PageSize) \in {vb, [vb EXCEPT !.bits = @ \ {f}]}
  BY <1>1 DEF pfa_free, bitmap_clear
<1>3. LET u == [vb EXCEPT !.bits = @ \ {f}]
      IN  /\ u \in VmBitmap /\ u.max_phys_addr = vb.max_phys_addr
          /\ FreeBits(u) \subseteq FreeBits(vb) \union {f}
  BY DEF FrameOk, VmBitmap, FreeBits, ScannedBits, bitmap_test
<1> QED
  BY <1>2, <1>3 DEF FrameOk

LEMMA VmaFreeStep ==
  ASSUME IInv, NEW a \in live, vma_free(a)
  PROVE  IInv'
<1> USE DEF vma_free
<1>1. /\ a \in Call /\ InSpace(a) /\ a.page = 0 /\ a.num > 0
      /\ call = Idle /\ RangeOf(call) = {}
  BY DEF IInv, TypeOK, CallInv, Idle, RangeOf, Span
<1>2. /\ call' \in Call /\ call'.op = "vma_free" /\ call'.page = 0 /\ call'.num > 0
      /\ InSpace(call') /\ RangeOf(call') = RangeOf(a)
  BY <1>1 DEF Call, InSpace, RangeOf
<1>3. frees' > 0 /\ frees' \in 0 .. MaxFrees
  BY VmaInputsAssumption DEF IInv, TypeOK
<1>4. TypeOK'
  BY <1>2, <1>3 DEF IInv, TypeOK
<1>5. CallInv'
  BY <1>2, <1>3 DEF IInv, CallInv, InSpace
<1>6. DirectoryInv' /\ FrameInv' /\ BootInv' /\ TablesBeforeEntries' /\ ExclusiveInv'
  BY <1>3 DEF IInv, DirectoryInv, FrameInv, BootInv, TablesBeforeEntries, ExclusiveInv
<1>7. RangesInv'
  <2>1. LivePages = LivePages' \union RangeOf(a)
    BY DEF LivePages
  <2>2. SUFFICES ASSUME BitmapIntact
                 PROVE  /\ vm_used' = leftover' \union RangeOf(call)' \union LivePages'
                        /\ RangeOf(call)' \intersect (leftover' \union LivePages') = {}
                        /\ LivePages' \intersect leftover' = {}
                        /\ \A c, d \in live' : c # d => RangeOf(c) \intersect RangeOf(d) = {}
    BY DEF RangesInv, BitmapIntact, NewTables
  <2>3. /\ vm_used = leftover \union LivePages
        /\ LivePages \intersect leftover = {}
        /\ \A c, d \in live : c # d => RangeOf(c) \intersect RangeOf(d) = {}
    BY <1>1, <2>2 DEF IInv, RangesInv
  <2>4. RangeOf(a) \intersect LivePages' = {}
    BY <2>3 DEF LivePages
  <2> QED
    BY <1>2, <2>1, <2>3, <2>4
<1> QED
  BY <1>4, <1>5, <1>6, <1>7 DEF IInv

LEMMA VmaFreePageStep ==
  ASSUME IInv, vma_free_page
  PROVE  IInv'
<1> DEFINE v     == CurrentPage
           pde   == v \div N
           table == Translate(pmem, GET_PT(pde))
           entry == v % N
<1>1. /\ phase = "running" /\ call.op = "vma_free"
      /\ UNCHANGED <<boot_info, leftover, ret, live, frees>>
      /\ \/ phase' = "halted" /\ UNCHANGED <<vm_bitmap, vm_used, pmem, call, backing>>
         \/ /\ \/ UNCHANGED <<phase, vm_bitmap, pmem>>
               \/ /\ pd(pmem)[pde] # NotPresent /\ table # NotPresent
                  /\ pmem' = [pmem EXCEPT ![table][entry] = NotPresent]
                  /\ vm_bitmap' = pfa_free(vm_bitmap, pd(pmem)[pde] * PageSize)
                  /\ phase' \in {"running", "halted"}
            /\ backing' = {b \in backing : b[1] # v}
            /\ vm_used' = IF IsLast(call) THEN vm_used \ RangeOf(call) ELSE vm_used
            /\ call' = IF IsLast(call) THEN Idle ELSE Advance(call)
  BY DEF vma_free_page, bitmap_mark_range_free, RangeOf
<1>2. /\ v \in Page /\ pde \in Index /\ entry \in Index
      /\ pde \notin {PdFrame, PtFrame}
      /\ table \in {pde, NotPresent}
  BY <1>1, CallPage
<1>3. frees > 0 /\ call \in Call /\ call.page < call.num /\ InSpace(call)
  BY <1>1 DEF IInv, CallInv, TypeOK
<1>4. pmem \in Memory /\ pd(pmem)[pde] \in Entry /\ pd(pmem)[pde] # PdFrame
  <2>1. pmem \in Memory /\ \A i \in Index : pd(pmem)[i] # PdFrame
    BY DEF IInv, TypeOK, Memory, DirectoryInv, DirectoryOk
  <2>2. pd(pmem) \in [Index -> Entry]
    BY <2>1, FrameRange DEF Memory, pd
  <2> QED
    BY <1>2, <2>1, <2>2
<1> HIDE DEF table, pde, entry, v
<1>5. /\ pmem' \in Memory /\ pd(pmem') = pd(pmem) /\ pmem'[PtFrame] = pmem[PtFrame]
      /\ FrameOk(vm_bitmap') /\ phase' \in {"running", "halted"}
  <2>1. CASE UNCHANGED <<vm_bitmap, pmem>>
    BY <1>1, <1>4, <2>1 DEF IInv, FrameInv
  <2>2. CASE /\ pd(pmem)[pde] # NotPresent /\ table # NotPresent
             /\ pmem' = [pmem EXCEPT ![table][entry] = NotPresent]
             /\ vm_bitmap' = pfa_free(vm_bitmap, pd(pmem)[pde] * PageSize)
    <3>1. table \in Frame /\ table \notin {PdFrame, PtFrame} /\ NotPresent \in Entry
      BY <1>2, <2>2, FrameRange DEF Entry
    <3>2. pmem' \in Memory /\ pd(pmem') = pd(pmem) /\ pmem'[PtFrame] = pmem[PtFrame]
      <4>1. pmem' = WithEntry(pmem, table, entry, NotPresent)
        BY <2>2 DEF WithEntry
      <4> QED
        BY <1>2, <1>4, <3>1, <4>1, EntryWrite
    <3>3. pd(pmem)[pde] \in Frame /\ FrameOk(vm_bitmap)
      BY <1>4, <2>2 DEF Entry, IInv, FrameInv
    <3>4. FrameOk(vm_bitmap')
      BY <1>4, <2>2, <3>3, FreeFrame
    <3> QED
      BY <1>1, <3>2, <3>4
  <2> QED
    BY <1>1, <2>1, <2>2
<1>6. /\ backing' \subseteq backing /\ vm_used' \subseteq vm_used
      /\ call' \in {call, Idle, Advance(call)} /\ (call' = Advance(call) => ~ IsLast(call))
  <2>1. backing' \subseteq backing
    BY <1>1
  <2>2. vm_used' \subseteq vm_used
    BY <1>1
  <2>3. call' \in {call, Idle} \/ (call' = Advance(call) /\ ~ IsLast(call))
    BY <1>1
  <2>4. Advance(call) # call
    BY <1>3 DEF Advance, Call
  <2>5. Idle # Advance(call)
    BY <1>1, <1>3 DEF Advance, Call, Idle
  <2> QED
    BY <2>1, <2>2, <2>3, <2>4, <2>5
<1>7. ~ IsLast(call) => /\ Advance(call) \in Call /\ InSpace(Advance(call))
                        /\ Advance(call).page < Advance(call).num
                        /\ Advance(call).op = call.op
                        /\ RangeOf(Advance(call)) = RangeOf(call)
  BY <1>3, AdvanceKeeps
<1>8. Idle \in Call /\ Idle.op = "none" /\ RangeOf(Idle) = {}
  BY SpaceType, SizesAssumption DEF Idle, Call, Page, RangeOf, Span
<1>9. TypeOK'
  <2>1. call' \in Call
    BY <1>3, <1>6, <1>7, <1>8
  <2> QED
    BY <1>1, <1>5, <1>6, <2>1 DEF IInv, TypeOK, Memory, FrameOk
<1>10. CallInv'
  BY <1>1, <1>3, <1>6, <1>7, <1>8 DEF IInv, CallInv, InSpace
<1>11. DirectoryInv' /\ FrameInv' /\ BootInv'
  BY <1>1, <1>5 DEF IInv, DirectoryInv, FrameInv, BootInv
<1>12. TablesBeforeEntries'
  BY <1>5, <1>6 DEF IInv, TablesBeforeEntries
<1>13. ExclusiveInv'
  BY <1>1, <1>3 DEF ExclusiveInv
<1>14. RangesInv'
  <2>1. SUFFICES ASSUME BitmapIntact
                 PROVE  /\ vm_used' = leftover' \union RangeOf(call)' \union LivePages'
                        /\ RangeOf(call)' \intersect (leftover' \union LivePages') = {}
                        /\ LivePages' \intersect leftover' = {}
                        /\ \A c, d \in live' : c # d => RangeOf(c) \intersect RangeOf(d) = {}
    BY <1>5 DEF RangesInv, BitmapIntact, NewTables
  <2>2. /\ vm_used = leftover \union RangeOf(call) \union LivePages
        /\ RangeOf(call) \intersect (leftover \union LivePages) = {}
        /\ LivePages \intersect leftover = {}
        /\ \A c, d \in live : c # d => RangeOf(c) \intersect RangeOf(d) = {}
    BY <2>1 DEF IInv, RangesInv
  <2>3. LivePages' = LivePages
    BY <1>1 DEF LivePages
  <2>4. \/ vm_used' = vm_used /\ RangeOf(call)' = RangeOf(call)
        \/ vm_used' = vm_used \ RangeOf(call) /\ RangeOf(call)' = {}
    BY <1>1, <1>7, <1>8
  <2> QED
    BY <1>1, <2>2, <2>3, <2>4
<1> QED
  BY <1>9, <1>10, <1>11, <1>12, <1>13, <1>14 DEF IInv

-----------------------------------------------------------------------------
(* The step of the loop of vma_alloc.                                      *)

\* Rolling back, and taking frames that are never used.
LEMMA ExclusiveFewer ==
  ASSUME NEW dir, NEW low, NEW vb, NEW pairs, Exclusive(dir, low, vb, pairs),
         NEW w, FreeBits(w) \subseteq FreeBits(vb), NEW less \in SUBSET pairs
  PROVE  Exclusive(dir, low, w, less)
<1>1. FramesOf(less) \subseteq FramesOf(pairs)
  BY DEF FramesOf
<1> QED
  BY <1>1 DEF Exclusive

\* A free frame is given to a page.
LEMMA ExclusivePage ==
  ASSUME NEW dir, NEW low, NEW vb, NEW pairs, Exclusive(dir, low, vb, pairs),
         NEW w, FreeBits(w) \subseteq FreeBits(vb),
         NEW v, NEW f, f # 0, f \in FreeBits(vb) \ FreeBits(w)
  PROVE  Exclusive(dir, low, w, pairs \union {<<v, f>>})
<1>1. FramesOf(pairs \union {<<v, f>>}) = FramesOf(pairs) \union {f}
  <2>1. <<v, f>>[2] = f
    OBVIOUS
  <2> QED
    BY <2>1, Zenon DEF FramesOf
<1>2. f \notin TablesOf(dir) \union FramesOf(pairs) \union KernelFrames
  BY DEF Exclusive
<1>3. \A a \in pairs : a[2] # f
  BY <1>2 DEF FramesOf
<1>4. \A a, b \in pairs \union {<<v, f>>} : a[2] = b[2] => a = b
  <2>1. <<v, f>>[2] = f
    OBVIOUS
  <2>2. \A a, b \in pairs : a[2] = b[2] => a = b
    BY DEF Exclusive
  <2> QED
    BY <1>3, <2>1, <2>2, Zenon
<1> QED
  BY <1>1, <1>2, <1>4 DEF Exclusive

\* A free frame becomes a page table.
Linked(dir, pde, f) == [dir EXCEPT ![pde] = f]

LEMMA ExclusiveTable ==
  ASSUME NEW dir \in [Index -> Entry], NEW low, NEW vb, NEW pairs,
         Exclusive(dir, low, vb, pairs),
         NEW w, FreeBits(w) \subseteq FreeBits(vb),
         NEW pde \in Index, dir[pde] = NotPresent,
         NEW f \in Frame, f # 0, f \in FreeBits(vb) \ FreeBits(w),
         NEW low2, \A i \in 0 .. N - 2 : low2[i] = low[i]
  PROVE  Exclusive(Linked(dir, pde, f), low2, w, pairs)
<1> DEFINE d == Linked(dir, pde, f)
<1>1. \A i \in Index : d[i] = IF i = pde THEN f ELSE dir[i]
  BY DEF Linked
<1>2. f \notin TablesOf(dir) \union FramesOf(pairs) \union KernelFrames
  BY DEF Exclusive
<1>3. f # PtFrame /\ f # NotPresent
  BY <1>2, KernelLayoutAssumption, FrameRange
<1> HIDE DEF d
<1>4. TablesOf(d) = TablesOf(dir) \union {f}
  BY <1>1, <1>3 DEF TablesOf
<1>5. \A i, j \in Index : d[i] \in TablesOf(d) /\ d[i] = d[j] => i = j
  <2> TAKE i, j \in Index
  <2>1. CASE i = pde \/ j = pde
    <3>1. \A k \in Index : dir[k] # f
      BY <1>2, <1>3 DEF TablesOf
    <3> QED
      BY <1>1, <2>1, <3>1
  <2>2. CASE i # pde /\ j # pde
    <3>1. d[i] = dir[i] /\ d[j] = dir[j]
      BY <1>1, <2>2
    <3>2. d[i] \in TablesOf(d) => dir[i] \in TablesOf(dir)
      BY <3>1 DEF TablesOf
    <3> QED
      BY <3>1, <3>2 DEF Exclusive
  <2> QED
    BY <2>1, <2>2
<1>6. Exclusive(d, low2, w, pairs)
  BY <1>2, <1>4, <1>5 DEF Exclusive
<1> QED
  BY <1>6 DEF d

\* The bits of kernel_vm_bitmap lie below page_table.
LEMMA PtFrameBits == BitmapFrame(PtFrame) \intersect Page = {}
<1>1. PtFrame * PageBits \in Nat
  BY TimesType, SpaceType, PagingAssumption
<1> QED
  BY <1>1, SpaceType, KernelLayoutAssumption DEF BitmapFrame, Span, Page

\* Seeing to a page table keeps what the invariant says, for the state in between.
LEMMA TableKeeps ==
  ASSUME IInv, phase = "running", NEW pde \in Index
  PROVE  LET m == WithTable(pde)
         IN  /\ m.pmem \in Memory /\ FrameOk(m.vm_bitmap) /\ m.vm_used \subseteq vm_used
             /\ DirectoryOk(pd(m.pmem), m.pmem[PtFrame])
             /\ pd(m.pmem)[RecursivePde] = PtFrame
             /\ \A i \in Index :
                  pd(pmem)[i] # NotPresent => pd(m.pmem)[i] = pd(pmem)[i]
             /\ pd(m.pmem)[pde] # NotPresent \/ AllocatableFrames(m.vm_bitmap) = {}
             /\ frees = 0 =>
                  Exclusive(pd(m.pmem), m.pmem[PtFrame], m.vm_bitmap, backing)
             /\ TablesOf(pd(pmem)) \subseteq TablesOf(pd(m.pmem))
             /\ \/ m.vm_used = vm_used
                \/ \E f \in TablesOf(pd(m.pmem)) : BitmapFrame(f) \intersect Page # {}
<1> DEFINE m == WithTable(pde)
<1>1. /\ FrameOk(m.vm_bitmap) /\ FreeBits(m.vm_bitmap) \subseteq FreeBits(vm_bitmap)
      /\ m.pmem \in Memory
      /\ \/ /\ m.pmem = pmem /\ m.vm_used = vm_used
            /\ pd(pmem)[pde] # NotPresent \/ AllocatableFrames(m.vm_bitmap) = {}
         \/ /\ pd(pmem)[pde] = NotPresent
            /\ \E f \in Frame \ {0, PdFrame} :
                 /\ f \in FreeBits(vm_bitmap) \ FreeBits(m.vm_bitmap)
                 /\ m.vm_used = vm_used \ BitmapFrame(f)
                 /\ pd(m.pmem) = [pd(pmem) EXCEPT ![pde] = f]
                 /\ \A i \in Index : m.pmem[PtFrame][i] \in {pmem[PtFrame][i], NotPresent}
                 /\ f # PtFrame =>
                      \A i \in 0 .. N - 2 : m.pmem[PtFrame][i] = pmem[PtFrame][i]
  BY TableEffect DEF IInv
<1> HIDE DEF m
<1>2. /\ DirectoryOk(pd(pmem), pmem[PtFrame]) /\ pd(pmem)[RecursivePde] = PtFrame
      /\ vm_used \subseteq Page /\ pd(pmem) \in [Index -> Entry]
      /\ frees = 0 => Exclusive(pd(pmem), pmem[PtFrame], vm_bitmap, backing)
  BY FrameRange DEF IInv, DirectoryInv, TypeOK, ExclusiveInv, pd
<1>3. CASE /\ m.pmem = pmem /\ m.vm_used = vm_used
           /\ pd(pmem)[pde] # NotPresent \/ AllocatableFrames(m.vm_bitmap) = {}
  BY <1>1, <1>2, <1>3, ExclusiveFewer DEF m
<1>4. ASSUME NEW f \in Frame \ {0, PdFrame}, pd(pmem)[pde] = NotPresent,
             f \in FreeBits(vm_bitmap) \ FreeBits(m.vm_bitmap),
             m.vm_used = vm_used \ BitmapFrame(f),
             pd(m.pmem) = [pd(pmem) EXCEPT ![pde] = f],
             \A i \in Index : m.pmem[PtFrame][i] \in {pmem[PtFrame][i], NotPresent},
             f # PtFrame => \A i \in 0 .. N - 2 : m.pmem[PtFrame][i] = pmem[PtFrame][i]
      PROVE  /\ DirectoryOk(pd(m.pmem), m.pmem[PtFrame])
             /\ pd(m.pmem)[RecursivePde] = PtFrame
             /\ \A i \in Index :
                  pd(pmem)[i] # NotPresent => pd(m.pmem)[i] = pd(pmem)[i]
             /\ pd(m.pmem)[pde] # NotPresent
             /\ frees = 0 =>
                  Exclusive(pd(m.pmem), m.pmem[PtFrame], m.vm_bitmap, backing)
             /\ TablesOf(pd(pmem)) \subseteq TablesOf(pd(m.pmem))
             /\ \/ m.vm_used = vm_used
                \/ \E g \in TablesOf(pd(m.pmem)) : BitmapFrame(g) \intersect Page # {}
  <2>1. \A i \in Index : pd(m.pmem)[i] = IF i = pde THEN f ELSE pd(pmem)[i]
    BY <1>2, <1>4
  <2>2. PtFrame # NotPresent /\ f # NotPresent
    BY FrameRange
  <2>3. DirectoryOk(pd(m.pmem), m.pmem[PtFrame]) /\ pd(m.pmem)[RecursivePde] = PtFrame
    BY <1>2, <1>4, <2>1, <2>2, FrameRange DEF DirectoryOk
  <2>4. TablesOf(pd(pmem)) \subseteq TablesOf(pd(m.pmem))
    BY <1>4, <2>1 DEF TablesOf
  <2>5. CASE f = PtFrame
    <3>1. frees # 0
      BY <1>2, <1>4, <2>5, KernelLayoutAssumption DEF Exclusive
    <3>2. m.vm_used = vm_used
      BY <1>2, <1>4, <2>5, PtFrameBits
    <3> QED
      BY <1>4, <2>1, <2>2, <2>3, <2>4, <3>1, <3>2
  <2>6. CASE f # PtFrame
    <3>1. f \in TablesOf(pd(m.pmem))
      BY <2>1, <2>2, <2>6 DEF TablesOf
    <3>2. frees = 0 => Exclusive(pd(m.pmem), m.pmem[PtFrame], m.vm_bitmap, backing)
      <4>1. pd(m.pmem) = Linked(pd(pmem), pde, f)
        BY <1>4 DEF Linked
      <4>2. f \in Frame /\ f # 0
        OBVIOUS
      <4> QED
        BY <1>1, <1>2, <1>4, <2>6, <4>1, <4>2, ExclusiveTable
    <3>3. BitmapFrame(f) \intersect Page # {} \/ m.vm_used = vm_used
      BY <1>2, <1>4
    <3> QED
      BY <1>4, <2>1, <2>2, <2>3, <2>4, <3>1, <3>2, <3>3
  <2> QED
    BY <2>5, <2>6
<1>5. m.vm_used \subseteq vm_used
  BY <1>1
<1> QED
  BY <1>1, <1>3, <1>4, <1>5 DEF m

\* What an iteration does to the ranges while no page table lies on the bitmap: the
\* whole range is given back, the loop goes on or stops in it, or it is a client's.
PageEffect ==
  \/ /\ vm_used' = vm_used \ RangeOf(call)
     /\ ret' = 0 /\ RangeOf(call') = {} /\ live' = live
  \/ /\ vm_used' = vm_used /\ RangeOf(call') = RangeOf(call)
     /\ UNCHANGED <<ret, live>>
  \/ /\ vm_used' = vm_used
     /\ ret' = call.start * PageSize /\ RangeOf(call') = {}
     /\ live' = live \union {[call EXCEPT !.page = 0]}

LEMMA VmaAllocPageStep ==
  ASSUME IInv, vma_alloc_page
  PROVE  IInv' /\ (BitmapIntact' => BitmapIntact /\ PageEffect)
<1> DEFINE v     == CurrentPage
           pde   == v \div N
           entry == v % N
           m     == WithTable(pde)
           r     == pfa_alloc(m.vm_bitmap)
           frame == FrameOf(r.addr)
           table == Translate(m.pmem, GET_PT(pde))
           rolledback ==
             /\ r.addr = 0
             /\ vm_bitmap' = r.vb
             /\ vm_used' = m.vm_used \ RangeOf(call)
             /\ backing' \subseteq backing
             /\ pmem' = m.pmem /\ ret' = 0 /\ call' = Idle /\ UNCHANGED <<phase, live>>
           mapped ==
             /\ r.addr # 0 /\ table # NotPresent
             /\ vm_bitmap' = r.vb
             /\ vm_used' = m.vm_used
             /\ backing' = backing \union {<<v, frame>>}
             /\ pmem' = [m.pmem EXCEPT ![table][entry] = frame]
             /\ phase' \in {"running", "halted"}
             /\ \/ /\ call' = Idle /\ ret' = call.start * PageSize
                   /\ live' = live \union {[call EXCEPT !.page = 0]}
                \/ /\ ~ IsLast(call)
                   /\ call' = Advance(call) /\ UNCHANGED <<ret, live>>
           faulted ==
             /\ vm_bitmap' \in {r.vb, m.vm_bitmap}
             /\ vm_used' = m.vm_used /\ pmem' = m.pmem /\ phase' = "halted"
             /\ UNCHANGED <<call, ret, live, backing>>
<1>1. /\ phase = "running" /\ call.op = "vma_alloc"
      /\ UNCHANGED <<boot_info, leftover, frees>>
      /\ rolledback \/ mapped \/ faulted
  BY DEF vma_alloc_page, bitmap_mark_range_free, RangeOf
<1>2. /\ v \in Page /\ pde \in Index /\ entry \in Index
      /\ pde \notin {PdFrame, PtFrame}
  BY <1>1, CallPage
<1>3. /\ call \in Call /\ call.page < call.num /\ InSpace(call)
      /\ call.start * PageSize \in 0 .. AddrSpace - 1
  BY <1>1, AddressType DEF IInv, CallInv, TypeOK, Call
<1>4. /\ m.pmem \in Memory /\ FrameOk(m.vm_bitmap) /\ m.vm_used \subseteq vm_used
      /\ DirectoryOk(pd(m.pmem), m.pmem[PtFrame])
      /\ pd(m.pmem)[RecursivePde] = PtFrame
      /\ \A i \in Index : pd(pmem)[i] # NotPresent => pd(m.pmem)[i] = pd(pmem)[i]
      /\ pd(m.pmem)[pde] # NotPresent \/ AllocatableFrames(m.vm_bitmap) = {}
      /\ frees = 0 => Exclusive(pd(m.pmem), m.pmem[PtFrame], m.vm_bitmap, backing)
      /\ TablesOf(pd(pmem)) \subseteq TablesOf(pd(m.pmem))
      /\ \/ m.vm_used = vm_used
         \/ \E f \in TablesOf(pd(m.pmem)) : BitmapFrame(f) \intersect Page # {}
  BY <1>1, <1>2, TableKeeps
<1>5. /\ FrameOk(r.vb) /\ FreeBits(r.vb) \subseteq FreeBits(m.vm_bitmap)
      /\ r.addr # 0 => /\ AllocatableFrames(m.vm_bitmap) # {}
                       /\ frame \in Frame /\ frame # 0
                       /\ frame \in FreeBits(m.vm_bitmap) \ FreeBits(r.vb)
  BY <1>4, AllocFrame
<1>6. table \in {pde, NotPresent}
  <2>1. table = m.pmem[PtFrame][pde]
    BY <1>2, <1>4, RecursiveSlot
  <2> QED
    BY <1>2, <1>4, <2>1 DEF DirectoryOk
<1> HIDE DEF m, r, table, pde, entry, v, frame
<1>7. mapped => /\ pmem' \in Memory /\ pd(pmem') = pd(m.pmem)
                /\ pmem'[PtFrame] = m.pmem[PtFrame]
  <2>1. mapped => /\ pmem' = WithEntry(m.pmem, table, entry, frame)
                  /\ table \in Frame /\ table \notin {PdFrame, PtFrame}
                  /\ frame \in Entry
    BY <1>2, <1>5, <1>6, FrameRange DEF WithEntry, Entry
  <2> QED
    BY <1>2, <1>4, <2>1, EntryWrite
<1>8. /\ pmem' \in Memory /\ pd(pmem') = pd(m.pmem) /\ pmem'[PtFrame] = m.pmem[PtFrame]
      /\ FrameOk(vm_bitmap') /\ FreeBits(vm_bitmap') \subseteq FreeBits(m.vm_bitmap)
      /\ phase' \in {"running", "halted"}
  <2>1. CASE rolledback
    BY <1>1, <1>4, <1>5, <2>1
  <2>2. CASE mapped
    BY <1>5, <1>7, <2>2
  <2>3. CASE faulted
    BY <1>4, <1>5, <2>3
  <2> QED
    BY <1>1, <2>1, <2>2, <2>3
<1>9. /\ Idle \in Call /\ Idle.op = "none" /\ RangeOf(Idle) = {}
      /\ 0 \in 0 .. AddrSpace - 1
  BY SpaceType, SizesAssumption DEF Idle, Call, Page, RangeOf, Span
<1>10. ~ IsLast(call) => /\ Advance(call) \in Call /\ InSpace(Advance(call))
                         /\ Advance(call).page < Advance(call).num
                         /\ Advance(call).op = call.op
                         /\ RangeOf(Advance(call)) = RangeOf(call)
  BY <1>3, AdvanceKeeps
<1> DEFINE done == [call EXCEPT !.page = 0]
<1>11. /\ done \in Call /\ InSpace(done) /\ done.page = 0 /\ RangeOf(done) = RangeOf(call)
  BY <1>3, DoneKeeps DEF InSpace
<1> HIDE DEF done
<1>12. TypeOK'
  <2>1. vm_used' \subseteq Page /\ vm_bitmap' \in VmBitmap
    BY <1>1, <1>4, <1>8 DEF IInv, TypeOK, FrameOk
  <2>2. backing' \in SUBSET (Page \X Frame)
    BY <1>1, <1>2, <1>5 DEF IInv, TypeOK
  <2>3. /\ call' \in Call /\ ret' \in 0 .. AddrSpace - 1 /\ live' \in SUBSET Call
    BY <1>1, <1>3, <1>9, <1>10, <1>11 DEF IInv, TypeOK, done
  <2> QED
    BY <1>1, <1>8, <2>1, <2>2, <2>3 DEF IInv, TypeOK, Memory
<1>13. CallInv'
  <2>1. live' = live \/ live' = live \union {done}
    BY <1>1 DEF done
  <2>2. \A c \in live' : InSpace(c) /\ c.page = 0
    BY <1>11, <2>1 DEF IInv, CallInv
  <2>3. call' \in {call, Idle} \/ (~ IsLast(call) /\ call' = Advance(call))
    BY <1>1
  <2> QED
    BY <1>1, <1>3, <1>9, <1>10, <2>2, <2>3 DEF CallInv, InSpace
<1>14. DirectoryInv' /\ FrameInv' /\ BootInv'
  BY <1>4, <1>8 DEF DirectoryInv, FrameInv, BootInv
<1>15. TablesBeforeEntries'
  <2>1. \A b \in backing : pd(m.pmem)[b[1] \div N] # NotPresent
    BY <1>4, PageIndexes DEF IInv, TypeOK, TablesBeforeEntries
  <2>2. mapped => pd(m.pmem)[pde] # NotPresent
    BY <1>4, <1>5
  <2>3. backing' \subseteq backing \/ mapped
    BY <1>1
  <2>4. \A b \in backing' : pd(m.pmem)[b[1] \div N] # NotPresent
    BY <2>1, <2>2, <2>3 DEF pde
  <2> QED
    BY <1>8, <2>4 DEF TablesBeforeEntries
<1>16. ExclusiveInv'
  <2>1. SUFFICES ASSUME frees = 0
                 PROVE  Exclusive(pd(m.pmem), m.pmem[PtFrame], vm_bitmap', backing')
    BY <1>1, <1>8 DEF ExclusiveInv
  <2>2. Exclusive(pd(m.pmem), m.pmem[PtFrame], m.vm_bitmap, backing)
    BY <1>4, <2>1
  <2>3. CASE backing' \subseteq backing
    BY <1>8, <2>2, <2>3, ExclusiveFewer
  <2>4. CASE mapped
    BY <1>5, <2>2, <2>4, ExclusivePage
  <2> QED
    BY <1>1, <2>3, <2>4
<1>17. BitmapIntact' => BitmapIntact /\ PageEffect
  <2>1. SUFFICES ASSUME \A f \in TablesOf(pd(m.pmem)) : BitmapFrame(f) \intersect Page = {}
                 PROVE  BitmapIntact /\ PageEffect
    BY <1>8 DEF BitmapIntact, NewTables, TablesOf
  <2>2. m.vm_used = vm_used
    BY <1>4, <2>1
  <2>3. BitmapIntact
    BY <1>4, <2>1 DEF BitmapIntact, NewTables, TablesOf
  <2>4. CASE rolledback
    BY <1>9, <2>2, <2>3, <2>4 DEF PageEffect
  <2>5. CASE mapped
    BY <1>9, <1>10, <2>2, <2>3, <2>5 DEF PageEffect
  <2>6. CASE faulted
    BY <2>2, <2>3, <2>6 DEF PageEffect
  <2> QED
    BY <1>1, <2>4, <2>5, <2>6
<1>18. RangesInv'
  <2>1. SUFFICES ASSUME BitmapIntact'
                 PROVE  /\ vm_used' = leftover' \union RangeOf(call)' \union LivePages'
                        /\ RangeOf(call)' \intersect (leftover' \union LivePages') = {}
                        /\ LivePages' \intersect leftover' = {}
                        /\ \A c, d \in live' : c # d => RangeOf(c) \intersect RangeOf(d) = {}
    BY DEF RangesInv
  <2>2. BitmapIntact /\ PageEffect
    BY <1>17, <2>1
  <2>3. /\ vm_used = leftover \union RangeOf(call) \union LivePages
        /\ RangeOf(call) \intersect (leftover \union LivePages) = {}
        /\ LivePages \intersect leftover = {}
        /\ \A c, d \in live : c # d => RangeOf(c) \intersect RangeOf(d) = {}
    BY <2>2 DEF IInv, RangesInv
  <2>4. CASE live' = live
    <3>1. LivePages' = LivePages
      BY <2>4 DEF LivePages
    <3>2. \/ vm_used' = vm_used \ RangeOf(call) /\ RangeOf(call') = {}
          \/ vm_used' = vm_used /\ RangeOf(call') = RangeOf(call)
          \/ live' = live \union {done} /\ vm_used' = vm_used /\ RangeOf(call') = {}
      BY <2>2 DEF PageEffect, done
    <3>3. live' = live \union {done} => RangeOf(call) \subseteq LivePages
      BY <1>11, <2>4 DEF LivePages
    <3> QED
      BY <1>1, <2>3, <2>4, <3>1, <3>2, <3>3
  <2>5. CASE vm_used' = vm_used /\ RangeOf(call') = {} /\ live' = live \union {done}
    <3>1. LivePages' = LivePages \union RangeOf(call)
      BY <1>11, <2>5 DEF LivePages
    <3>2. \A c \in live : RangeOf(c) \intersect RangeOf(done) = {}
      BY <1>11, <2>3 DEF LivePages
    <3> QED
      BY <1>1, <2>3, <2>5, <3>1, <3>2
  <2> QED
    BY <2>2, <2>4, <2>5 DEF PageEffect, done
<1> QED
  BY <1>12, <1>13, <1>14, <1>15, <1>16, <1>17, <1>18 DEF IInv

-----------------------------------------------------------------------------
(* The theorems.                                                           *)

LEMMA NextIInv == IInv /\ [Next]_vars => IInv'
<1> SUFFICES ASSUME IInv, [Next]_vars
             PROVE  IInv'
  OBVIOUS
<1>1. CASE InitPfa
  BY <1>1, InitPfaStep
<1>2. CASE setup_recursive_pd
  BY <1>2, SetupStep
<1>3. ASSUME NEW q \in Requests, vma_alloc(q[1], q[2])
      PROVE  IInv'
  BY <1>3, VmaAllocStep
<1>4. CASE vma_alloc_page
  BY <1>4, VmaAllocPageStep
<1>5. ASSUME NEW a \in live, vma_free(a)
      PROVE  IInv'
  BY <1>5, VmaFreeStep
<1>6. CASE vma_free_page
  BY <1>6, VmaFreePageStep
<1>7. CASE UNCHANGED vars
  BY <1>7 DEF vars, IInv, TypeOK, CallInv, InSpace, DirectoryInv, FrameInv, BootInv,
              TablesBeforeEntries, ExclusiveInv, RangesInv, BitmapIntact, NewTables,
              LivePages
<1> QED
  BY <1>1, <1>2, <1>3, <1>4, <1>5, <1>6, <1>7 DEF Next

LEMMA SpecIInv == Spec => []IInv
BY InitIInv, NextIInv, PTL DEF Spec

\* The allocator's state stays within its types: in particular every page the calls
\* touch and every address vma_alloc returns lies inside the address space, and every
\* frame entered in a table is one of the machine's memory.
THEOREM VmaTypeCorrect == Spec => []TypeOK
<1>1. IInv => TypeOK
  BY DEF IInv
<1> QED
  BY <1>1, SpecIInv, PTL

\* No page is given a frame while its directory entry is not present, although
\* vma_alloc goes on when alloc_new_pt could not make a table (vma.h:44-52).
THEOREM TablesFirst == Spec => []TablesBeforeEntries
<1>1. IInv => TablesBeforeEntries
  BY DEF IInv
<1> QED
  BY <1>1, SpecIInv, PTL

\* As long as no page table was placed on kernel_vm_bitmap, its set bits are those
\* found at boot and the disjoint ranges of the allocations, rollback and free included.
THEOREM RangesExact == Spec => []RangesReserved
<1>1. IInv => RangesReserved
  <2>1. SUFFICES ASSUME IInv, BitmapIntact
                 PROVE  LET ranges == {RangeOf(c) : c \in live \union {call}} \ {{}}
                        IN  /\ vm_used = leftover \union UNION ranges
                            /\ \A s \in ranges : s \intersect leftover = {}
                            /\ \A c, d \in live \union {call} :
                                 c # d => RangeOf(c) \intersect RangeOf(d) = {}
    BY DEF RangesReserved
  <2> DEFINE ranges == {RangeOf(c) : c \in live \union {call}} \ {{}}
  <2>2. /\ vm_used = leftover \union RangeOf(call) \union LivePages
        /\ RangeOf(call) \intersect (leftover \union LivePages) = {}
        /\ LivePages \intersect leftover = {}
        /\ \A c, d \in live : c # d => RangeOf(c) \intersect RangeOf(d) = {}
    BY <2>1 DEF IInv, RangesInv
  <2>3. \A c \in live : RangeOf(c) \subseteq LivePages
    BY DEF LivePages
  <2>4. UNION ranges = RangeOf(call) \union LivePages
    BY DEF LivePages
  <2>5. \A s \in ranges : s \intersect leftover = {}
    BY <2>2, <2>3
  <2>6. \A c, d \in live \union {call} : c # d => RangeOf(c) \intersect RangeOf(d) = {}
    BY <2>2, <2>3
  <2> QED
    BY <2>2, <2>4, <2>5, <2>6
<1> QED
  BY <1>1, SpecIInv, PTL

\* Until the first vma_free every frame in use has one use and is marked used.
THEOREM FramesStayExclusive == Spec => []FramesExclusive
<1>1. IInv => FramesExclusive
  <2>1. NewTables = TablesOf(pd(pmem)) /\ FramesOf(backing) = {b[2] : b \in backing}
    BY DEF NewTables, TablesOf, FramesOf
  <2> QED
    BY <2>1 DEF IInv, ExclusiveInv, Exclusive, FramesExclusive, FramesOf
<1> QED
  BY <1>1, SpecIInv, PTL

\* Until the first vma_free no call disturbs the two mappings of low memory that the
\* kernel runs on, whatever entries it writes through the recursive slot.
THEOREM KernelMappingSurvives == Spec => []KernelStaysMapped
<1>1. IInv => KernelStaysMapped
  <2>1. IInv => pd(pmem)[0] = PtFrame /\ pd(pmem)[KernelPde] = PtFrame
    BY DEF IInv, DirectoryInv, DirectoryOk
  <2>2. IInv /\ frees = 0 => \A f \in 0 .. N - 2 : pmem[PtFrame][f] = f
    BY DEF IInv, ExclusiveInv, Exclusive
  <2> QED
    BY <2>1, <2>2, MappedLow DEF KernelStaysMapped
<1> QED
  BY <1>1, SpecIInv, PTL

-----------------------------------------------------------------------------
(* The abstract allocator of ranges.                                       *)

\* The abstract state: the pages that are free and the ranges of clients.
FreePages == Page \ (vm_used \ RangeOf(call))
HeldRanges == {RangeOf(c) : c \in live} \ {{}}

\* The abstract actions, seen from the allocator.
LEMMA RangesStay ==
  ASSUME UNCHANGED <<FreePages, HeldRanges>>,
         ret' = ret \/ FrameOf(ret') \in Page
  PROVE  [Ranges!Next]_(Ranges!vars)
<1>1. CASE ret' = ret
  BY <1>1 DEF Ranges!vars, FreePages, HeldRanges
<1>2. CASE FrameOf(ret') = 0
  BY <1>2 DEF Ranges!Next, Ranges!Fail, FreePages, HeldRanges
<1>3. CASE FrameOf(ret') \in Page \ {0}
  BY <1>3 DEF Ranges!Next, Ranges!AllocNothing, FreePages, HeldRanges
<1> QED
  BY <1>1, <1>2, <1>3

LEMMA RangeTaken ==
  ASSUME NEW first \in FreePages \ {0}, NEW last \in FreePages, first <= last,
         first .. last \subseteq FreePages, FrameOf(ret') = first,
         HeldRanges' = HeldRanges \union {first .. last},
         FreePages' = FreePages \ (first .. last)
  PROVE  Ranges!Next
<1>1. Ranges!Alloc
  BY DEF Ranges!Alloc, FreePages, HeldRanges
<1> QED
  BY <1>1 DEF Ranges!Next

LEMMA RangeGivenBack ==
  ASSUME NEW range \in HeldRanges, HeldRanges' = HeldRanges \ {range},
         FreePages' = FreePages \union range, ret' = ret
  PROVE  Ranges!Next
<1>1. Ranges!Free
  BY DEF Ranges!Free, FreePages, HeldRanges
<1> QED
  BY <1>1 DEF Ranges!Next

\* Every range begins behind page 0, where an answer of 0 would mean failure.
LEMMA StartPages ==
  ASSUME NEW c \in Call, InSpace(c)
  PROVE  /\ c.start \in Page \ {0} /\ FrameOf(c.start * PageSize) = c.start
         /\ RangeOf(c) \subseteq Page
         /\ c.num > 0 => \E last \in RangeOf(c) : c.start <= last /\ RangeOf(c) = c.start .. last
<1>1. c.start \in Nat /\ c.num \in Nat /\ c.start \in Page /\ TotalPages \in Nat
      /\ KernelFirstPage \in Nat /\ c.start >= KernelFirstPage /\ c.start + c.num <= TotalPages
  BY SpaceType DEF Call, Page, InSpace
<1>2. KernelFirstPage > 0
  <2>1. KernelPde \in Nat \ {0} /\ N \in Nat \ {0}
    BY PagingAssumption
  <2> QED
    BY <2>1 DEF KernelFirstPage
<1>3. FrameOf(c.start * PageSize) = c.start
  BY <1>1, FrameOfFrame
<1>4. RangeOf(c) \subseteq Page
  BY <1>1 DEF RangeOf, Span, Page
<1>5. ASSUME c.num > 0
      PROVE  \E last \in RangeOf(c) : c.start <= last /\ RangeOf(c) = c.start .. last
  <2>1. c.start + c.num - 1 \in RangeOf(c) /\ c.start <= c.start + c.num - 1
    BY <1>1, <1>5 DEF RangeOf, Span
  <2> QED
    BY <2>1 DEF RangeOf, Span
<1> QED
  BY <1>1, <1>2, <1>3, <1>4, <1>5

\* vma_alloc reserves a range before it takes effect, and fails without a trace.
LEMMA AllocRefines ==
  ASSUME IInv, NEW q \in Requests, vma_alloc(q[1], q[2])
  PROVE  [Ranges!Next]_(Ranges!vars)
<1>1. call = Idle /\ RangeOf(call) = {}
  BY VmaAllocEffect
<1>2. CASE ret' = 0 /\ UNCHANGED <<vm_used, call, live>>
  <2>1. FrameOf(ret') \in Page
    BY <1>2, SpaceType, SizesAssumption DEF FrameOf, Page
  <2> QED
    BY <1>2, <2>1, RangesStay DEF FreePages, HeldRanges
<1>3. ASSUME NEW got \in Call, InSpace(got),
             RangeOf(got) \intersect vm_used = {},
             vm_used' = vm_used \union RangeOf(got),
             RangeOf(got) = {}, ret' = got.start * PageSize,
             live' = live \union {got}, UNCHANGED call
      PROVE  [Ranges!Next]_(Ranges!vars)
  <2>1. HeldRanges' = HeldRanges /\ FreePages' = FreePages
    BY <1>3 DEF HeldRanges, FreePages
  <2>2. FrameOf(ret') \in Page
    BY <1>3, StartPages
  <2> QED
    BY <2>1, <2>2, RangesStay
<1>4. ASSUME NEW got \in Call, RangeOf(got) \intersect vm_used = {},
             vm_used' = vm_used \union RangeOf(got),
             call' = got, UNCHANGED <<ret, live>>
      PROVE  [Ranges!Next]_(Ranges!vars)
  <2>1. FreePages' = FreePages
    BY <1>1, <1>4 DEF FreePages
  <2>2. HeldRanges' = HeldRanges
    BY <1>4 DEF HeldRanges
  <2> QED
    BY <1>4, <2>1, <2>2, RangesStay
<1> QED
  BY <1>2, <1>3, <1>4, VmaAllocEffect

\* An iteration takes effect when it is the last one; out of memory gives all back.
LEMMA AllocPageRefines ==
  ASSUME IInv, vma_alloc_page, BitmapIntact'
  PROVE  [Ranges!Next]_(Ranges!vars)
<1>1. BitmapIntact /\ PageEffect
  BY VmaAllocPageStep
<1>2. vm_used = leftover \union RangeOf(call) \union LivePages
  BY <1>1 DEF IInv, RangesInv
<1>3. call \in Call /\ InSpace(call) /\ call.num > 0
  <2>1. call.op # "none"
    BY DEF vma_alloc_page
  <2>2. call \in Call /\ InSpace(call) /\ call.page < call.num
    BY <2>1 DEF IInv, TypeOK, CallInv
  <2> QED
    BY <2>2, SpaceType DEF Call
<1>4. CASE vm_used' = vm_used \ RangeOf(call) /\ ret' = 0 /\ RangeOf(call') = {} /\ live' = live
  <2>1. FreePages' = FreePages /\ HeldRanges' = HeldRanges
    BY <1>4 DEF FreePages, HeldRanges
  <2>2. FrameOf(ret') \in Page
    BY <1>4, SpaceType, SizesAssumption DEF FrameOf, Page
  <2> QED
    BY <2>1, <2>2, RangesStay
<1>5. CASE vm_used' = vm_used /\ RangeOf(call') = RangeOf(call) /\ UNCHANGED <<ret, live>>
  BY <1>5, RangesStay DEF FreePages, HeldRanges
<1>6. CASE /\ vm_used' = vm_used /\ ret' = call.start * PageSize /\ RangeOf(call') = {}
           /\ live' = live \union {[call EXCEPT !.page = 0]}
  <2>1. PICK last \in RangeOf(call) : call.start <= last /\ RangeOf(call) = call.start .. last
    BY <1>3, StartPages
  <2>2. RangeOf(call) \subseteq FreePages
    BY <1>3, StartPages DEF FreePages
  <2>3. call.start \in RangeOf(call) /\ call.start # 0 /\ FrameOf(ret') = call.start
    <3>1. call.start \in Page \ {0} /\ FrameOf(call.start * PageSize) = call.start
      BY <1>3, StartPages
    <3>2. call.start \in Int
      BY <3>1, SpaceType DEF Page
    <3>3. call.start \in call.start .. last
      BY <2>1, <3>2
    <3> QED
      BY <1>6, <2>1, <3>1, <3>3
  <2>4. FreePages' = FreePages \ RangeOf(call)
    BY <1>2, <1>6 DEF FreePages
  <2>5. HeldRanges' = HeldRanges \union {RangeOf(call)}
    <3>1. RangeOf([call EXCEPT !.page = 0]) = RangeOf(call) /\ RangeOf(call) # {}
      BY <1>3, <2>3, DoneKeeps
    <3> QED
      BY <1>6, <3>1 DEF HeldRanges
  <2>6. Ranges!Next
    BY <2>1, <2>2, <2>3, <2>4, <2>5, RangeTaken
  <2> QED
    BY <2>6
<1> QED
  BY <1>1, <1>4, <1>5, <1>6 DEF PageEffect

\* A free takes effect when it is called; what its loop does shows no more.
LEMMA FreeRefines ==
  ASSUME IInv, NEW a \in live, vma_free(a), BitmapIntact'
  PROVE  [Ranges!Next]_(Ranges!vars)
<1>1. /\ a \in Call /\ InSpace(a) /\ a.num > 0 /\ call = Idle /\ RangeOf(call) = {}
      /\ vm_used' = vm_used /\ live' = live \ {a} /\ ret' = ret
      /\ call' = [a EXCEPT !.op = "vma_free"]
  BY DEF vma_free, IInv, TypeOK, CallInv, Idle, RangeOf, Span
<1>2. RangeOf(call') = RangeOf(a)
  BY <1>1 DEF Call, RangeOf
<1>3. RangeOf(a) \subseteq Page /\ RangeOf(a) # {}
  BY <1>1, StartPages
<1>4. \A c, d \in live : c # d => RangeOf(c) \intersect RangeOf(d) = {}
  <2>1. BitmapIntact
    BY DEF vma_free, BitmapIntact, NewTables
  <2> QED
    BY <2>1 DEF IInv, RangesInv
<1>5. FreePages' = FreePages \union RangeOf(a)
  BY <1>1, <1>2, <1>3 DEF FreePages
<1>6. HeldRanges' = HeldRanges \ {RangeOf(a)}
  <2>1. \A c \in live : c # a => RangeOf(c) # RangeOf(a)
    BY <1>3, <1>4
  <2> QED
    BY <1>1, <2>1 DEF HeldRanges
<1>7. RangeOf(a) \in HeldRanges
  BY <1>3 DEF HeldRanges
<1>8. Ranges!Next
  BY <1>1, <1>5, <1>6, <1>7, RangeGivenBack
<1> QED
  BY <1>8

LEMMA FreePageRefines ==
  ASSUME IInv, vma_free_page
  PROVE  [Ranges!Next]_(Ranges!vars)
<1>1. /\ call.op = "vma_free" /\ UNCHANGED <<ret, live>>
      /\ \/ UNCHANGED <<vm_used, call>>
         \/ IsLast(call) /\ vm_used' = vm_used \ RangeOf(call) /\ call' = Idle
         \/ ~ IsLast(call) /\ vm_used' = vm_used /\ call' = Advance(call)
  BY DEF vma_free_page, bitmap_mark_range_free, RangeOf
<1>2. call \in Call /\ InSpace(call) /\ call.page < call.num
  BY <1>1 DEF IInv, TypeOK, CallInv
<1>3. RangeOf(Idle) = {}
  BY DEF Idle, RangeOf, Span
<1>4. ~ IsLast(call) => RangeOf(Advance(call)) = RangeOf(call)
  BY <1>2, AdvanceKeeps
<1>5. \/ vm_used' = vm_used /\ RangeOf(call') = RangeOf(call)
      \/ vm_used' = vm_used \ RangeOf(call) /\ RangeOf(call') = {}
  BY <1>1, <1>3, <1>4
<1>6. FreePages' = FreePages /\ HeldRanges' = HeldRanges
  BY <1>1, <1>5 DEF FreePages, HeldRanges
<1> QED
  BY <1>1, <1>6, RangesStay

LEMMA RangesRefined ==
  ASSUME IInv, [Next]_vars, BitmapIntact'
  PROVE  [Ranges!Next]_(Ranges!vars)
<1>1. CASE UNCHANGED <<vm_used, call, live, ret>>
  BY <1>1, RangesStay DEF FreePages, HeldRanges
<1>2. CASE InitPfa \/ setup_recursive_pd \/ UNCHANGED vars
  BY <1>1, <1>2 DEF InitPfa, setup_recursive_pd, vars
<1>3. ASSUME NEW q \in Requests, vma_alloc(q[1], q[2])
      PROVE  [Ranges!Next]_(Ranges!vars)
  BY <1>3, AllocRefines
<1>4. CASE vma_alloc_page
  BY <1>4, AllocPageRefines
<1>5. ASSUME NEW a \in live, vma_free(a)
      PROVE  [Ranges!Next]_(Ranges!vars)
  BY <1>5, FreeRefines
<1>6. CASE vma_free_page
  BY <1>6, FreePageRefines
<1> QED
  BY <1>2, <1>3, <1>4, <1>5, <1>6 DEF Next

LEMMA RangesInit == Init => Ranges!Init
<1> SUFFICES ASSUME Init PROVE Ranges!Init
  OBVIOUS
<1>1. FrameOf(0) = 0
  BY SizesAssumption DEF FrameOf
<1>2. {RangeOf(c) : c \in live} \ {{}} = {}
  BY DEF Init
<1> QED
  BY <1>1, <1>2 DEF Init, Ranges!Init

\* While no page table lies on the bitmap the allocator implements RangeAllocator: the
\* loops, frames, page tables and the rollback of vma_alloc and vma_free add up to
\* taking a whole free range, giving back a whole range, or failing without a trace.
THEOREM RangeRefinement == Spec => ImplementsRangeAllocator
<1>1. IInv /\ [Next]_vars => [BitmapIntact' => [Ranges!Next]_(Ranges!vars)]_vars
  BY RangesRefined
<1> QED
  BY <1>1, RangesInit, SpecIInv, PTL DEF Spec, ImplementsRangeAllocator
=============================================================================
