------------------------- MODULE PageFramesProofs -------------------------
(***************************************************************************)
(* Lemmas about the operations of the page frame allocator, for every page *)
(* size, memory map and reservation.  PfaProofs and VmaProofs use them.    *)
(***************************************************************************)
EXTENDS PageFrames, FiniteSetTheorems, WellFoundedInduction, TLAPS

-----------------------------------------------------------------------------
(* Arithmetic.                                                             *)

LEMMA DivType ==
  ASSUME NEW a \in Nat, NEW b \in Nat \ {0}
  PROVE  a \div b \in Nat
OBVIOUS

LEMMA CeilDivType ==
  ASSUME NEW a \in Nat, NEW b \in Nat \ {0}
  PROVE  CeilDiv(a, b) \in Nat
<1>1. a + b - 1 \in Nat
  OBVIOUS
<1> QED
  BY <1>1, DivType DEF CeilDiv

LEMMA FrameOfType ==
  ASSUME NEW a \in Nat
  PROVE  FrameOf(a) \in Nat
BY SizesAssumption, DivType DEF FrameOf

LEMMA TimesType ==
  ASSUME NEW a \in Nat, NEW b \in Nat
  PROVE  a * b \in Nat
OBVIOUS

LEMMA TimesMonotonic ==
  ASSUME NEW a \in Nat, NEW b \in Nat, NEW c \in Nat, a <= b
  PROVE  a * c <= b * c
<1>1. PICK d \in Nat : b = a + d
  <2> WITNESS b - a \in Nat
  <2> QED OBVIOUS
<1>2. b * c = a * c + d * c
  BY <1>1
<1>3. d * c \in Nat /\ a * c \in Nat
  BY TimesType
<1> QED
  BY <1>2, <1>3

LEMMA FrameOfFrame ==
  ASSUME NEW f \in Nat
  PROVE  FrameOf(f * PageSize) = f
BY SizesAssumption DEF FrameOf

LEMMA SpanType ==
  ASSUME NEW a \in Nat, NEW n \in Nat
  PROVE  Span(a, n) \in SUBSET Nat
BY DEF Span

-----------------------------------------------------------------------------
(* Least and greatest elements.                                            *)

LessThan == OpToRel(<, Nat)

LEMMA LessThanDef ==
  ASSUME NEW x \in Nat, NEW y \in Nat
  PROVE  <<x, y>> \in LessThan <=> x < y
BY DEF OpToRel, LessThan

LEMMA LessThanWellFounded == IsWellFoundedOn(LessThan, Nat)
BY NatLessThanWellFounded, Zenon DEF LessThan

LEMMA LeastExists ==
  ASSUME NEW S \in SUBSET Nat, S # {}
  PROVE  \E m \in S : \A k \in S : m <= k
<1>1. PICK m \in S : \A k \in S : ~ (<<k, m>> \in LessThan)
  BY LessThanWellFounded, WFMin
<1>2. ASSUME NEW k \in S
      PROVE  m <= k
  <2>1. m \in Nat /\ k \in Nat
    OBVIOUS
  <2>2. ~ (k < m)
    BY <1>1, <2>1, LessThanDef
  <2> QED
    BY <2>1, <2>2
<1> QED
  BY <1>2

LEMMA MinOfNats ==
  ASSUME NEW S \in SUBSET Nat, S # {}
  PROVE  Min(S) \in S /\ \A k \in S : Min(S) <= k
BY LeastExists DEF Min

LEMMA MaxOfNats ==
  ASSUME NEW S \in SUBSET Nat, S # {}, NEW b \in Nat, \A k \in S : k <= b
  PROVE  Max(S) \in S /\ \A k \in S : k <= Max(S)
<1> DEFINE T == {b - k : k \in S}
<1>1. T \in SUBSET Nat /\ T # {}
  <2>1. ASSUME NEW k \in S
        PROVE  b - k \in Nat
    <3>1. k \in Nat /\ k <= b
      OBVIOUS
    <3> QED
      BY <3>1
  <2>2. T \in SUBSET Nat
    BY <2>1
  <2>3. PICK k \in S : TRUE
    OBVIOUS
  <2>4. b - k \in T
    OBVIOUS
  <2> QED
    BY <2>2, <2>4
<1>2. PICK m \in T : \A k \in T : m <= k
  BY <1>1, LeastExists
<1>3. PICK x \in S : m = b - x
  BY <1>2
<1>4. \A k \in S : b - x <= b - k
  BY <1>2, <1>3
<1>5. \A k \in S : x >= k
  BY <1>4
<1> QED
  BY <1>3, <1>5 DEF Max

-----------------------------------------------------------------------------
(* init_pfa.                                                               *)

\* The highest address is a natural number, and no available region ends above it,
\* but for what lies above 4 GB - 1.
LEMMA BoundsCover ==
  ASSUME NEW info \in BootInfo
  PROVE  LET max == find_usable_memory_bounds(info)
         IN  /\ max \in Nat
             /\ max <= AddrSpace
             /\ \A r \in AvailableRegions(info) :
                  r.addr < AddrSpace - 1 => r.addr + r.len <= max \/ AddrSpace - 1 <= max
<1> DEFINE cap(end) == IF end > AddrSpace - 1 THEN AddrSpace - 1 ELSE end
           S == {0} \union {cap(r.addr + r.len) :
                  r \in {q \in AvailableRegions(info) : q.addr < AddrSpace - 1}}
<1>1. \A r \in AvailableRegions(info) : r.addr \in Nat /\ r.len \in Nat
  BY DEF AvailableRegions, BootInfo
<1>2. \A end \in Nat : /\ cap(end) \in Nat /\ cap(end) <= AddrSpace
                       /\ cap(end) = end \/ cap(end) = AddrSpace - 1
  BY SizesAssumption
<1>3. \A r \in AvailableRegions(info) :
        /\ cap(r.addr + r.len) \in Nat /\ cap(r.addr + r.len) <= AddrSpace
        /\ cap(r.addr + r.len) = r.addr + r.len \/ cap(r.addr + r.len) = AddrSpace - 1
  <2>1. \A r \in AvailableRegions(info) : r.addr + r.len \in Nat
    BY <1>1
  <2> HIDE DEF cap
  <2> QED
    BY <2>1, <1>2
<1>4. S \in SUBSET Nat /\ \A k \in S : k <= AddrSpace
  <2>1. AddrSpace \in Nat
    BY SizesAssumption
  <2> HIDE DEF cap
  <2> QED
    BY <1>3, <2>1
<1>5. S # {}
  OBVIOUS
<1>6. Max(S) \in S /\ \A k \in S : k <= Max(S)
  <2> HIDE DEF S
  <2> QED
    BY <1>4, <1>5, MaxOfNats, SizesAssumption
<1>7. Max(S) \in Nat /\ Max(S) <= AddrSpace
  <2> HIDE DEF S
  <2> QED
    BY <1>4, <1>6
<1>8. ASSUME NEW r \in AvailableRegions(info), r.addr < AddrSpace - 1
      PROVE  r.addr + r.len <= Max(S) \/ AddrSpace - 1 <= Max(S)
  <2>1. cap(r.addr + r.len) \in S
    BY <1>8
  <2>2. cap(r.addr + r.len) <= Max(S)
    <3> HIDE DEF S, cap
    <3> QED
      BY <1>6, <2>1
  <2> HIDE DEF S, cap
  <2> QED
    BY <1>3, <2>2
<1>9. find_usable_memory_bounds(info) = Max(S)
  BY DEF find_usable_memory_bounds
<1> HIDE DEF S
<1> QED
  BY <1>7, <1>8, <1>9

LEMMA BoundsType ==
  ASSUME NEW info \in BootInfo
  PROVE  find_usable_memory_bounds(info) \in Nat
BY BoundsCover

LEMMA SizedType ==
  ASSUME NEW vb \in VmBitmap, NEW info \in BootInfo
  PROVE  get_max_usable_pages(vb, info) \in VmBitmap
<1>1. find_usable_memory_bounds(info) \in Nat
  BY BoundsType
<1>2. FrameOf(find_usable_memory_bounds(info)) \in Nat
  BY <1>1, FrameOfType
<1> QED
  BY <1>1, <1>2 DEF get_max_usable_pages, VmBitmap

LEMMA InitBitmapType ==
  ASSUME NEW vb \in VmBitmap
  PROVE  pfa_init_bitmap(vb) \in VmBitmap
<1> DEFINE size == CeilDiv(vb.total_frames, BitsPerByte)
<1>1. size \in Nat
  BY SizesAssumption, CeilDivType DEF VmBitmap
<1>2. Span(0, size * BitsPerByte) \in SUBSET Nat
  BY <1>1, SizesAssumption, TimesType, SpanType
<1> QED
  BY <1>1, <1>2 DEF pfa_init_bitmap, bitmap_mark_range_used, VmBitmap

LEMMA MarkUsableType ==
  ASSUME NEW vb \in VmBitmap, NEW info
  PROVE  pfa_mark_usable_memory(vb, info) \in VmBitmap
BY DEF pfa_mark_usable_memory, VmBitmap

LEMMA SystemFramesType == UNION {Span(a[1], a[2]) : a \in SystemAreas} \in SUBSET Nat
<1>1. \A a \in SystemAreas : a[1] \in Nat /\ a[2] \in Nat
  BY LayoutAssumption
<1> QED
  BY <1>1, SpanType

LEMMA KernelFramesType == KernelFrames \in SUBSET Nat
<1>1. FrameOf(KernelStart) \in Nat
  BY LayoutAssumption, FrameOfType
<1>2. CeilDiv(KernelEnd + KernelSlack, PageSize) \in Nat
  <2>1. KernelEnd + KernelSlack \in Nat
    BY LayoutAssumption
  <2> QED
    BY <2>1, SizesAssumption, CeilDivType
<1> QED
  BY <1>1, <1>2 DEF KernelFrames

LEMMA ModuleFramesType ==
  ASSUME NEW m \in [mod_start : Nat, mod_end : Nat]
  PROVE  ModuleFrames(m) \in SUBSET Nat
<1>1. FrameOf(m.mod_start) \in Nat
  BY FrameOfType
<1>2. CeilDiv(m.mod_end, PageSize) \in Nat
  BY SizesAssumption, CeilDivType
<1> QED
  BY <1>1, <1>2 DEF ModuleFrames

LEMMA ReserveSystemType ==
  ASSUME NEW vb \in VmBitmap
  PROVE  pfa_reserve_system_areas(vb) \in VmBitmap
BY SystemFramesType DEF pfa_reserve_system_areas, VmBitmap

LEMMA ReserveKernelType ==
  ASSUME NEW vb \in VmBitmap
  PROVE  pfa_reserve_kernel_memory(vb) \in VmBitmap
BY KernelFramesType DEF pfa_reserve_kernel_memory, VmBitmap

LEMMA ReserveMultibootType ==
  ASSUME NEW vb \in VmBitmap, NEW info \in BootInfo
  PROVE  pfa_reserve_multiboot_structures(vb, info) \in VmBitmap
<1>1. FrameOf(KernelBase + info.mbi) \in Nat
  <2>1. KernelBase + info.mbi \in Nat
    BY SizesAssumption DEF BootInfo
  <2> QED
    BY <2>1, FrameOfType
<1>2. Span(FrameOf(info.mmap_addr), CeilDiv(info.mmap_length, PageSize)) \in SUBSET Nat
  <2>1. FrameOf(info.mmap_addr) \in Nat
    BY FrameOfType DEF BootInfo
  <2>2. CeilDiv(info.mmap_length, PageSize) \in Nat
    BY SizesAssumption, CeilDivType DEF BootInfo
  <2> QED
    BY <2>1, <2>2, SpanType
<1>3. UNION {ModuleFrames(m) : m \in info.mods} \in SUBSET Nat
  <2>1. \A m \in info.mods : m \in [mod_start : Nat, mod_end : Nat]
    BY DEF BootInfo
  <2> QED
    BY <2>1, ModuleFramesType
<1>4. {FrameOf(c) : c \in info.cmdline} \in SUBSET Nat
  <2>1. \A c \in info.cmdline : c \in Nat
    BY DEF BootInfo
  <2> QED
    BY <2>1, FrameOfType
<1>5. vb.bits \in SUBSET Nat
  BY DEF VmBitmap
<1> DEFINE mbi   == {FrameOf(KernelBase + info.mbi)}
           mmap  == Span(FrameOf(info.mmap_addr), CeilDiv(info.mmap_length, PageSize))
           mods  == UNION {ModuleFrames(m) : m \in info.mods}
           cmd   == {FrameOf(c) : c \in info.cmdline}
           all   == vb.bits \union mbi \union mmap \union mods \union cmd
<1>6. mbi \in SUBSET Nat /\ mmap \in SUBSET Nat /\ mods \in SUBSET Nat /\ cmd \in SUBSET Nat
  BY <1>1, <1>2, <1>3, <1>4
<1>7. pfa_reserve_multiboot_structures(vb, info) = [vb EXCEPT !.bits = all]
  BY DEF pfa_reserve_multiboot_structures
<1> HIDE DEF mbi, mmap, mods, cmd
<1>8. all \in SUBSET Nat
  BY <1>5, <1>6
<1> HIDE DEF all
<1> QED
  BY <1>7, <1>8 DEF VmBitmap

LEMMA CountFreeType ==
  ASSUME NEW vb \in VmBitmap
  PROVE  pfa_count_free_frames(vb) \in Nat
<1> DEFINE S == {f \in 0 .. vb.total_frames - 1 : ~ bitmap_test(vb.bits, f)}
<1>1. IsFiniteSet(0 .. vb.total_frames - 1)
  <2>1. 0 \in Int /\ vb.total_frames - 1 \in Int
    BY DEF VmBitmap
  <2> QED
    BY <2>1, FS_Interval
<1>2. IsFiniteSet(S)
  <2>1. S \in SUBSET (0 .. vb.total_frames - 1)
    OBVIOUS
  <2> QED
    BY <1>1, <2>1, FS_Subset
<1>3. Cardinality(S) \in Nat
  BY <1>2, FS_CardinalityType
<1> QED
  BY <1>3 DEF pfa_count_free_frames

\* The reservations of init_pfa in the order of the code.
Reserved(vb, info) ==
  pfa_reserve_multiboot_structures(
    pfa_reserve_kernel_memory(
      pfa_reserve_system_areas(
        pfa_mark_usable_memory(pfa_init_bitmap(vb), info))), info)

LEMMA ReservedType ==
  ASSUME NEW vb \in VmBitmap, NEW info \in BootInfo
  PROVE  Reserved(vb, info) \in VmBitmap
BY InitBitmapType, MarkUsableType, ReserveSystemType, ReserveKernelType,
   ReserveMultibootType DEF Reserved

LEMMA InitPfaType ==
  ASSUME NEW vb \in VmBitmap, NEW info \in BootInfo
  PROVE  init_pfa(vb, info) \in VmBitmap
<1> DEFINE sized == get_max_usable_pages(vb, info)
           r == Reserved(sized, info)
<1>1. sized \in VmBitmap
  BY SizedType
<1>2. r \in VmBitmap
  BY <1>1, ReservedType
<1>3. pfa_count_free_frames(r) \in Nat
  BY <1>2, CountFreeType
<1>4. init_pfa(vb, info) =
        IF sized.total_frames = 0 THEN sized
        ELSE [r EXCEPT !.free_frames = pfa_count_free_frames(r)]
  BY DEF init_pfa, Reserved
<1> HIDE DEF sized, r
<1> QED
  BY <1>1, <1>2, <1>3, <1>4 DEF VmBitmap

-----------------------------------------------------------------------------
(* pfa_alloc and pfa_free.                                                 *)

LEMMA ScannedType ==
  ASSUME NEW vb \in VmBitmap
  PROVE  ScannedBits(vb) \in SUBSET Nat
<1>1. vb.bitmap_size * BitsPerByte \in Nat
  BY SizesAssumption, TimesType DEF VmBitmap
<1> QED
  BY <1>1, SpanType DEF ScannedBits

\* pfa_alloc returns the address of an allocatable frame, which is not allocatable
\* any more, or 0 if there was none; other frames keep their state.
LEMMA AllocEffect ==
  ASSUME NEW vb \in VmBitmap
  PROVE  LET r == pfa_alloc(vb)
         IN  /\ r.vb \in VmBitmap
             /\ r.vb.bitmap_size = vb.bitmap_size
             /\ r.vb.total_frames = vb.total_frames
             /\ r.vb.max_phys_addr = vb.max_phys_addr
             /\ vb.bits \subseteq r.vb.bits
             /\ \/ /\ r.addr = 0
                   /\ AllocatableFrames(vb) = {}
                   /\ AllocatableFrames(r.vb) = {}
                \/ \E f \in AllocatableFrames(vb) :
                     /\ r.addr = f * PageSize
                     /\ f \in r.vb.bits
                     /\ AllocatableFrames(r.vb) = AllocatableFrames(vb) \ {f}
<1> DEFINE zero   == FreeBits(vb) \intersect {0}
           others == FreeBits(vb) \ {0}
           frame  == Min(others)
           taken  == [vb EXCEPT !.bits = @ \union zero \union {frame}]
<1>1. FreeBits(vb) \in SUBSET Nat
  BY ScannedType DEF FreeBits
<1>2. vb.bits \in SUBSET Nat /\ vb.max_phys_addr \in Nat
  BY DEF VmBitmap
<1>3. CASE others = {}
  <2>1. pfa_alloc(vb) = [vb |-> [vb EXCEPT !.bits = @ \union zero], addr |-> 0]
    BY <1>3 DEF pfa_alloc
  <2>2. AllocatableFrames(vb) = {}
    BY <1>3 DEF AllocatableFrames
  <2>3. [vb EXCEPT !.bits = @ \union zero] \in VmBitmap
    BY <1>1, <1>2 DEF VmBitmap
  <2>4. AllocatableFrames([vb EXCEPT !.bits = @ \union zero]) = {}
    BY <1>3 DEF AllocatableFrames, FreeBits, ScannedBits, bitmap_test, VmBitmap
  <2> QED
    BY <2>1, <2>2, <2>3, <2>4 DEF VmBitmap
<1>4. CASE others # {}
  <2>1. frame \in others /\ \A k \in others : frame <= k
    <3>1. others \in SUBSET Nat
      BY <1>1
    <3> QED
      BY <1>4, <3>1, MinOfNats
  <2> HIDE DEF frame
  <2>2. frame \in Nat /\ frame # 0 /\ frame \in FreeBits(vb)
    BY <1>1, <2>1
  <2>3. frame * PageSize \in Nat
    BY <2>2, TimesType, SizesAssumption
  <2>4. pfa_alloc(vb).vb = taken
    BY <1>4 DEF pfa_alloc, frame
  <2>5. pfa_alloc(vb).addr = IF frame * PageSize >= vb.max_phys_addr THEN 0
                             ELSE frame * PageSize
    BY <1>4 DEF pfa_alloc, frame
  <2>6. taken \in VmBitmap
    BY <1>1, <1>2, <2>2 DEF VmBitmap
  <2>7. /\ taken.bits = vb.bits \union zero \union {frame}
        /\ taken.bitmap_size = vb.bitmap_size
        /\ taken.total_frames = vb.total_frames
        /\ taken.max_phys_addr = vb.max_phys_addr
    BY DEF VmBitmap
  <2> HIDE DEF taken
  <2>8. FreeBits(taken) = FreeBits(vb) \ {0, frame}
    BY <2>7 DEF FreeBits, ScannedBits, bitmap_test
  <2>9. AllocatableFrames(taken) = AllocatableFrames(vb) \ {frame}
    BY <2>7, <2>8 DEF AllocatableFrames
  <2>10. CASE frame * PageSize >= vb.max_phys_addr
    <3>1. ASSUME NEW f \in AllocatableFrames(vb)
          PROVE  FALSE
      <4>1. f \in others /\ f * PageSize < vb.max_phys_addr
        BY DEF AllocatableFrames
      <4>2. f \in Nat /\ frame <= f
        BY <1>1, <2>1, <4>1
      <4>3. frame * PageSize <= f * PageSize
        BY <2>2, <4>2, TimesMonotonic, SizesAssumption
      <4>4. f * PageSize \in Nat
        BY <4>2, TimesType, SizesAssumption
      <4> QED
        BY <1>2, <2>3, <2>10, <4>1, <4>3, <4>4
    <3>2. AllocatableFrames(vb) = {} /\ AllocatableFrames(taken) = {}
      BY <2>9, <3>1
    <3> QED
      BY <2>4, <2>5, <2>6, <2>7, <2>10, <3>2
  <2>11. CASE ~ (frame * PageSize >= vb.max_phys_addr)
    <3>1. frame * PageSize < vb.max_phys_addr
      BY <1>2, <2>3, <2>11
    <3>2. frame \in AllocatableFrames(vb)
      BY <2>2, <3>1 DEF AllocatableFrames
    <3>3. frame \in taken.bits
      BY <2>7
    <3> QED
      BY <2>4, <2>5, <2>6, <2>7, <2>9, <2>11, <3>2, <3>3
  <2> QED
    BY <2>10, <2>11
<1> QED
  BY <1>3, <1>4

\* The address of a frame but frame 0 is not 0.
LEMMA AddressNotZero ==
  ASSUME NEW f \in Nat, f # 0
  PROVE  f * PageSize \in Nat /\ f * PageSize # 0
<1>1. 1 <= f
  OBVIOUS
<1>2. 1 * PageSize <= f * PageSize
  BY <1>1, TimesMonotonic, SizesAssumption
<1>3. f * PageSize \in Nat
  BY TimesType, SizesAssumption
<1> QED
  BY <1>2, <1>3, SizesAssumption

\* Freeing a used frame below max_phys_addr makes exactly this frame allocatable.
LEMMA FreeEffect ==
  ASSUME NEW vb \in VmBitmap, NEW f \in ScannedBits(vb), f # 0,
         f * PageSize < vb.max_phys_addr
  PROVE  LET v == pfa_free(vb, f * PageSize)
         IN  /\ v = [vb EXCEPT !.bits = @ \ {f}]
             /\ v \in VmBitmap
             /\ AllocatableFrames(v) = AllocatableFrames(vb) \union {f}
<1>1. f \in Nat
  BY ScannedType
<1>2. f * PageSize \in Nat /\ f * PageSize # 0
  BY <1>1, AddressNotZero
<1>3. vb.max_phys_addr \in Nat
  BY DEF VmBitmap
<1>4. pfa_free(vb, f * PageSize) = [vb EXCEPT !.bits = @ \ {f}]
  BY <1>1, <1>2, <1>3, FrameOfFrame DEF pfa_free, bitmap_clear
<1> DEFINE v == [vb EXCEPT !.bits = @ \ {f}]
<1>5. v \in VmBitmap
  BY DEF VmBitmap
<1>6. /\ v.bits = vb.bits \ {f}
      /\ v.bitmap_size = vb.bitmap_size
      /\ v.max_phys_addr = vb.max_phys_addr
  BY DEF VmBitmap
<1> HIDE DEF v
<1>7. FreeBits(v) = FreeBits(vb) \union {f}
  BY <1>6 DEF FreeBits, ScannedBits, bitmap_test
<1>8. AllocatableFrames(v) = AllocatableFrames(vb) \union {f}
  BY <1>6, <1>7 DEF AllocatableFrames
<1> QED
  BY <1>4, <1>5, <1>8 DEF v

-----------------------------------------------------------------------------
(* Protected frames.                                                       *)

ModulesFrames(info) == UNION {ModuleFrames(m) : m \in info.mods}
CmdlineFrames(info) == {FrameOf(c) : c \in info.cmdline}
SystemFrames == UNION {Span(a[1], a[2]) : a \in SystemAreas}

Protected(info) ==
  SystemFrames \union KernelFrames \union ModulesFrames(info) \union CmdlineFrames(info)

LEMMA InitPfaProtects ==
  ASSUME NEW info \in BootInfo
  PROVE  LET vb == init_pfa(InitialVmBitmap, info)
         IN  ScannedBits(vb) = {} \/ Protected(info) \subseteq vb.bits
<1> DEFINE sized == get_max_usable_pages(InitialVmBitmap, info)
           a == pfa_mark_usable_memory(pfa_init_bitmap(sized), info)
           b == pfa_reserve_system_areas(a)
           c == pfa_reserve_kernel_memory(b)
           d == pfa_reserve_multiboot_structures(c, info)
           e == [d EXCEPT !.free_frames = pfa_count_free_frames(d)]
<1>1. InitialVmBitmap \in VmBitmap
  BY DEF InitialVmBitmap, VmBitmap
<1>2. sized \in VmBitmap
  BY <1>1, SizedType
<1>3. a \in VmBitmap /\ b \in VmBitmap /\ c \in VmBitmap /\ d \in VmBitmap
  BY <1>2, InitBitmapType, MarkUsableType, ReserveSystemType, ReserveKernelType,
     ReserveMultibootType
<1>4. init_pfa(InitialVmBitmap, info) = IF sized.total_frames = 0 THEN sized ELSE e
  BY DEF init_pfa
<1>5. sized.bitmap_size = 0
  BY DEF get_max_usable_pages, InitialVmBitmap
<1>6. b.bits = a.bits \union SystemFrames
  <2> HIDE DEF a
  <2> QED
    BY <1>3 DEF pfa_reserve_system_areas, SystemFrames, VmBitmap
<1>7. c.bits = b.bits \union KernelFrames
  <2> HIDE DEF b
  <2> QED
    BY <1>3 DEF pfa_reserve_kernel_memory, VmBitmap
<1>8. c.bits \union ModulesFrames(info) \union CmdlineFrames(info) \subseteq d.bits
  <2> HIDE DEF c
  <2> QED
    BY <1>3 DEF pfa_reserve_multiboot_structures, ModulesFrames, CmdlineFrames, VmBitmap
<1> HIDE DEF sized, a, b, c, d
<1>9. e.bits = d.bits
  BY <1>3 DEF VmBitmap
<1>10. ScannedBits(sized) = {}
  BY <1>5, SizesAssumption DEF ScannedBits, Span
<1> HIDE DEF e
<1>11. Protected(info) \subseteq e.bits
  BY <1>6, <1>7, <1>8, <1>9 DEF Protected
<1> QED
  BY <1>4, <1>10, <1>11

LEMMA InitPfaMax ==
  ASSUME NEW info \in BootInfo
  PROVE  LET vb == init_pfa(InitialVmBitmap, info)
         IN  vb.max_phys_addr \in {0, find_usable_memory_bounds(info)}
<1> DEFINE sized == get_max_usable_pages(InitialVmBitmap, info)
           a == pfa_mark_usable_memory(pfa_init_bitmap(sized), info)
           d == Reserved(sized, info)
           e == [d EXCEPT !.free_frames = pfa_count_free_frames(d)]
<1>1. InitialVmBitmap \in VmBitmap
  BY DEF InitialVmBitmap, VmBitmap
<1>2. sized \in VmBitmap /\ sized.max_phys_addr \in {0, find_usable_memory_bounds(info)}
  BY <1>1, SizedType DEF get_max_usable_pages, InitialVmBitmap
<1> HIDE DEF sized
<1>3. a \in VmBitmap /\ a.max_phys_addr = sized.max_phys_addr
  BY <1>2, InitBitmapType, MarkUsableType
     DEF pfa_init_bitmap, pfa_mark_usable_memory, VmBitmap
<1>4. d \in VmBitmap /\ d.max_phys_addr = a.max_phys_addr
  <2> DEFINE b == pfa_reserve_system_areas(a)
             c == pfa_reserve_kernel_memory(b)
  <2>1. d = pfa_reserve_multiboot_structures(c, info)
    BY DEF Reserved
  <2> HIDE DEF a
  <2>2. b \in VmBitmap /\ b.max_phys_addr = a.max_phys_addr
    BY <1>3, ReserveSystemType DEF pfa_reserve_system_areas, VmBitmap
  <2> HIDE DEF b
  <2>3. c \in VmBitmap /\ c.max_phys_addr = b.max_phys_addr
    BY <2>2, ReserveKernelType DEF pfa_reserve_kernel_memory, VmBitmap
  <2> HIDE DEF c, d
  <2>4. d \in VmBitmap
    BY <2>1, <2>3, ReserveMultibootType
  <2>5. d.max_phys_addr = c.max_phys_addr
    BY <2>1, <2>3 DEF pfa_reserve_multiboot_structures, VmBitmap
  <2> QED
    BY <2>2, <2>3, <2>4, <2>5
<1>5. init_pfa(InitialVmBitmap, info) = IF sized.total_frames = 0 THEN sized ELSE e
  BY DEF init_pfa, Reserved, sized
<1> HIDE DEF a, d
<1>6. e.max_phys_addr = d.max_phys_addr
  BY <1>4 DEF VmBitmap
<1> HIDE DEF e
<1> QED
  BY <1>2, <1>3, <1>4, <1>5, <1>6
=============================================================================
