----------------------------- MODULE PageFrames -----------------------------
(***************************************************************************)
(* The operations of the page frame allocator: memory/pfa.h and            *)
(* memory/pfa_helpers.h, as functions on the value of the global vm_bitmap *)
(* (no interrupt handler touches it, so a call is never interleaved with   *)
(* another one).  Pfa.tla puts them in a state machine, Vma.tla composes   *)
(* them with the page tables.                                              *)
(*                                                                         *)
(* The memory map and the module list are the sets of their entries: every *)
(* loop over them only takes a maximum, clears bits or sets bits, so the   *)
(* order of the entries does not matter.  total_usable_kb, which is only   *)
(* printed, and all output are left out.                                   *)
(***************************************************************************)
EXTENDS Bitmap, FiniteSets

CONSTANTS
  PageSize,      \* PAGE_SIZE, 4096
  BitsPerByte,   \* BITS_PER_BYTE, 8
  AddrSpace,     \* 2^32, the first address a 32-bit pointer cannot hold
  KernelBase,    \* 0xC0000000, where boot.nasm maps physical address 0 again
  SystemAreas,   \* <<first frame, number of frames>>: (0,1) the NULL page, (0x9F,16)
                 \* the EBDA, (0xA0,32) the VGA memory, (0xC0,64) the BIOS ROM
  KernelStart,   \* kernel_physical_start (linker.ld)
  KernelEnd,     \* kernel_physical_end (linker.ld)
  KernelSlack    \* the 1 MB reserved behind the kernel

ASSUME SizesAssumption ==
  /\ PageSize \in Nat \ {0}
  /\ BitsPerByte \in Nat \ {0}
  /\ AddrSpace \in Nat \ {0}
  /\ KernelBase \in Nat

ASSUME LayoutAssumption ==
  /\ SystemAreas \in SUBSET (Nat \X Nat)
  /\ <<0, 1>> \in SystemAreas
  /\ KernelStart \in Nat
  /\ KernelEnd \in Nat
  /\ KernelSlack \in Nat
  /\ KernelStart <= KernelEnd

\* MULTIBOOT_MEMORY_AVAILABLE and every other region type.
Available == "available"
RegionType == {Available, "reserved"}

\* multiboot_info_t as far as the kernel reads it.  has_mmap is flag bit 6, mods is
\* empty when flag bit 3 is clear, cmdline when flag bit 2 is clear; mbi is the
\* physical address of the structure itself.
BootInfo ==
  [ has_mmap    : BOOLEAN,
    mmap        : SUBSET [type : RegionType, addr : Nat, len : Nat],
    mbi         : Nat,
    mmap_addr   : Nat,
    mmap_length : Nat,
    mods        : SUBSET [mod_start : Nat, mod_end : Nat],
    cmdline     : SUBSET Nat ]

\* vm_bitmap_t; vm_bitmap starts zeroed, the storage behind it (.bss) too.
VmBitmap ==
  [ bits          : SUBSET Nat,
    bitmap_size   : Nat,
    total_frames  : Nat,
    free_frames   : Nat,
    max_phys_addr : Nat ]

InitialVmBitmap ==
  [ bits |-> {}, bitmap_size |-> 0, total_frames |-> 0,
    free_frames |-> 0, max_phys_addr |-> 0 ]

FrameOf(addr) == addr \div PageSize

AvailableRegions(info) == {r \in info.mmap : r.type = Available}

-----------------------------------------------------------------------------
(* init_pfa and its steps.                                                 *)

\* The highest end of an available region, capped at 4 GB - 1; 0 without one.
find_usable_memory_bounds(info) ==
  LET cap(end) == IF end > AddrSpace - 1 THEN AddrSpace - 1 ELSE end
  IN  Max({0} \union {cap(r.addr + r.len) :
             r \in {q \in AvailableRegions(info) : q.addr < AddrSpace - 1}})

\* Stores max_phys_addr and total_frames, unless the boot loader gave no map.
get_max_usable_pages(vb, info) ==
  IF info.has_mmap
  THEN LET max == find_usable_memory_bounds(info)
       IN  [vb EXCEPT !.max_phys_addr = max, !.total_frames = FrameOf(max)]
  ELSE [vb EXCEPT !.total_frames = 0]

\* All bits of the bytes that hold total_frames bits are set.
pfa_init_bitmap(vb) ==
  LET size == CeilDiv(vb.total_frames, BitsPerByte)
  IN  [vb EXCEPT !.bitmap_size = size,
                 !.bits = bitmap_mark_range_used(@, 0, size * BitsPerByte)]

\* The frames freed for one region: its start is rounded down to a frame, its
\* length to a number of frames, and it is cut off at 4 GB.
RegionFrames(r) ==
  LET len == IF r.addr + r.len > AddrSpace THEN AddrSpace - r.addr ELSE r.len
  IN  Span(FrameOf(r.addr), FrameOf(len))

pfa_mark_usable_memory(vb, info) ==
  [vb EXCEPT !.bits =
     @ \ UNION {RegionFrames(r) :
                  r \in {q \in AvailableRegions(info) : q.addr < AddrSpace}}]

pfa_reserve_system_areas(vb) ==
  [vb EXCEPT !.bits = @ \union UNION {Span(a[1], a[2]) : a \in SystemAreas}]

\* Mutant of KernelFrames: the end is rounded down.
KernelFrames_EndRoundedDown ==
  FrameOf(KernelStart) .. FrameOf(KernelEnd + KernelSlack) - 1

KernelFrames ==
  FrameOf(KernelStart) .. CeilDiv(KernelEnd + KernelSlack, PageSize) - 1

pfa_reserve_kernel_memory(vb) ==
  [vb EXCEPT !.bits = @ \union KernelFrames]

\* Mutant of ModuleFrames: the frame a module ends in is left out.
ModuleFrames_EndRoundedDown(m) == FrameOf(m.mod_start) .. FrameOf(m.mod_end) - 1

ModuleFrames(m) == FrameOf(m.mod_start) .. CeilDiv(m.mod_end, PageSize) - 1

\* The structure itself is reserved by the frame number of its virtual address:
\* boot.nasm adds KernelBase to the pointer it passes to kernel_main.
pfa_reserve_multiboot_structures(vb, info) ==
  [vb EXCEPT !.bits =
     @ \union {FrameOf(KernelBase + info.mbi)}
       \union Span(FrameOf(info.mmap_addr), CeilDiv(info.mmap_length, PageSize))
       \union (UNION {ModuleFrames(m) : m \in info.mods})
       \union {FrameOf(c) : c \in info.cmdline}]

pfa_count_free_frames(vb) ==
  Cardinality({f \in 0 .. vb.total_frames - 1 : ~ bitmap_test(vb.bits, f)})

\* The whole of init_pfa: the early return leaves an allocator without a bitmap.
init_pfa(vb, info) ==
  LET sized    == get_max_usable_pages(vb, info)
      cleared  == pfa_mark_usable_memory(pfa_init_bitmap(sized), info)
      reserved == pfa_reserve_multiboot_structures(
                    pfa_reserve_kernel_memory(
                      pfa_reserve_system_areas(cleared)), info)
  IN  IF sized.total_frames = 0 THEN sized
      ELSE [reserved EXCEPT !.free_frames = pfa_count_free_frames(reserved)]

-----------------------------------------------------------------------------
(* pfa_alloc and pfa_free.                                                 *)

\* The bits pfa_alloc looks at: whole bytes, so up to 7 more than total_frames.
ScannedBits(vb) == Span(0, vb.bitmap_size * BitsPerByte)

FreeBits(vb) == {f \in ScannedBits(vb) : ~ bitmap_test(vb.bits, f)}

\* Mutant of pfa_alloc: out of memory is reported as -1.
pfa_alloc_MinusOne(vb) ==
  LET frames == {f \in FreeBits(vb) : f # 0 /\ f * PageSize < vb.max_phys_addr}
  IN  IF frames = {} THEN [vb |-> vb, addr |-> -1]
      ELSE [vb   |-> [vb EXCEPT !.bits = @ \union {Min(frames)}],
            addr |-> Min(frames) * PageSize]

\* Takes the lowest free bit.  Frame 0 is marked used and passed over; a frame at
\* or above max_phys_addr is marked used and reported as out of memory.
pfa_alloc(vb) ==
  LET zero   == FreeBits(vb) \intersect {0}
      others == FreeBits(vb) \ {0}
      frame  == Min(others)
  IN  IF others = {}
      THEN [vb |-> [vb EXCEPT !.bits = @ \union zero], addr |-> 0]
      ELSE [vb   |-> [vb EXCEPT !.bits = @ \union zero \union {frame}],
            addr |-> IF frame * PageSize >= vb.max_phys_addr THEN 0
                     ELSE frame * PageSize]

\* Mutant of pfa_free: releases the frame behind the freed one.
pfa_free_WrongFrame(vb, phys_addr) ==
  IF phys_addr = 0 \/ phys_addr >= vb.max_phys_addr THEN vb
  ELSE [vb EXCEPT !.bits = bitmap_clear(@, FrameOf(phys_addr) + 1)]

pfa_free(vb, phys_addr) ==
  IF phys_addr = 0 \/ phys_addr >= vb.max_phys_addr THEN vb
  ELSE [vb EXCEPT !.bits = bitmap_clear(@, FrameOf(phys_addr))]

\* The frames pfa_alloc can still return.
AllocatableFrames(vb) ==
  {f \in FreeBits(vb) : f # 0 /\ f * PageSize < vb.max_phys_addr}
=============================================================================
