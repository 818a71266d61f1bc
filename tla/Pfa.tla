-------------------------------- MODULE Pfa --------------------------------
(***************************************************************************)
(* The page frame allocator at work: init_pfa on one of the boot loader's  *)
(* memory maps, then any sequence of pfa_alloc and pfa_free calls by       *)
(* clients that free only frames they own.                                 *)
(***************************************************************************)
EXTENDS PageFrames

CONSTANT BootInfos   \* the multiboot structures the boot loader may pass

ASSUME BootAssumption == BootInfos \in SUBSET BootInfo

\* 2^32 is a multiple of 8 * 4096: the bitmap of all frames fills whole bytes.
ASSUME WholeBytesAssumption ==
  /\ PageSize > 1 /\ BitsPerByte > 1
  /\ AddrSpace % (BitsPerByte * PageSize) = 0

VARIABLES
  vm_bitmap,   \* the global of pfa.h
  boot_info,   \* the structure kernel_main was called with
  booted,      \* init_pfa has returned
  held,        \* history: the frames clients own
  ret          \* what the last pfa_alloc returned, 0 if it failed

vars == <<vm_bitmap, boot_info, booted, held, ret>>

TypeOK ==
  /\ vm_bitmap \in VmBitmap
  /\ boot_info \in BootInfos
  /\ booted \in BOOLEAN
  /\ held \in SUBSET Nat
  /\ ret \in Nat

Init ==
  /\ vm_bitmap = InitialVmBitmap
  /\ boot_info \in BootInfos
  /\ booted = FALSE
  /\ held = {}
  /\ ret = 0

InitPfa ==
  /\ ~ booted
  /\ vm_bitmap' = init_pfa(vm_bitmap, boot_info)
  /\ booted' = TRUE
  /\ UNCHANGED <<boot_info, held, ret>>

PfaAlloc ==
  /\ booted
  /\ LET r == pfa_alloc(vm_bitmap)
     IN  /\ vm_bitmap' = r.vb
         /\ ret' = r.addr
         /\ held' = IF r.addr = 0 THEN held ELSE held \union {FrameOf(r.addr)}
  /\ UNCHANGED <<boot_info, booted>>

PfaFree(frame) ==
  /\ booted
  /\ vm_bitmap' = pfa_free(vm_bitmap, frame * PageSize)
  /\ held' = held \ {frame}
  /\ UNCHANGED <<boot_info, booted, ret>>

Next == InitPfa \/ PfaAlloc \/ \E frame \in held : PfaFree(frame)

Spec == Init /\ [][Next]_vars

-----------------------------------------------------------------------------
(* What the memory map and the reservations of init_pfa mean, frame by     *)
(* frame and without rounding tricks.                                      *)

\* Every byte of the frame is in the region and below 4 GB.
InRegion(f, r) ==
  /\ r.addr <= f * PageSize
  /\ (f + 1) * PageSize <= r.addr + r.len
  /\ (f + 1) * PageSize <= AddrSpace

UsableFrames(info) ==
  {f \in 0 .. AddrSpace \div PageSize : \E r \in AvailableRegions(info) : InRegion(f, r)}

RegionsAligned(info) == \A r \in AvailableRegions(info) : r.addr % PageSize = 0

\* The memory map is not cut by one frame boundary more than its length needs:
\* pfa_reserve_multiboot_structures counts its frames from its length alone.
MapNotCut(info) ==
  (info.mmap_addr % PageSize) + info.mmap_length
    <= CeilDiv(info.mmap_length, PageSize) * PageSize

\* Some byte of addr .. addr + len - 1 is in the frame.
Touches(f, addr, len) == addr < (f + 1) * PageSize /\ f * PageSize < addr + len

\* The frames that step 3 to step 5 of init_pfa protect, byte ranges taken
\* literally, but for the multiboot structure (StructureFrames).
ReservedFrames(info) ==
  {f \in 0 .. AddrSpace \div PageSize :
     \/ \E a \in SystemAreas : f \in Span(a[1], a[2])
     \/ Touches(f, KernelStart, KernelEnd + KernelSlack - KernelStart)
     \/ Touches(f, info.mmap_addr, info.mmap_length)
     \/ \E m \in info.mods : Touches(f, m.mod_start, m.mod_end - m.mod_start)
     \/ \E c \in info.cmdline : Touches(f, c, 1)}

\* The frame the multiboot structure lies in and the one reserved for it, which its
\* virtual address gives.
StructureFrames(info) == {FrameOf(info.mbi), FrameOf(KernelBase + info.mbi)}

(***************************************************************************)
(* No frame is lost and none is invented: whenever the available regions   *)
(* start at frames and the memory map itself is not cut by an extra frame  *)
(* boundary, at every moment after boot the frames clients own and the     *)
(* frames pfa_alloc can still return are disjoint, and together they are   *)
(* exactly the usable frames of the memory map that no reservation covers. *)
(* Hence neither the rounding of regions and the cut at 4 GB in            *)
(* pfa_mark_usable_memory, nor the order of the reservations, nor the      *)
(* out-of-memory paths of pfa_alloc leak a frame or hand out a kernel,     *)
(* BIOS, VGA or module frame.  Nothing is said of the frame of the         *)
(* multiboot structure and the one reserved in its place                   *)
(* (MultibootInfoReserved).                                                *)
(***************************************************************************)
FramesAccounted ==
  booted /\ vm_bitmap.total_frames > 0 /\ RegionsAligned(boot_info)
    /\ MapNotCut(boot_info) =>
    /\ held \intersect AllocatableFrames(vm_bitmap) = {}
    /\ (held \union AllocatableFrames(vm_bitmap)) \ StructureFrames(boot_info)
         = UsableFrames(boot_info)
             \ (ReservedFrames(boot_info) \union StructureFrames(boot_info))

(***************************************************************************)
(* "Reserve the multiboot info structure itself" (pfa.h:136): no client    *)
(* owns the frame the structure lies in.                                   *)
(***************************************************************************)
MultibootInfoReserved == FrameOf(boot_info.mbi) \notin held

(***************************************************************************)
(* The allocator implements the abstract one: pfa_alloc returns a frame    *)
(* nobody owns, or 0 only if no frame can be allocated (the bits it sets   *)
(* on its failure paths are never bits of allocatable frames), and         *)
(* pfa_free makes exactly the freed frame allocatable again.               *)
(***************************************************************************)
Abstract == INSTANCE FrameAllocator
              WITH Frame   <- Nat,
                   NoFrame <- 0,
                   pool    <- AllocatableFrames(vm_bitmap),
                   held    <- held,
                   answer  <- FrameOf(ret)

ImplementsFrameAllocator == Abstract!Spec

(***************************************************************************)
(* On every memory map, however its regions are cut and overlap, no client *)
(* owns a frame with a byte of the kernel, of the space behind it or of a  *)
(* module, a frame of a system area or the frame of the command line: the  *)
(* bytes are turned into frames by rounding the start down and the end up, *)
(* and what is reserved after the regions were freed stays reserved.       *)
(***************************************************************************)
ProtectedNeverHeld ==
  \A f \in held :
    /\ \A a \in SystemAreas : f \notin Span(a[1], a[2])
    /\ ~ Touches(f, KernelStart, KernelEnd + KernelSlack - KernelStart)
    /\ \A m \in boot_info.mods : ~ Touches(f, m.mod_start, m.mod_end - m.mod_start)
    /\ \A c \in boot_info.cmdline : ~ Touches(f, c, 1)
=============================================================================
