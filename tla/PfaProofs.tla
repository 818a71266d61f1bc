----------------------------- MODULE PfaProofs -----------------------------
(***************************************************************************)
(* Theorems about the page frame allocator for every page size, memory     *)
(* map, reservation and sequence of calls.                                 *)
(***************************************************************************)
EXTENDS Pfa, PageFramesProofs

-----------------------------------------------------------------------------
(* Type correctness.                                                       *)

(***************************************************************************)
(* The globals and the arguments of the allocator stay in their types:     *)
(* every address and frame number pfa.h computes is a natural number.      *)
(***************************************************************************)
THEOREM TypeCorrect == Spec => []TypeOK
<1>1. Init => TypeOK
  <2>1. InitialVmBitmap \in VmBitmap
    BY DEF InitialVmBitmap, VmBitmap
  <2>2. Init => vm_bitmap \in VmBitmap /\ boot_info \in BootInfos
    BY <2>1 DEF Init
  <2>3. Init => booted \in BOOLEAN
    BY DEF Init
  <2>4. Init => held \in SUBSET Nat /\ ret \in Nat
    BY DEF Init
  <2> QED
    BY <2>2, <2>3, <2>4 DEF TypeOK
<1>2. TypeOK /\ [Next]_vars => TypeOK'
  <2> SUFFICES ASSUME TypeOK, [Next]_vars
               PROVE  TypeOK'
    OBVIOUS
  <2>1. CASE InitPfa
    <3>1. boot_info \in BootInfo
      BY BootAssumption DEF TypeOK
    <3>2. vm_bitmap' \in VmBitmap
      BY <2>1, <3>1, InitPfaType DEF InitPfa, TypeOK
    <3> QED
      BY <2>1, <3>2 DEF InitPfa, TypeOK
  <2>2. CASE PfaAlloc
    <3>1. pfa_alloc(vm_bitmap).vb \in VmBitmap
      BY AllocEffect DEF TypeOK
    <3>2. pfa_alloc(vm_bitmap).addr \in Nat
      <4>1. AllocatableFrames(vm_bitmap) \in SUBSET Nat
        BY ScannedType DEF TypeOK, AllocatableFrames, FreeBits
      <4>2. \A f \in AllocatableFrames(vm_bitmap) : f * PageSize \in Nat
        BY <4>1, TimesType, SizesAssumption
      <4> QED
        BY <4>2, AllocEffect DEF TypeOK
    <3>3. FrameOf(pfa_alloc(vm_bitmap).addr) \in Nat
      BY <3>2, FrameOfType
    <3> QED
      BY <2>2, <3>1, <3>2, <3>3 DEF PfaAlloc, TypeOK
  <2>3. ASSUME NEW frame \in held, PfaFree(frame)
        PROVE  TypeOK'
    <3>1. pfa_free(vm_bitmap, frame * PageSize) \in VmBitmap
      BY DEF TypeOK, pfa_free, bitmap_clear, VmBitmap
    <3> QED
      BY <2>3, <3>1 DEF PfaFree, TypeOK
  <2>4. CASE UNCHANGED vars
    BY <2>4 DEF vars, TypeOK
  <2> QED
    BY <2>1, <2>2, <2>3, <2>4 DEF Next
<1> QED
  BY <1>1, <1>2, PTL DEF Spec

-----------------------------------------------------------------------------
(* The frames of clients.                                                  *)

\* Before init_pfa there is no bitmap and no client.
BootInv == ~ booted => vm_bitmap = InitialVmBitmap /\ held = {}

\* A client's frame is one pfa_alloc looked at, it is marked used, and its address
\* is one that pfa_free accepts.
HeldInv ==
  \A f \in held :
    /\ f # 0
    /\ f \in ScannedBits(vm_bitmap)
    /\ f \in vm_bitmap.bits
    /\ f * PageSize < vm_bitmap.max_phys_addr

IInv == TypeOK /\ BootInv /\ HeldInv

LEMMA InitIInv == Init => BootInv /\ HeldInv
BY DEF Init, BootInv, HeldInv

\* What PfaAlloc does to the clients' frames and the allocatable ones.
LEMMA AllocStep ==
  ASSUME IInv, PfaAlloc
  PROVE  \/ /\ AllocatableFrames(vm_bitmap) = {}
            /\ AllocatableFrames(vm_bitmap') = {}
            /\ held' = held
            /\ ret' = 0
         \/ \E f \in AllocatableFrames(vm_bitmap) :
              /\ held' = held \union {f}
              /\ ret' = f * PageSize
              /\ f \in vm_bitmap'.bits
              /\ AllocatableFrames(vm_bitmap') = AllocatableFrames(vm_bitmap) \ {f}
<1> DEFINE r == pfa_alloc(vm_bitmap)
<1>1. /\ vm_bitmap' = r.vb
      /\ ret' = r.addr
      /\ held' = IF r.addr = 0 THEN held ELSE held \union {FrameOf(r.addr)}
  BY DEF PfaAlloc
<1>2. \/ /\ r.addr = 0
         /\ AllocatableFrames(vm_bitmap) = {}
         /\ AllocatableFrames(r.vb) = {}
      \/ \E f \in AllocatableFrames(vm_bitmap) :
           /\ r.addr = f * PageSize
           /\ f \in r.vb.bits
           /\ AllocatableFrames(r.vb) = AllocatableFrames(vm_bitmap) \ {f}
  BY AllocEffect DEF IInv, TypeOK
<1> HIDE DEF r
<1>3. ASSUME NEW f \in AllocatableFrames(vm_bitmap)
      PROVE  f * PageSize # 0 /\ FrameOf(f * PageSize) = f
  <2>1. f \in Nat /\ f # 0
    BY ScannedType DEF AllocatableFrames, FreeBits, IInv, TypeOK
  <2> QED
    BY <2>1, AddressNotZero, FrameOfFrame
<1> QED
  BY <1>1, <1>2, <1>3

LEMMA HeldInvStep == IInv /\ [Next]_vars => BootInv' /\ HeldInv'
<1> SUFFICES ASSUME IInv, [Next]_vars
             PROVE  BootInv' /\ HeldInv'
  OBVIOUS
<1>1. CASE InitPfa
  BY <1>1 DEF InitPfa, IInv, BootInv, HeldInv
<1>2. CASE PfaAlloc
  <2>1. /\ vm_bitmap'.bitmap_size = vm_bitmap.bitmap_size
        /\ vm_bitmap'.max_phys_addr = vm_bitmap.max_phys_addr
        /\ vm_bitmap.bits \subseteq vm_bitmap'.bits
    BY <1>2, AllocEffect DEF PfaAlloc, IInv, TypeOK
  <2>2. ScannedBits(vm_bitmap') = ScannedBits(vm_bitmap)
    BY <2>1 DEF ScannedBits
  <2>3. ASSUME NEW f \in held
        PROVE  /\ f # 0
               /\ f \in ScannedBits(vm_bitmap')
               /\ f \in vm_bitmap'.bits
               /\ f * PageSize < vm_bitmap'.max_phys_addr
    BY <2>1, <2>2 DEF IInv, HeldInv
  <2>4. ASSUME NEW f \in AllocatableFrames(vm_bitmap)
        PROVE  /\ f # 0
               /\ f \in ScannedBits(vm_bitmap')
               /\ f * PageSize < vm_bitmap'.max_phys_addr
    BY <2>1, <2>2 DEF AllocatableFrames, FreeBits
  <2>5. HeldInv'
    BY <1>2, <2>3, <2>4, AllocStep DEF HeldInv
  <2>6. BootInv'
    BY <1>2 DEF PfaAlloc, BootInv
  <2> QED
    BY <2>5, <2>6
<1>3. ASSUME NEW frame \in held, PfaFree(frame)
      PROVE  BootInv' /\ HeldInv'
  <2>1. vm_bitmap' = [vm_bitmap EXCEPT !.bits = @ \ {frame}]
    BY <1>3, FreeEffect DEF PfaFree, IInv, TypeOK, HeldInv
  <2>2. /\ vm_bitmap'.bits = vm_bitmap.bits \ {frame}
        /\ vm_bitmap'.bitmap_size = vm_bitmap.bitmap_size
        /\ vm_bitmap'.max_phys_addr = vm_bitmap.max_phys_addr
    BY <2>1 DEF IInv, TypeOK, VmBitmap
  <2>3. ScannedBits(vm_bitmap') = ScannedBits(vm_bitmap)
    BY <2>2 DEF ScannedBits
  <2>4. held' = held \ {frame} /\ booted /\ booted' = booted
    BY <1>3 DEF PfaFree
  <2> QED
    BY <2>2, <2>3, <2>4 DEF IInv, HeldInv, BootInv
<1>4. CASE UNCHANGED vars
  BY <1>4 DEF vars, IInv, BootInv, HeldInv
<1> QED
  BY <1>1, <1>2, <1>3, <1>4 DEF Next

THEOREM HeldInvariant == Spec => []IInv
<1>1. Spec => [](TypeOK)
  BY TypeCorrect
<1>2. TypeOK /\ BootInv /\ HeldInv /\ [Next]_vars => BootInv' /\ HeldInv'
  BY HeldInvStep DEF IInv
<1> QED
  BY <1>1, <1>2, InitIInv, PTL DEF Spec, IInv

-----------------------------------------------------------------------------
(* Refinement.                                                             *)

LEMMA InitRefines == Init => Abstract!Init
<1> SUFFICES ASSUME Init
             PROVE  Abstract!Init
  OBVIOUS
<1>1. AllocatableFrames(vm_bitmap) = {}
  BY SizesAssumption
     DEF Init, InitialVmBitmap, AllocatableFrames, FreeBits, ScannedBits, Span
<1>2. FrameOf(0) = 0
  BY SizesAssumption DEF FrameOf
<1> QED
  BY <1>1, <1>2 DEF Init, Abstract!Init

LEMMA StepRefines == IInv /\ IInv' /\ [Next]_vars => [Abstract!Next]_(Abstract!vars)
<1> SUFFICES ASSUME IInv, IInv', [Next]_vars
             PROVE  [Abstract!Next]_(Abstract!vars)
  OBVIOUS
<1>1. CASE InitPfa
  <2>1. vm_bitmap = InitialVmBitmap /\ held = {}
    BY <1>1 DEF InitPfa, IInv, BootInv
  <2>2. AllocatableFrames(vm_bitmap) = {}
    BY <2>1, SizesAssumption
       DEF InitialVmBitmap, AllocatableFrames, FreeBits, ScannedBits, Span
  <2>3. AllocatableFrames(vm_bitmap') \in SUBSET (Nat \ {0})
    BY ScannedType DEF IInv, TypeOK, AllocatableFrames, FreeBits
  <2>4. held' = held /\ ret' = ret
    BY <1>1 DEF InitPfa
  <2>5. Abstract!Fill
    BY <2>1, <2>2, <2>3, <2>4 DEF Abstract!Fill
  <2> QED
    BY <2>5 DEF Abstract!Next
<1>2. CASE PfaAlloc
  <2>1. CASE /\ AllocatableFrames(vm_bitmap) = {}
             /\ AllocatableFrames(vm_bitmap') = {}
             /\ held' = held
             /\ ret' = 0
    <3>1. FrameOf(0) = 0
      BY SizesAssumption DEF FrameOf
    <3>2. Abstract!Fail
      BY <2>1, <3>1 DEF Abstract!Fail
    <3> QED
      BY <3>2 DEF Abstract!Next
  <2>2. ASSUME NEW f \in AllocatableFrames(vm_bitmap),
               held' = held \union {f},
               ret' = f * PageSize,
               AllocatableFrames(vm_bitmap') = AllocatableFrames(vm_bitmap) \ {f}
        PROVE  Abstract!Alloc
    <3>1. f \in Nat
      BY ScannedType DEF AllocatableFrames, FreeBits, IInv, TypeOK
    <3>2. FrameOf(ret') = f
      BY <2>2, <3>1, FrameOfFrame
    <3> QED
      BY <2>2, <3>2 DEF Abstract!Alloc
  <2> QED
    BY <1>2, <2>1, <2>2, AllocStep DEF Abstract!Next
<1>3. ASSUME NEW frame \in held, PfaFree(frame)
      PROVE  Abstract!Free
  <2>1. AllocatableFrames(vm_bitmap') = AllocatableFrames(vm_bitmap) \union {frame}
    BY <1>3, FreeEffect DEF PfaFree, IInv, TypeOK, HeldInv
  <2>2. held' = held \ {frame} /\ ret' = ret
    BY <1>3 DEF PfaFree
  <2> QED
    BY <2>1, <2>2 DEF Abstract!Free
<1>4. CASE UNCHANGED vars
  BY <1>4 DEF vars, Abstract!vars
<1> QED
  BY <1>1, <1>2, <1>3, <1>4 DEF Next, Abstract!Next

(***************************************************************************)
(* pfa.h implements the abstract frame allocator, on every memory map:     *)
(* pfa_alloc gives out frames nobody owns and fails only when no frame can *)
(* be allocated, and pfa_free makes exactly the freed frame allocatable.   *)
(***************************************************************************)
THEOREM Refinement == Spec => ImplementsFrameAllocator
<1>1. Spec => []IInv
  BY HeldInvariant
<1>2. Init => Abstract!Init
  BY InitRefines
<1>3. IInv /\ IInv' /\ [Next]_vars => [Abstract!Next]_(Abstract!vars)
  BY StepRefines
<1> QED
  BY <1>1, <1>2, <1>3, PTL DEF Spec, ImplementsFrameAllocator, Abstract!Spec

-----------------------------------------------------------------------------
(* Protected frames.                                                       *)

\* Once reserved, a protected frame stays marked used; no client owns one.
ProtectedInv ==
  /\ booted => \/ ScannedBits(vm_bitmap) = {}
               \/ Protected(boot_info) \subseteq vm_bitmap.bits
  /\ Protected(boot_info) \intersect held = {}

\* The first byte of a range lies in the first frame it is rounded down to, the last
\* one before the frame it is rounded up to.
LEMMA TouchesInRange ==
  ASSUME NEW f \in Nat, NEW first \in Nat, NEW last \in Nat,
         Touches(f, first, last - first)
  PROVE  f \in FrameOf(first) .. CeilDiv(last, PageSize) - 1
<1>1. PageSize \in Nat /\ PageSize > 0
  BY SizesAssumption
<1>2. first < (f + 1) * PageSize /\ f * PageSize < last
  <2>1. f * PageSize \in Nat
    BY <1>1, TimesType
  <2> QED
    BY <2>1 DEF Touches
<1>3. FrameOf(first) <= f
  BY <1>1, <1>2 DEF FrameOf
<1>4. f + 1 <= (last + PageSize - 1) \div PageSize
  <2>1. (f + 1) * PageSize = f * PageSize + PageSize
    BY <1>1
  <2>2. (f + 1) * PageSize <= last + PageSize - 1
    BY <1>1, <1>2, <2>1, TimesType
  <2> QED
    BY <1>1, <2>2
<1>5. FrameOf(first) \in Nat /\ (last + PageSize - 1) \div PageSize \in Nat
  BY <1>1, FrameOfType, CeilDivType DEF CeilDiv
<1> QED
  BY <1>3, <1>4, <1>5 DEF CeilDiv

LEMMA ProtectedStep == IInv /\ ProtectedInv /\ [Next]_vars => ProtectedInv'
<1> SUFFICES ASSUME IInv, ProtectedInv, [Next]_vars
             PROVE  ProtectedInv'
  OBVIOUS
<1> HIDE DEF Protected
<1>1. CASE InitPfa
  <2>1. vm_bitmap = InitialVmBitmap /\ held = {}
    BY <1>1 DEF InitPfa, IInv, BootInv
  <2>2. boot_info \in BootInfo
    BY BootAssumption DEF IInv, TypeOK
  <2>3. /\ vm_bitmap' = init_pfa(InitialVmBitmap, boot_info)
        /\ boot_info' = boot_info /\ held' = held
    BY <1>1, <2>1 DEF InitPfa
  <2> QED
    BY <2>1, <2>2, <2>3, InitPfaProtects DEF ProtectedInv
<1>2. CASE PfaAlloc
  <2>1. /\ vm_bitmap'.bitmap_size = vm_bitmap.bitmap_size
        /\ vm_bitmap.bits \subseteq vm_bitmap'.bits
    BY <1>2, AllocEffect DEF PfaAlloc, IInv, TypeOK
  <2>2. ScannedBits(vm_bitmap') = ScannedBits(vm_bitmap)
    BY <2>1 DEF ScannedBits
  <2>3. booted /\ booted' = booted /\ boot_info' = boot_info
    BY <1>2 DEF PfaAlloc
  <2>4. ASSUME NEW f \in AllocatableFrames(vm_bitmap)
        PROVE  f \notin Protected(boot_info)
    BY <2>3 DEF AllocatableFrames, FreeBits, bitmap_test, ProtectedInv
  <2>5. Protected(boot_info) \intersect held' = {}
    BY <1>2, <2>4, AllocStep DEF ProtectedInv
  <2> QED
    BY <2>1, <2>2, <2>3, <2>5 DEF ProtectedInv
<1>3. ASSUME NEW frame \in held, PfaFree(frame)
      PROVE  ProtectedInv'
  <2>1. vm_bitmap' = [vm_bitmap EXCEPT !.bits = @ \ {frame}]
    BY <1>3, FreeEffect DEF PfaFree, IInv, TypeOK, HeldInv
  <2>2. /\ vm_bitmap'.bits = vm_bitmap.bits \ {frame}
        /\ vm_bitmap'.bitmap_size = vm_bitmap.bitmap_size
    BY <2>1 DEF IInv, TypeOK, VmBitmap
  <2>3. ScannedBits(vm_bitmap') = ScannedBits(vm_bitmap)
    BY <2>2 DEF ScannedBits
  <2>4. frame \notin Protected(boot_info)
    BY DEF ProtectedInv
  <2>5. /\ held' = held \ {frame} /\ boot_info' = boot_info
        /\ booted /\ booted' = booted
    BY <1>3 DEF PfaFree
  <2> QED
    BY <2>2, <2>3, <2>4, <2>5 DEF ProtectedInv
<1>4. CASE UNCHANGED vars
  BY <1>4 DEF vars, ProtectedInv
<1> QED
  BY <1>1, <1>2, <1>3, <1>4 DEF Next

LEMMA ProtectedImplies == IInv /\ ProtectedInv => ProtectedNeverHeld
<1> SUFFICES ASSUME IInv, ProtectedInv, NEW f \in held
             PROVE  /\ \A a \in SystemAreas : f \notin Span(a[1], a[2])
                    /\ ~ Touches(f, KernelStart, KernelEnd + KernelSlack - KernelStart)
                    /\ \A m \in boot_info.mods :
                         ~ Touches(f, m.mod_start, m.mod_end - m.mod_start)
                    /\ \A c \in boot_info.cmdline : ~ Touches(f, c, 1)
  BY DEF ProtectedNeverHeld
<1>1. f \in Nat /\ boot_info \in BootInfo
  BY BootAssumption DEF IInv, TypeOK
<1>2. f \notin Protected(boot_info)
  BY DEF ProtectedInv
<1>3. \A a \in SystemAreas : f \notin Span(a[1], a[2])
  BY <1>2 DEF Protected, SystemFrames
<1>4. ~ Touches(f, KernelStart, KernelEnd + KernelSlack - KernelStart)
  <2>1. f \notin KernelFrames
    BY <1>2 DEF Protected
  <2> DEFINE last == KernelEnd + KernelSlack
  <2>2. KernelStart \in Nat /\ last \in Nat
    BY LayoutAssumption
  <2>3. f \notin FrameOf(KernelStart) .. CeilDiv(last, PageSize) - 1
    BY <2>1 DEF KernelFrames
  <2>4. KernelEnd + KernelSlack - KernelStart = last - KernelStart
    BY LayoutAssumption
  <2> HIDE DEF last
  <2>5. ~ Touches(f, KernelStart, last - KernelStart)
    BY <1>1, <2>2, <2>3, TouchesInRange
  <2> QED
    BY <2>4, <2>5
<1>5. ASSUME NEW m \in boot_info.mods
      PROVE  ~ Touches(f, m.mod_start, m.mod_end - m.mod_start)
  <2>1. f \notin ModuleFrames(m)
    BY <1>2 DEF Protected, ModulesFrames
  <2>2. m.mod_start \in Nat /\ m.mod_end \in Nat
    BY <1>1 DEF BootInfo
  <2> QED
    BY <1>1, <2>1, <2>2, TouchesInRange DEF ModuleFrames
<1>6. ASSUME NEW c \in boot_info.cmdline
      PROVE  ~ Touches(f, c, 1)
  <2>1. f # FrameOf(c)
    BY <1>2 DEF Protected, CmdlineFrames
  <2>2. c \in Nat
    BY <1>1 DEF BootInfo
  <2>3. SUFFICES ASSUME c < (f + 1) * PageSize, f * PageSize < c + 1
                 PROVE  FALSE
    BY DEF Touches
  <2>4. f * PageSize \in Nat /\ f * PageSize <= c
    BY <1>1, <2>2, <2>3, TimesType, SizesAssumption
  <2>5. FrameOf(c) = f
    BY <1>1, <2>2, <2>3, <2>4, SizesAssumption DEF FrameOf
  <2> QED
    BY <2>1, <2>5
<1> QED
  BY <1>3, <1>4, <1>5, <1>6

(***************************************************************************)
(* On every memory map, no client ever owns a frame with a byte of the     *)
(* kernel, the space behind it or a module, a frame of a system area or    *)
(* the frame of the command line.                                          *)
(***************************************************************************)
THEOREM ProtectedFramesSafe == Spec => []ProtectedNeverHeld
<1>1. Spec => []IInv
  BY HeldInvariant
<1>2. Init => ProtectedInv
  BY DEF Init, ProtectedInv
<1>3. IInv /\ ProtectedInv /\ [Next]_vars => ProtectedInv'
  BY ProtectedStep
<1>4. IInv /\ ProtectedInv => ProtectedNeverHeld
  BY ProtectedImplies
<1> QED
  BY <1>1, <1>2, <1>3, <1>4, PTL DEF Spec

-----------------------------------------------------------------------------
(* Every frame is accounted for.                                           *)

\* Conversely, a frame of the rounded range has a byte of the range.
LEMMA RangeTouched ==
  ASSUME NEW f \in Nat, NEW first \in Nat, NEW last \in Nat
  PROVE  Touches(f, first, last - first)
           <=> f \in FrameOf(first) .. CeilDiv(last, PageSize) - 1
<1>1. PageSize \in Nat /\ PageSize > 0 /\ f * PageSize \in Nat
  BY SizesAssumption, TimesType
<1>2. (f + 1) * PageSize = f * PageSize + PageSize
  BY <1>1
<1>3. ASSUME f \in FrameOf(first) .. CeilDiv(last, PageSize) - 1
      PROVE  Touches(f, first, last - first)
  <2>1. first < (f + 1) * PageSize
    BY <1>1, <1>3 DEF FrameOf
  <2>2. f + 1 <= (last + PageSize - 1) \div PageSize
    BY <1>1, <1>3, CeilDivType DEF CeilDiv
  <2>3. (f + 1) * PageSize <= last + PageSize - 1
    BY <1>1, <2>2
  <2>4. f * PageSize < last
    BY <1>1, <1>2, <2>3
  <2> QED
    BY <1>1, <2>1, <2>4 DEF Touches
<1> QED
  BY <1>3, TouchesInRange

\* The command line is one byte as far as its frame goes.
LEMMA ByteTouched ==
  ASSUME NEW f \in Nat, NEW c \in Nat
  PROVE  Touches(f, c, 1) <=> f = FrameOf(c)
<1>1. PageSize \in Nat /\ PageSize > 0 /\ f * PageSize \in Nat
  BY SizesAssumption, TimesType
<1>2. (f + 1) * PageSize = f * PageSize + PageSize
  BY <1>1
<1>3. f * PageSize < c + 1 <=> f * PageSize <= c
  BY <1>1
<1>4. ASSUME c < (f + 1) * PageSize, f * PageSize <= c
      PROVE  f = FrameOf(c)
  BY <1>1, <1>2, <1>4 DEF FrameOf
<1>5. ASSUME f = FrameOf(c)
      PROVE  c < (f + 1) * PageSize /\ f * PageSize <= c
  BY <1>1, <1>5 DEF FrameOf
<1> QED
  BY <1>3, <1>4, <1>5 DEF Touches

\* The frames counted from the length of the memory map are the ones it touches.
LEMMA MapTouched ==
  ASSUME NEW f \in Nat, NEW a \in Nat, NEW len \in Nat,
         (a % PageSize) + len <= CeilDiv(len, PageSize) * PageSize
  PROVE  Touches(f, a, len) <=> f \in Span(FrameOf(a), CeilDiv(len, PageSize))
<1> DEFINE q == FrameOf(a)
           o == a % PageSize
           n == CeilDiv(len, PageSize)
<1>1. PageSize \in Nat /\ PageSize > 0 /\ f * PageSize \in Nat
  BY SizesAssumption, TimesType
<1>2. /\ q \in Nat /\ n \in Nat /\ o \in Nat /\ o < PageSize
      /\ q * PageSize \in Nat /\ n * PageSize \in Nat
      /\ a = q * PageSize + o
  BY <1>1, FrameOfType, CeilDivType, TimesType DEF FrameOf
<1>3. /\ (f + 1) * PageSize = f * PageSize + PageSize
      /\ (q + n) * PageSize = q * PageSize + n * PageSize
  BY <1>1, <1>2
<1>4. n * PageSize < len + PageSize
  BY <1>1 DEF CeilDiv
<1>5. o + len <= n * PageSize
  OBVIOUS
<1> HIDE DEF q, o, n
<1>6. ASSUME Touches(f, a, len)
      PROVE  q <= f /\ f < q + n
  <2>1. q * PageSize < (f + 1) * PageSize /\ f * PageSize < (q + n) * PageSize
    BY <1>1, <1>2, <1>3, <1>5, <1>6 DEF Touches
  <2>2. q <= f
    <3>1. SUFFICES ASSUME f + 1 <= q
                   PROVE  FALSE
      BY <1>2
    <3>2. (f + 1) * PageSize <= q * PageSize
      BY <1>1, <1>2, <3>1, TimesMonotonic
    <3> QED
      BY <1>1, <1>2, <1>3, <2>1, <3>2
  <2>3. f < q + n
    <3>1. SUFFICES ASSUME q + n <= f
                   PROVE  FALSE
      BY <1>2
    <3>2. (q + n) * PageSize <= f * PageSize
      BY <1>1, <1>2, <3>1, TimesMonotonic
    <3> QED
      BY <1>1, <1>2, <1>3, <2>1, <3>2
  <2> QED
    BY <2>2, <2>3
<1>7. ASSUME q <= f, f < q + n
      PROVE  Touches(f, a, len)
  <2>1. q * PageSize <= f * PageSize
    BY <1>1, <1>2, <1>7, TimesMonotonic
  <2>2. (f + 1) * PageSize <= (q + n) * PageSize
    <3>1. f + 1 <= q + n /\ f + 1 \in Nat /\ q + n \in Nat
      BY <1>2, <1>7
    <3> QED
      BY <1>1, <3>1, TimesMonotonic
  <2> QED
    BY <1>1, <1>2, <1>3, <1>4, <2>1, <2>2 DEF Touches
<1>8. Touches(f, a, len) <=> f \in Span(q, n)
  BY <1>2, <1>6, <1>7 DEF Span
<1> QED
  BY <1>8 DEF q, n

\* What pfa_mark_usable_memory frees for a region are the frames that lie in it.
LEMMA RegionFreed ==
  ASSUME NEW r, r.addr \in Nat, r.len \in Nat, r.addr % PageSize = 0, NEW f \in Nat
  PROVE  r.addr < AddrSpace /\ f \in RegionFrames(r) <=> InRegion(f, r)
<1> DEFINE q   == FrameOf(r.addr)
           len == IF r.addr + r.len > AddrSpace THEN AddrSpace - r.addr ELSE r.len
           n   == FrameOf(len)
<1>1. PageSize \in Nat /\ PageSize > 0 /\ AddrSpace \in Nat /\ f * PageSize \in Nat
  BY SizesAssumption, TimesType
<1>2. q \in Nat /\ q * PageSize \in Nat /\ r.addr = q * PageSize
  BY <1>1, FrameOfType, TimesType DEF FrameOf
<1>3. (f + 1) * PageSize = f * PageSize + PageSize
  BY <1>1
<1>4. InRegion(f, r) => r.addr < AddrSpace
  BY <1>1, <1>3 DEF InRegion
<1>5. ASSUME r.addr < AddrSpace
      PROVE  f \in RegionFrames(r) <=> InRegion(f, r)
  <2>1. /\ len \in Nat
        /\ InRegion(f, r) <=> r.addr <= f * PageSize /\ (f + 1) * PageSize <= r.addr + len
    BY <1>1, <1>3, <1>5 DEF InRegion
  <2>2. RegionFrames(r) = Span(q, n)
    BY DEF RegionFrames
  <2> HIDE DEF len, q
  <2>3. /\ n \in Nat /\ n * PageSize \in Nat
        /\ n * PageSize <= len /\ len < n * PageSize + PageSize
    BY <1>1, <2>1, FrameOfType, TimesType DEF FrameOf
  <2> HIDE DEF n
  <2>4. (q + n) * PageSize = q * PageSize + n * PageSize
    BY <1>1, <1>2, <2>3
  <2>5. q <= f <=> q * PageSize <= f * PageSize
    <3>1. q <= f => q * PageSize <= f * PageSize
      BY <1>1, <1>2, TimesMonotonic
    <3>2. f + 1 <= q => (f + 1) * PageSize <= q * PageSize
      BY <1>1, <1>2, TimesMonotonic
    <3> QED
      BY <1>1, <1>2, <1>3, <3>1, <3>2
  <2>6. f + 1 <= q + n <=> (f + 1) * PageSize <= q * PageSize + len
    <3>1. f + 1 \in Nat /\ q + n \in Nat
      BY <1>2, <2>3
    <3>2. f + 1 <= q + n => (f + 1) * PageSize <= (q + n) * PageSize
      BY <1>1, <3>1, TimesMonotonic
    <3>3. q + n <= f => (q + n) * PageSize <= f * PageSize
      BY <1>1, <3>1, TimesMonotonic
    <3>4. CASE f + 1 <= q + n
      BY <1>1, <1>2, <1>3, <2>1, <2>3, <2>4, <3>2, <3>4
    <3>5. CASE q + n <= f
      BY <1>1, <1>2, <1>3, <2>1, <2>3, <2>4, <3>1, <3>3, <3>5
    <3> QED
      BY <3>1, <3>4, <3>5
  <2>7. f \in Span(q, n) <=> q <= f /\ f + 1 <= q + n
    BY <1>2, <2>3 DEF Span
  <2> QED
    BY <1>2, <2>1, <2>2, <2>5, <2>6, <2>7
<1> QED
  BY <1>4, <1>5

\* A frame of the address space with a whole number of bytes of bitmap.
LEMMA LastFrame ==
  ASSUME NEW f \in Nat, (f + 1) * PageSize = AddrSpace
  PROVE  f < CeilDiv(f, BitsPerByte) * BitsPerByte
<1> DEFINE w == BitsPerByte * PageSize
           k == AddrSpace \div w
<1>1. /\ PageSize \in Nat /\ PageSize > 0 /\ AddrSpace \in Nat
      /\ BitsPerByte \in Nat /\ BitsPerByte > 1
  BY SizesAssumption, WholeBytesAssumption
<1>2. w \in Nat /\ w # 0
  BY <1>1
<1>3. k \in Nat /\ AddrSpace = k * w
  <2>1. AddrSpace % w = 0
    BY WholeBytesAssumption
  <2> HIDE DEF w
  <2> QED
    BY <1>1, <1>2, <2>1
<1> HIDE DEF k
<1>4. k * BitsPerByte \in Nat /\ AddrSpace = (k * BitsPerByte) * PageSize
  BY <1>1, <1>3, TimesType
<1>5. f + 1 = k * BitsPerByte
  <2>1. f + 1 \in Nat
    OBVIOUS
  <2>2. FrameOf((f + 1) * PageSize) = f + 1
    BY <2>1, FrameOfFrame
  <2>3. FrameOf((k * BitsPerByte) * PageSize) = k * BitsPerByte
    BY <1>4, FrameOfFrame
  <2> QED
    BY <1>4, <2>2, <2>3
<1>6. CeilDiv(f, BitsPerByte) = k
  <2>1. f + BitsPerByte - 1 = k * BitsPerByte + (BitsPerByte - 2)
    BY <1>1, <1>4, <1>5
  <2>2. (k * BitsPerByte + (BitsPerByte - 2)) \div BitsPerByte = k
    BY <1>1, <1>3
  <2> QED
    BY <2>1, <2>2 DEF CeilDiv
<1> QED
  BY <1>4, <1>5, <1>6

\* The frames of an available region lie below max_phys_addr and in the bitmap.
LEMMA RegionScanned ==
  ASSUME NEW info \in BootInfo, NEW r \in AvailableRegions(info), NEW f \in Nat,
         InRegion(f, r)
  PROVE  LET max == find_usable_memory_bounds(info)
         IN  /\ f * PageSize < max
             /\ f < CeilDiv(FrameOf(max), BitsPerByte) * BitsPerByte
<1> DEFINE max == find_usable_memory_bounds(info)
<1>1. /\ PageSize \in Nat /\ PageSize > 1 /\ f * PageSize \in Nat /\ AddrSpace \in Nat
      /\ BitsPerByte \in Nat /\ BitsPerByte > 0
  BY SizesAssumption, TimesType, WholeBytesAssumption
<1>2. (f + 1) * PageSize = f * PageSize + PageSize
  BY <1>1
<1>3. r.addr \in Nat /\ r.len \in Nat
  BY DEF AvailableRegions, BootInfo
<1>4. /\ r.addr <= f * PageSize
      /\ f * PageSize + PageSize <= r.addr + r.len
      /\ f * PageSize + PageSize <= AddrSpace
  BY <1>2 DEF InRegion
<1>5. r.addr < AddrSpace - 1
  BY <1>1, <1>3, <1>4
<1>6. max \in Nat /\ (r.addr + r.len <= max \/ AddrSpace - 1 <= max)
  BY <1>5, BoundsCover
<1> HIDE DEF max
<1>7. f * PageSize < max
  BY <1>1, <1>3, <1>4, <1>6
<1>8. FrameOf(max) \in Nat /\ FrameOf(max) <= CeilDiv(FrameOf(max), BitsPerByte) * BitsPerByte
  <2>1. FrameOf(max) \in Nat
    BY <1>6, FrameOfType
  <2> QED
    BY <1>1, <2>1 DEF CeilDiv
<1>9. CeilDiv(FrameOf(max), BitsPerByte) * BitsPerByte \in Nat
  BY <1>1, <1>8, CeilDivType, TimesType
<1>10. CASE f * PageSize + PageSize <= max
  <2>1. f + 1 <= FrameOf(max)
    BY <1>1, <1>2, <1>6, <1>10 DEF FrameOf
  <2> QED
    BY <1>7, <1>8, <1>9, <2>1 DEF max
<1>11. CASE max < f * PageSize + PageSize
  <2>1. (f + 1) * PageSize = AddrSpace /\ max = f * PageSize + (PageSize - 1)
    BY <1>1, <1>2, <1>3, <1>4, <1>6, <1>11
  <2>2. FrameOf(max) = f
    BY <1>1, <2>1 DEF FrameOf
  <2> QED
    BY <1>7, <2>1, <2>2, LastFrame DEF max
<1> QED
  BY <1>1, <1>6, <1>10, <1>11

\* The bitmap init_pfa leaves behind, if the boot loader passed a memory map.
MbiFrames(info) == {FrameOf(KernelBase + info.mbi)}
MapFrames(info) == Span(FrameOf(info.mmap_addr), CeilDiv(info.mmap_length, PageSize))

Freed(info) ==
  UNION {RegionFrames(r) : r \in {q \in AvailableRegions(info) : q.addr < AddrSpace}}

LEMMA InitPfaBits ==
  ASSUME NEW info \in BootInfo, init_pfa(InitialVmBitmap, info).total_frames # 0
  PROVE  LET vb  == init_pfa(InitialVmBitmap, info)
             max == find_usable_memory_bounds(info)
         IN  /\ vb.max_phys_addr = max
             /\ vb.bitmap_size = CeilDiv(FrameOf(max), BitsPerByte)
             /\ vb.bits = (ScannedBits(vb) \ Freed(info))
                             \union Protected(info) \union MbiFrames(info)
                             \union MapFrames(info)
<1> DEFINE max   == find_usable_memory_bounds(info)
           size  == CeilDiv(FrameOf(max), BitsPerByte)
           sized == get_max_usable_pages(InitialVmBitmap, info)
           o == pfa_init_bitmap(sized)
           a == pfa_mark_usable_memory(o, info)
           b == pfa_reserve_system_areas(a)
           c == pfa_reserve_kernel_memory(b)
           d == pfa_reserve_multiboot_structures(c, info)
           e == [d EXCEPT !.free_frames = pfa_count_free_frames(d)]
<1>1. InitialVmBitmap \in VmBitmap
  BY DEF InitialVmBitmap, VmBitmap
<1>2. sized \in VmBitmap
  BY <1>1, SizedType
<1>3. o \in VmBitmap /\ a \in VmBitmap /\ b \in VmBitmap /\ c \in VmBitmap /\ d \in VmBitmap
  BY <1>2, InitBitmapType, MarkUsableType, ReserveSystemType, ReserveKernelType,
     ReserveMultibootType
<1>4. init_pfa(InitialVmBitmap, info) = IF sized.total_frames = 0 THEN sized ELSE e
  BY DEF init_pfa
<1>5. sized.total_frames # 0
  BY <1>4
<1>6. /\ sized.max_phys_addr = max /\ sized.total_frames = FrameOf(max)
      /\ sized.bits = {}
  BY <1>5 DEF get_max_usable_pages, InitialVmBitmap
<1>7. /\ o.max_phys_addr = max /\ o.bitmap_size = size
      /\ o.bits = Span(0, size * BitsPerByte)
  <2> HIDE DEF sized
  <2> QED
    BY <1>2, <1>6 DEF pfa_init_bitmap, bitmap_mark_range_used, VmBitmap
<1>8. /\ a.max_phys_addr = max /\ a.bitmap_size = size
      /\ a.bits = o.bits \ Freed(info)
  <2> HIDE DEF o
  <2> QED
    BY <1>3, <1>7 DEF pfa_mark_usable_memory, Freed, VmBitmap
<1>9. /\ b.max_phys_addr = max /\ b.bitmap_size = size
      /\ b.bits = a.bits \union SystemFrames
  <2> HIDE DEF a
  <2> QED
    BY <1>3, <1>8 DEF pfa_reserve_system_areas, SystemFrames, VmBitmap
<1>10. /\ c.max_phys_addr = max /\ c.bitmap_size = size
       /\ c.bits = b.bits \union KernelFrames
  <2> HIDE DEF b
  <2> QED
    BY <1>3, <1>9 DEF pfa_reserve_kernel_memory, VmBitmap
<1>11. /\ d.max_phys_addr = max /\ d.bitmap_size = size
       /\ d.bits = c.bits \union MbiFrames(info) \union MapFrames(info)
                     \union ModulesFrames(info) \union CmdlineFrames(info)
  <2> HIDE DEF c
  <2> QED
    BY <1>3, <1>10 DEF pfa_reserve_multiboot_structures, MbiFrames, MapFrames,
                       ModulesFrames, CmdlineFrames, VmBitmap
<1> HIDE DEF sized, o, a, b, c, d
<1>12. e.max_phys_addr = max /\ e.bitmap_size = size /\ e.bits = d.bits
  BY <1>3, <1>11 DEF VmBitmap
<1> HIDE DEF e
<1>13. init_pfa(InitialVmBitmap, info) = e
  BY <1>4, <1>5
<1>14. e.bits = (ScannedBits(e) \ Freed(info)) \union Protected(info)
                  \union MbiFrames(info) \union MapFrames(info)
  BY <1>7, <1>8, <1>9, <1>10, <1>11, <1>12 DEF Protected, ScannedBits
<1> QED
  BY <1>12, <1>13, <1>14

\* The reservations of init_pfa are the frames its byte ranges touch.
LEMMA ReservedTouched ==
  ASSUME NEW info \in BootInfo, MapNotCut(info),
         NEW f \in 0 .. AddrSpace \div PageSize
  PROVE  f \in ReservedFrames(info) <=> f \in Protected(info) \union MapFrames(info)
<1>1. f \in Nat
  BY SizesAssumption, DivType
<1>2. f \in SystemFrames <=> \E a \in SystemAreas : f \in Span(a[1], a[2])
  BY DEF SystemFrames
<1>3. f \in KernelFrames <=> Touches(f, KernelStart, KernelEnd + KernelSlack - KernelStart)
  <2> DEFINE last == KernelEnd + KernelSlack
  <2>1. KernelStart \in Nat /\ last \in Nat
    BY LayoutAssumption
  <2>2. KernelEnd + KernelSlack - KernelStart = last - KernelStart
    BY LayoutAssumption
  <2>3. f \in KernelFrames <=> f \in FrameOf(KernelStart) .. CeilDiv(last, PageSize) - 1
    BY DEF KernelFrames
  <2> HIDE DEF last
  <2> QED
    BY <1>1, <2>1, <2>2, <2>3, RangeTouched
<1>4. f \in MapFrames(info) <=> Touches(f, info.mmap_addr, info.mmap_length)
  <2>1. info.mmap_addr \in Nat /\ info.mmap_length \in Nat
    BY DEF BootInfo
  <2> QED
    BY <1>1, <2>1, MapTouched DEF MapNotCut, MapFrames
<1>5. f \in ModulesFrames(info)
        <=> \E m \in info.mods : Touches(f, m.mod_start, m.mod_end - m.mod_start)
  <2>1. \A m \in info.mods : m.mod_start \in Nat /\ m.mod_end \in Nat
    BY DEF BootInfo
  <2>2. \A m \in info.mods :
          f \in ModuleFrames(m) <=> Touches(f, m.mod_start, m.mod_end - m.mod_start)
    BY <1>1, <2>1, RangeTouched DEF ModuleFrames
  <2> QED
    BY <2>2 DEF ModulesFrames
<1>6. f \in CmdlineFrames(info) <=> \E c \in info.cmdline : Touches(f, c, 1)
  <2>1. \A c \in info.cmdline : c \in Nat
    BY DEF BootInfo
  <2>2. \A c \in info.cmdline : f = FrameOf(c) <=> Touches(f, c, 1)
    BY <1>1, <2>1, ByteTouched
  <2> QED
    BY <2>2 DEF CmdlineFrames
<1>7. f \in ReservedFrames(info)
        <=> \/ \E a \in SystemAreas : f \in Span(a[1], a[2])
            \/ Touches(f, KernelStart, KernelEnd + KernelSlack - KernelStart)
            \/ Touches(f, info.mmap_addr, info.mmap_length)
            \/ \E m \in info.mods : Touches(f, m.mod_start, m.mod_end - m.mod_start)
            \/ \E c \in info.cmdline : Touches(f, c, 1)
  BY DEF ReservedFrames
<1> QED
  BY <1>2, <1>3, <1>4, <1>5, <1>6, <1>7 DEF Protected

\* After init_pfa the frames to allocate are the usable ones that are not reserved.
LEMMA InitAccounted ==
  ASSUME NEW info \in BootInfo, init_pfa(InitialVmBitmap, info).total_frames # 0,
         RegionsAligned(info), MapNotCut(info)
  PROVE  AllocatableFrames(init_pfa(InitialVmBitmap, info))
           = UsableFrames(info) \ (ReservedFrames(info) \union MbiFrames(info))
<1> DEFINE vb  == init_pfa(InitialVmBitmap, info)
           max == find_usable_memory_bounds(info)
           usable(f) == \E r \in AvailableRegions(info) : InRegion(f, r)
<1>1. /\ vb.max_phys_addr = max
      /\ vb.bitmap_size = CeilDiv(FrameOf(max), BitsPerByte)
      /\ vb.bits = (ScannedBits(vb) \ Freed(info)) \union Protected(info)
                      \union MbiFrames(info) \union MapFrames(info)
  BY InitPfaBits
<1>2. vb \in VmBitmap
  BY InitPfaType DEF InitialVmBitmap, VmBitmap
<1>3. ScannedBits(vb) \in SUBSET Nat
  BY <1>2, ScannedType
<1> HIDE DEF vb
<1>4. \A r \in AvailableRegions(info) :
        r.addr \in Nat /\ r.len \in Nat /\ r.addr % PageSize = 0
  BY DEF AvailableRegions, BootInfo, RegionsAligned
<1>5. ASSUME NEW f \in Nat
      PROVE  f \in Freed(info) <=> usable(f)
  <2>1. \A r \in AvailableRegions(info) :
          r.addr < AddrSpace /\ f \in RegionFrames(r) <=> InRegion(f, r)
    BY <1>4, RegionFreed
  <2> QED
    BY <2>1 DEF Freed
<1>6. ASSUME NEW f \in Nat, usable(f)
      PROVE  /\ f * PageSize < max /\ f \in ScannedBits(vb)
             /\ f \in 0 .. AddrSpace \div PageSize
  <2>1. PICK r \in AvailableRegions(info) : InRegion(f, r)
    BY <1>6
  <2>2. f * PageSize < max /\ f < vb.bitmap_size * BitsPerByte
    BY <1>1, <2>1, RegionScanned
  <2>3. vb.bitmap_size * BitsPerByte \in Nat
    BY <1>2, SizesAssumption, TimesType DEF VmBitmap
  <2>4. (f + 1) * PageSize <= AddrSpace
    BY <2>1 DEF InRegion
  <2>5. f + 1 <= AddrSpace \div PageSize
    BY <2>4, SizesAssumption
  <2>6. f \in 0 .. AddrSpace \div PageSize
    BY <2>5, SizesAssumption, DivType
  <2> QED
    BY <2>2, <2>3, <2>6 DEF ScannedBits, Span
<1>7. 0 \in Protected(info)
  <2>1. <<0, 1>> \in SystemAreas /\ 0 \in Span(0, 1)
    BY LayoutAssumption DEF Span
  <2> QED
    BY <2>1 DEF Protected, SystemFrames
<1>8. ASSUME NEW f \in Nat
      PROVE  f \in AllocatableFrames(vb)
               <=> usable(f) /\ f \notin Protected(info) \union MbiFrames(info)
                                           \union MapFrames(info)
  <2>1. f \in FreeBits(vb)
          <=> /\ f \in ScannedBits(vb) /\ f \in Freed(info)
              /\ f \notin Protected(info) \union MbiFrames(info) \union MapFrames(info)
    BY <1>1 DEF FreeBits, bitmap_test
  <2> QED
    BY <1>1, <1>5, <1>6, <1>7, <2>1 DEF AllocatableFrames
<1>9. ASSUME NEW f \in Nat
      PROVE  f \in UsableFrames(info) <=> usable(f)
  BY <1>6 DEF UsableFrames
<1>10. AllocatableFrames(vb) \subseteq Nat /\ UsableFrames(info) \subseteq Nat
  BY <1>3, SizesAssumption, DivType DEF AllocatableFrames, FreeBits, UsableFrames
<1>11. \A f \in UsableFrames(info) :
         f \in ReservedFrames(info) <=> f \in Protected(info) \union MapFrames(info)
  BY ReservedTouched DEF UsableFrames
<1>12. \A f \in Nat : f \in AllocatableFrames(vb)
                        <=> f \in UsableFrames(info)
                                    \ (ReservedFrames(info) \union MbiFrames(info))
  BY <1>8, <1>9, <1>11
<1> QED
  BY <1>10, <1>12 DEF vb

\* The same of all frames, as the code counts them: what is reserved for the multiboot
\* structure is the frame of its virtual address.
AccountedInv ==
  booted /\ vm_bitmap.total_frames > 0 /\ RegionsAligned(boot_info)
    /\ MapNotCut(boot_info) =>
    /\ held \intersect AllocatableFrames(vm_bitmap) = {}
    /\ held \union AllocatableFrames(vm_bitmap)
         = UsableFrames(boot_info) \ (ReservedFrames(boot_info) \union MbiFrames(boot_info))

LEMMA AccountedStep == IInv /\ AccountedInv /\ [Next]_vars => AccountedInv'
<1> SUFFICES ASSUME IInv, AccountedInv, [Next]_vars,
                    booted', vm_bitmap'.total_frames > 0,
                    RegionsAligned(boot_info'), MapNotCut(boot_info')
             PROVE  /\ held' \intersect AllocatableFrames(vm_bitmap') = {}
                    /\ held' \union AllocatableFrames(vm_bitmap')
                         = UsableFrames(boot_info')
                             \ (ReservedFrames(boot_info') \union MbiFrames(boot_info'))
  BY DEF AccountedInv
<1>1. CASE InitPfa
  <2>1. vm_bitmap = InitialVmBitmap /\ held = {}
    BY <1>1 DEF InitPfa, IInv, BootInv
  <2>2. boot_info \in BootInfo
    BY BootAssumption DEF IInv, TypeOK
  <2>3. /\ vm_bitmap' = init_pfa(InitialVmBitmap, boot_info)
        /\ boot_info' = boot_info /\ held' = {}
    BY <1>1, <2>1 DEF InitPfa
  <2>4. init_pfa(InitialVmBitmap, boot_info).total_frames # 0
    BY <2>3
  <2> QED
    BY <2>2, <2>3, <2>4, InitAccounted
<1>2. ASSUME booted, boot_info' = boot_info,
             vm_bitmap'.total_frames = vm_bitmap.total_frames
      PROVE  /\ held \intersect AllocatableFrames(vm_bitmap) = {}
             /\ held \union AllocatableFrames(vm_bitmap)
                  = UsableFrames(boot_info')
                      \ (ReservedFrames(boot_info') \union MbiFrames(boot_info'))
  BY <1>2 DEF AccountedInv
<1>3. CASE PfaAlloc
  <2>1. booted /\ boot_info' = boot_info
        /\ vm_bitmap'.total_frames = vm_bitmap.total_frames
    BY <1>3, AllocEffect DEF PfaAlloc, IInv, TypeOK
  <2> QED
    BY <1>2, <1>3, <2>1, AllocStep
<1>4. ASSUME NEW frame \in held, PfaFree(frame)
      PROVE  /\ held' \intersect AllocatableFrames(vm_bitmap') = {}
             /\ held' \union AllocatableFrames(vm_bitmap')
                  = UsableFrames(boot_info')
                      \ (ReservedFrames(boot_info') \union MbiFrames(boot_info'))
  <2>1. /\ vm_bitmap' = [vm_bitmap EXCEPT !.bits = @ \ {frame}]
        /\ AllocatableFrames(vm_bitmap') = AllocatableFrames(vm_bitmap) \union {frame}
    BY <1>4, FreeEffect DEF PfaFree, IInv, TypeOK, HeldInv
  <2>2. vm_bitmap'.total_frames = vm_bitmap.total_frames
    BY <2>1 DEF IInv, TypeOK, VmBitmap
  <2>3. booted /\ boot_info' = boot_info /\ held' = held \ {frame}
    BY <1>4 DEF PfaFree
  <2> QED
    BY <1>2, <2>1, <2>2, <2>3
<1>5. CASE UNCHANGED vars
  BY <1>2, <1>5 DEF vars
<1> QED
  BY <1>1, <1>3, <1>4, <1>5 DEF Next

(***************************************************************************)
(* On every machine, memory map and sequence of calls: the clients' frames *)
(* and the ones pfa_alloc can still return are disjoint and, the frame of  *)
(* the multiboot structure and the one reserved in its place aside,        *)
(* together the usable frames of the memory map that are not reserved.     *)
(***************************************************************************)
THEOREM AllFramesAccounted == Spec => []FramesAccounted
<1>1. Spec => []IInv
  BY HeldInvariant
<1>2. Init => AccountedInv
  BY DEF Init, AccountedInv
<1>3. IInv /\ AccountedInv /\ [Next]_vars => AccountedInv'
  BY AccountedStep
<1>4. AccountedInv => FramesAccounted
  <2>1. MbiFrames(boot_info) \subseteq StructureFrames(boot_info)
    BY DEF MbiFrames, StructureFrames
  <2> QED
    BY <2>1 DEF AccountedInv, FramesAccounted
<1> QED
  BY <1>1, <1>2, <1>3, <1>4, PTL DEF Spec
=============================================================================
