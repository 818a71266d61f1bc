------------------------------- MODULE MCVma -------------------------------
(***************************************************************************)
(* A machine with directories and tables of 7 entries and frames of 7      *)
(* bytes: the kernel's mapping is directory entry 4, entry 5 is free, 6 is *)
(* the recursive slot.  The kernel, with its directory and its page table, *)
(* is in frames 2 and 3, as many frames as fit are RAM, and the bits of    *)
(* kernel_vm_bitmap that stand for the kernel's pages are in frame 1.      *)
(***************************************************************************)
EXTENDS Vma

MCSystemAreas == {<<0, 1>>}

Region(type, addr, len) == [type |-> type, addr |-> addr, len |-> len]

Boot(map) ==
  [ has_mmap |-> TRUE, mmap |-> map, mbi |-> 7, mmap_addr |-> 3,
    mmap_length |-> 3, mods |-> {}, cmdline |-> {} ]

\* Upper memory only, with an incomplete frame at its end.
UpperMemory == Boot({Region("reserved", 0, 14), Region(Available, 14, 63)})

\* The low memory under the kernel is RAM too, as it is on a PC.
LowMemory == Boot({Region(Available, 0, 14), Region(Available, 14, 49)})

\* Five frames behind the kernel.
LittleMemory == Boot({Region(Available, 14, 45)})

\* A boot loader that passes no memory map.
NoMap == [Boot({}) EXCEPT !.has_mmap = FALSE]

MCBootInfos == {LittleMemory, LowMemory, NoMap}
LowMemoryBootInfos == {LowMemory}
UpperBootInfos == {UpperMemory}

\* Memory the boot loader left clear, and a used page inside the kernel's range.
MCLeftovers == {{}, {30, 44}}
NoLeftovers == {{}}

\* One page; several; two with a hint at the free directory entry; one with a hint
\* at the recursive slot; nothing; two behind the last but one page, which never fit.
MCRequests ==
  {<<1, 0>>, <<20, 0>>, <<8, 245>>, <<7, 294>>, <<0, 0>>, <<8, 336>>}
SmallRequests == {<<1, 0>>, <<20, 0>>, <<8, 245>>}
OneTableRequests == {<<1, 245>>, <<8, 245>>}
=============================================================================
