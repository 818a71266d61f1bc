------------------------------- MODULE MCPfa -------------------------------
(***************************************************************************)
(* A machine of 16 frames of 4 bytes: the NULL page in frame 0, low memory *)
(* in frame 1, EBDA, VGA and ROM in frames 2 and 3, the kernel and the     *)
(* space behind it in frames 4 and 5, upper memory from there on.          *)
(***************************************************************************)
EXTENDS Pfa

MCSystemAreas == {<<0, 1>>, <<2, 2>>, <<3, 1>>}

Region(type, addr, len) == [type |-> type, addr |-> addr, len |-> len]

\* Low memory that ends in the middle of a frame, like 0x9FC00 on a PC.
LowMemory == Region(Available, 0, 10)

\* The memory maps: a small machine, one whose upper memory ends in the middle of
\* a frame, and one with memory up to and beyond the end of the address space.
AlignedMaps ==
  { {LowMemory, Region("reserved", 10, 6), Region(Available, 16, 24)},
    {LowMemory, Region(Available, 16, 30), Region("reserved", 48, 16)},
    {LowMemory, Region(Available, 16, 20), Region(Available, 44, 30),
     Region(Available, 72, 12)} }

Boot(map, mmap_addr, mods, cmdline) ==
  [ has_mmap |-> TRUE, mmap |-> map, mbi |-> 4, mmap_addr |-> mmap_addr,
    mmap_length |-> 3, mods |-> mods, cmdline |-> cmdline ]

\* Without and with boot modules (one of them in two frames) and command line.
AlignedBootInfos ==
  {Boot(map, mmap_addr, mods, cmdline) :
     map       \in AlignedMaps,
     mmap_addr \in {5, 24},
     mods      \in {{}, {[mod_start |-> 24, mod_end |-> 25],
                         [mod_start |-> 28, mod_end |-> 33]}},
     cmdline   \in {{}, {47}}}
  \union
  {[Boot({}, 5, {}, {}) EXCEPT !.has_mmap = FALSE],
   Boot({Region("reserved", 0, 64)}, 5, {}, {})}

\* Regions that start anywhere, overlap the reserved ones and each other, and a
\* memory map across the boundary of two frames.
AnyMapBootInfos ==
  {Boot({Region(Available, a, 18), Region("reserved", 18, 9), Region(Available, b, 17)},
        6, mods, cmdline) :
     a       \in {3, 13},
     b       \in {22, 26},
     mods    \in {{}, {[mod_start |-> 26, mod_end |-> 33]}},
     cmdline \in {{}, {39}}}

MCBootInfos == AlignedBootInfos \union AnyMapBootInfos
=============================================================================
