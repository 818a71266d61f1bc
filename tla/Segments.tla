------------------------------ MODULE Segments ------------------------------
(***************************************************************************)
(* The segment descriptors of memory/gdt.h: how init_gdt builds the table, *)
(* and how the CPU reads it.                                               *)
(*                                                                         *)
(* A descriptor scatters a base of eight nibbles and a limit of five over  *)
(* fields of bytes and half words; Nibble, 16 in the machine, is how many  *)
(* values one has.  Access bytes and flags are named, not numbered.  What  *)
(* write_tss puts into the task segment is left out: without user programs *)
(* the CPU never reads it.                                                 *)
(***************************************************************************)
EXTENDS Integers

CONSTANTS
  Nibble,    \* 16
  TssBase,   \* the address of tss_entry
  TssSize    \* 104, its size

Octet == Nibble * Nibble
HalfWord == Octet * Octet
Word == HalfWord * HalfWord

ASSUME SegmentsAssumption ==
  /\ Nibble \in Nat \ {0, 1}
  /\ TssBase \in 0 .. Word - 1 /\ TssSize \in Nat

\* Mutant of gdt_set_entry: the limit is cut to 16 bits before it is shifted.
gdt_set_entry_LimitCut(base, limit, access, gran) ==
  [ base_low  |-> base % HalfWord,
    base_mid  |-> (base \div HalfWord) % Octet,
    base_high |-> (base \div (HalfWord * Octet)) % Octet,
    limit_low |-> limit % HalfWord,
    granularity |-> [limit |-> 0, flags |-> gran],
    access    |-> access ]

gdt_set_entry(base, limit, access, gran) ==
  [ base_low  |-> base % HalfWord,
    base_mid  |-> (base \div HalfWord) % Octet,
    base_high |-> (base \div (HalfWord * Octet)) % Octet,
    limit_low |-> limit % HalfWord,
    granularity |-> [limit |-> (limit \div HalfWord) % Nibble, flags |-> gran],
    access    |-> access ]

\* The limit passed is the end of the task segment, in 32 bits.
write_tss ==
  gdt_set_entry(TssBase, (TssBase + TssSize) % Word, "task", "bytes")

\* The table by its indices.
init_gdt ==
  [ index \in 0 .. 5 |->
      CASE index = 0 -> gdt_set_entry(0, 0, "none", "bytes")
        [] index = 1 -> gdt_set_entry(0, Word - 1, "kernel_code", "pages")
        [] index = 2 -> gdt_set_entry(0, Word - 1, "kernel_data", "pages")
        [] index = 3 -> gdt_set_entry(0, Word - 1, "user_code", "pages")
        [] index = 4 -> gdt_set_entry(0, Word - 1, "user_data", "pages")
        [] index = 5 -> write_tss ]

-----------------------------------------------------------------------------
(* The CPU.                                                                *)

Base(d) == d.base_low + HalfWord * (d.base_mid + Octet * d.base_high)

Limit(d) == d.limit_low + HalfWord * d.granularity.limit

\* The descriptor a selector names, whose two lowest bits are a privilege level.
Selected(table, selector) == table[selector \div 8]

\* All of the address space, at the kernel's privilege level.
IsFlat(table, selector, access) ==
  /\ selector \div 8 \in DOMAIN table /\ selector % 8 = 0
  /\ LET d == Selected(table, selector)
     IN  /\ d.access = access
         /\ Base(d) = 0
         /\ Limit(d) = HalfWord * Nibble - 1 /\ d.granularity.flags = "pages"
=============================================================================
