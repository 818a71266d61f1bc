--------------------------- MODULE RangeAllocator ---------------------------
(***************************************************************************)
(* What an allocator of ranges of pages promises, without bitmap, frames   *)
(* and page tables: a page is free or in one held range, a range is taken  *)
(* and given back as a whole, and a call that fails, at whatever point,    *)
(* leaves the pages as they were.                                          *)
(***************************************************************************)
EXTENDS Integers

CONSTANTS Page,    \* the pages there are
          NoPage   \* the answer of a failed allocation

VARIABLES free,    \* pages that can be allocated
          held,    \* the ranges clients own
          answer   \* the first page of the last allocation

vars == <<free, held, answer>>

Init == free \in SUBSET Page /\ held = {} /\ answer = NoPage

Alloc ==
  \E first \in free \ {NoPage} :
    /\ answer' = first
    /\ \E last \in free :
         /\ first <= last
         /\ first .. last \subseteq free
         /\ held' = held \union {first .. last}
         /\ free' = free \ (first .. last)

\* A request for no pages succeeds anywhere.
AllocNothing ==
  /\ answer' \in Page \ {NoPage}
  /\ UNCHANGED <<free, held>>

Fail ==
  /\ answer' = NoPage
  /\ UNCHANGED <<free, held>>

Free ==
  \E range \in held :
    /\ held' = held \ {range}
    /\ free' = free \union range
    /\ UNCHANGED answer

Next == Alloc \/ AllocNothing \/ Fail \/ Free
=============================================================================
