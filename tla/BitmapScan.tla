----------------------------- MODULE BitmapScan -----------------------------
(***************************************************************************)
(* bitmap_find_free_range of util/bitmap.h step by step, on a bitmap that  *)
(* its callers fill and empty in ranges.  The loop counts the free bits    *)
(* from i, returns i when there are enough, and otherwise jumps behind the *)
(* bit that ended the run: the jump is an increment of i inside a loop     *)
(* that increments i itself.                                               *)
(***************************************************************************)
EXTENDS Bitmap

CONSTANT TotalPages   \* BITMAP_SIZE, 2^20 pages in the code

ASSUME TotalPagesAssumption == TotalPages \in Nat \ {0}

VARIABLES
  bits,         \* the bitmap being searched
  search,       \* "idle", or where the search is: "outer", "inner", "done"
  num_pages,    \* the argument of the call: the length asked for
  start_page,   \* the page its hint leads to
  i,            \* the variable of the outer loop
  free_count,   \* the free bits counted from i on; j of the inner loop is their sum
  found         \* the value returned

bitmap_vars == <<bits, search, num_pages, start_page, i, free_count, found>>

Pages == 0 .. TotalPages - 1

\* No call: its arguments and variables do not exist.
NoSearch ==
  /\ search = "idle"
  /\ num_pages = 0 /\ start_page = 0 /\ i = 0 /\ free_count = 0 /\ found = 0

BitmapInit == bits = {} /\ NoSearch

-----------------------------------------------------------------------------
\* The callers of the primitives; nothing runs while a search does.

Unsearched ==
  search = "idle" /\ UNCHANGED <<search, num_pages, start_page, i, free_count, found>>

MarkUsed(first, count) ==
  /\ Unsearched
  /\ first + count <= TotalPages
  /\ bits' = bitmap_mark_range_used(bits, first, count)

MarkFree(first, count) ==
  /\ Unsearched
  /\ first + count <= TotalPages
  /\ bits' = bitmap_mark_range_free(bits, first, count)

SetBit(bit) == Unsearched /\ bits' = bitmap_set(bits, bit)

ClearBit(bit) == Unsearched /\ bits' = bitmap_clear(bits, bit)

-----------------------------------------------------------------------------
\* bitmap_find_free_range is called.  A length is a number of bytes divided by
\* the page size, which is at most the number of pages.
FindFreeRange(count, first) ==
  /\ search = "idle"
  /\ search' = "outer"
  /\ num_pages' = count
  /\ start_page' = first
  /\ i' = first
  /\ UNCHANGED <<bits, free_count, found>>

\* The outer loop begins a round, or ends without a range.
NextStart ==
  /\ search = "outer"
  /\ i < TotalPages
  /\ search' = "inner"
  /\ free_count' = 0
  /\ UNCHANGED <<bits, num_pages, start_page, i, found>>

NoSpace ==
  /\ search = "outer"
  /\ i >= TotalPages
  /\ search' = "done"
  /\ found' = -1
  /\ UNCHANGED <<bits, num_pages, start_page, i, free_count>>

\* Bit i + free_count is one that the inner loop counts.
Counts ==
  /\ free_count < num_pages
  /\ i + free_count < TotalPages
  /\ ~ bitmap_test(bits, i + free_count)

CountBit ==
  /\ search = "inner"
  /\ Counts
  /\ free_count' = free_count + 1
  /\ UNCHANGED <<bits, search, num_pages, start_page, i, found>>

RangeFound ==
  /\ search = "inner"
  /\ ~ Counts
  /\ free_count = num_pages
  /\ search' = "done"
  /\ found' = i
  /\ UNCHANGED <<bits, num_pages, start_page, i, free_count>>

\* Mutant of SkipRun: the jump also skips the bit behind the used one.
SkipRun_TooFar ==
  /\ search = "inner"
  /\ ~ Counts
  /\ free_count # num_pages
  /\ search' = "outer"
  /\ i' = i + free_count + 2
  /\ UNCHANGED <<bits, num_pages, start_page, free_count, found>>

\* i += free_count, and the loop's own i++.
SkipRun ==
  /\ search = "inner"
  /\ ~ Counts
  /\ free_count # num_pages
  /\ search' = "outer"
  /\ i' = i + free_count + 1
  /\ UNCHANGED <<bits, num_pages, start_page, free_count, found>>

SearchReturns ==
  /\ search = "done"
  /\ search' = "idle"
  /\ num_pages' = 0 /\ start_page' = 0 /\ i' = 0 /\ free_count' = 0 /\ found' = 0
  /\ UNCHANGED bits

SearchStep == NextStart \/ NoSpace \/ CountBit \/ RangeFound \/ SkipRun \/ SearchReturns

BitmapNext ==
  \/ \E first \in Pages, count \in 1 .. TotalPages :
       MarkUsed(first, count) \/ MarkFree(first, count)
  \/ \E bit \in Pages : SetBit(bit) \/ ClearBit(bit)
  \/ \E count \in 0 .. TotalPages, first \in Pages : FindFreeRange(count, first)
  \/ SearchStep

BitmapSpec == BitmapInit /\ [][BitmapNext]_bitmap_vars

-----------------------------------------------------------------------------
(***************************************************************************)
(* The search of the code is first fit: from any start, for any length and *)
(* on any bitmap, the loop with its two increments of i returns the lowest *)
(* free range, and -1 only if there is none.                               *)
(***************************************************************************)
ScanIsFirstFit ==
  search = "done" =>
    found = bitmap_find_free_range(bits, num_pages, start_page, TotalPages)
=============================================================================
