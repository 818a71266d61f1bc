------------------------------- MODULE Bitmap -------------------------------
(***************************************************************************)
(* The bitmap primitives of util/bitmap.h.                                 *)
(*                                                                         *)
(* A bitmap is the set of the indexes of its 1 bits (1 = used).  The byte  *)
(* and bit index arithmetic of the code (bit / 8, bit % 8) is a bijection  *)
(* on those indexes and is left out; where the code looks at whole bytes   *)
(* (the size of the page-frame bitmap) the caller of these operators does. *)
(***************************************************************************)
EXTENDS Integers, FiniteSetsExt

\* The indexes of count consecutive bits, the first one included.
Span(first, count) == first .. first + count - 1

\* CEIL_DIV, and the ceilings written out as (a + b - 1) / b.
CeilDiv(a, b) == (a + b - 1) \div b

bitmap_set(bits, bit) == bits \union {bit}

bitmap_clear(bits, bit) == bits \ {bit}

bitmap_test(bits, bit) == bit \in bits

bitmap_mark_range_used(bits, start_page, num_pages) ==
  bits \union Span(start_page, num_pages)

\* Mutant of bitmap_mark_range_free: i <= start_page + num_pages.
bitmap_mark_range_free_OneMore(bits, start_page, num_pages) ==
  bits \ Span(start_page, num_pages + 1)

bitmap_mark_range_free(bits, start_page, num_pages) ==
  bits \ Span(start_page, num_pages)

\* Mutant of FreeStarts: the end of the bitmap does not end a run.
FreeStarts_PastEnd(bits, num_pages, start_page, total_pages) ==
  {i \in start_page .. total_pages - 1 : Span(i, num_pages) \intersect bits = {}}

\* The starts, at or above start_page, of the runs of num_pages free bits that
\* end below total_pages.  A run of length 0 must still start below it.
FreeStarts(bits, num_pages, start_page, total_pages) ==
  {i \in start_page .. total_pages - 1 :
     /\ i + num_pages <= total_pages
     /\ Span(i, num_pages) \intersect bits = {}}

\* First fit, -1 when there is none.  The loops of the code, which skip ahead by
\* the length of every run that is too short, are the steps of BitmapScan; that
\* they return this is proved in ScanProofs.
bitmap_find_free_range(bits, num_pages, start_page, total_pages) ==
  LET starts == FreeStarts(bits, num_pages, start_page, total_pages)
  IN  IF starts = {} THEN -1 ELSE Min(starts)
=============================================================================
