----------------------------- MODULE ScanProofs -----------------------------
(***************************************************************************)
(* Proofs about BitmapScan, PdeScan and Printf, the three loops that scan: *)
(* a bitmap, a page directory, a format.  What each loop has found out, or *)
(* printed, at every step, from which follows what it returns or prints,   *)
(* for every bitmap, every directory and every call of printf.             *)
(***************************************************************************)
EXTENDS BitmapScan, PdeScan, Printf, WellFoundedInduction, SequenceTheorems, TLAPS

-----------------------------------------------------------------------------
\* PART 1: the search of a bitmap.

\* A free range of the length asked for starts at p.
Fits(p) == p \in FreeStarts(bits, num_pages, start_page, TotalPages)

\* What is known while the search is in its loops: no range fits below i, and the
\* bits counted from i on are free.
LoopInv ==
  /\ num_pages \in Nat /\ start_page \in Pages
  /\ i \in Nat /\ start_page <= i
  /\ \A p \in start_page .. i - 1 : ~ Fits(p)

CountInv ==
  /\ i < TotalPages
  /\ free_count \in Nat
  /\ free_count <= num_pages
  /\ i + free_count <= TotalPages
  /\ \A b \in i .. i + free_count - 1 : b \notin bits

SearchInv ==
  /\ search \in {"idle", "outer", "inner", "done"}
  /\ search \in {"outer", "inner"} => LoopInv
  /\ search = "inner" => CountInv
  /\ ScanIsFirstFit

\* Membership in the set of starts, spelt out.
LEMMA FitsMeans ==
  ASSUME NEW p
  PROVE  Fits(p) <=> /\ p \in start_page .. TotalPages - 1
                     /\ p + num_pages <= TotalPages
                     /\ Span(p, num_pages) \intersect bits = {}
BY DEF Fits, FreeStarts

\* The lowest start is what first fit returns.
LEMMA FirstFitFound ==
  ASSUME NEW p \in Int, Fits(p), start_page \in Int, TotalPages \in Int,
         \A q \in start_page .. p - 1 : ~ Fits(q)
  PROVE  bitmap_find_free_range(bits, num_pages, start_page, TotalPages) = p
<1> DEFINE S == FreeStarts(bits, num_pages, start_page, TotalPages)
<1>1. S \subseteq start_page .. TotalPages - 1
  BY DEF FreeStarts
<1>2. p \in S
  BY DEF Fits
<1>3. \A y \in S : p <= y
  <2>1. TAKE y \in S
  <2>2. Fits(y)
    BY DEF Fits
  <2>3. y \in Int /\ start_page <= y
    BY <1>1
  <2> HIDE DEF S
  <2>4. QED
    BY <2>2, <2>3
<1>4. \A x \in S : (\A y \in S : x <= y) => x = p
  <2> HIDE DEF S
  <2>1. TAKE x \in S
  <2>2. x \in Int
    BY <1>1
  <2>3. QED
    BY <1>2, <1>3, <2>2
<1>5. Min(S) = p
  <2> HIDE DEF S
  <2>1. QED
    BY <1>2, <1>3, <1>4 DEF Min
<1>6. S # {}
  BY <1>2
<1>7. QED
  BY <1>5, <1>6 DEF bitmap_find_free_range

LEMMA FirstFitFails ==
  ASSUME \A p \in start_page .. TotalPages - 1 : ~ Fits(p)
  PROVE  bitmap_find_free_range(bits, num_pages, start_page, TotalPages) = -1
<1>1. FreeStarts(bits, num_pages, start_page, TotalPages) = {}
  BY DEF Fits, FreeStarts
<1>2. QED
  BY <1>1 DEF bitmap_find_free_range

\* A run that ended too early holds no start, and neither does the bit behind it.
LEMMA RunTooShort ==
  ASSUME LoopInv, CountInv, ~ Counts, free_count # num_pages, TotalPages \in Nat,
         NEW p \in i .. i + free_count
  PROVE  ~ Fits(p)
<1>1. /\ i \in Nat /\ free_count \in Nat /\ num_pages \in Nat /\ p \in Int
      /\ i <= p /\ p <= i + free_count /\ free_count < num_pages
      /\ i + free_count <= TotalPages
  BY DEF LoopInv, CountInv
<1>2. i + free_count \in p .. p + num_pages - 1
  BY <1>1
<1>3. CASE i + free_count >= TotalPages
  <2>1. p + num_pages > TotalPages
    BY <1>1, <1>3
  <2>2. QED
    BY <1>1, <2>1, FitsMeans
<1>4. CASE i + free_count < TotalPages
  <2>1. i + free_count \in bits
    BY <1>1, <1>4 DEF Counts, bitmap_test
  <2>2. i + free_count \in Span(p, num_pages) \intersect bits
    BY <1>2, <2>1 DEF Span
  <2>3. QED
    BY <2>2, FitsMeans
<1>5. QED
  BY <1>1, <1>3, <1>4

\* A run that is long enough fits.
LEMMA RunFits ==
  ASSUME LoopInv, CountInv, free_count = num_pages, TotalPages \in Nat
  PROVE  Fits(i)
<1>1. /\ i \in Nat /\ start_page \in Int /\ start_page <= i /\ i < TotalPages
      /\ i + num_pages <= TotalPages
  BY DEF LoopInv, CountInv, Pages
<1>2. Span(i, num_pages) \intersect bits = {}
  BY DEF Span, CountInv
<1>3. i \in start_page .. TotalPages - 1
  BY <1>1
<1>4. QED
  BY <1>1, <1>2, <1>3, FitsMeans

\* What Fits says changes only with the bitmap and the arguments.
LEMMA FitsKept ==
  ASSUME UNCHANGED <<bits, num_pages, start_page>>, NEW p
  PROVE  Fits(p)' <=> Fits(p)
BY DEF Fits, FreeStarts, Span

LEMMA SearchStepKeepsInv ==
  ASSUME TotalPages \in Nat \ {0}, SearchInv, BitmapNext
  PROVE  SearchInv'
<1> USE DEF SearchInv
<1>1. ASSUME Unsearched
      PROVE  SearchInv'
  BY <1>1 DEF Unsearched, ScanIsFirstFit
<1>2. ASSUME NEW count \in 0 .. TotalPages, NEW first \in Pages,
             FindFreeRange(count, first)
      PROVE  SearchInv'
  <2>1. /\ search' = "outer" /\ num_pages' = count /\ start_page' = first
        /\ i' = first
    BY <1>2 DEF FindFreeRange
  <2>2. first \in Nat /\ count \in Nat
    BY DEF Pages
  <2>3. \A p \in first .. first - 1 : FALSE
    BY <2>2
  <2>4. LoopInv'
    BY <2>1, <2>2, <2>3 DEF LoopInv, Pages
  <2>5. QED
    BY <2>1, <2>4 DEF ScanIsFirstFit
<1>3. CASE NextStart
  <2>1. /\ search = "outer" /\ search' = "inner" /\ free_count' = 0 /\ i < TotalPages
        /\ UNCHANGED <<bits, num_pages, start_page, i>>
    BY <1>3 DEF NextStart
  <2>2. LoopInv /\ i \in Nat /\ num_pages \in Nat
    BY <2>1 DEF LoopInv
  <2>3. LoopInv'
    BY <2>1, <2>2, FitsKept DEF LoopInv
  <2>4. CountInv'
    <3>1. \A b \in i .. i + 0 - 1 : FALSE
      BY <2>2
    <3>2. 0 \in Nat /\ 0 <= num_pages /\ i + 0 <= TotalPages
      BY <2>1, <2>2
    <3>3. QED
      BY <2>1, <3>1, <3>2 DEF CountInv
  <2>5. QED
    BY <2>1, <2>3, <2>4 DEF ScanIsFirstFit
<1>4. CASE NoSpace
  <2>1. /\ search = "outer" /\ search' = "done" /\ found' = -1 /\ i >= TotalPages
        /\ UNCHANGED <<bits, num_pages, start_page>>
    BY <1>4 DEF NoSpace
  <2>2. \A p \in start_page .. TotalPages - 1 : ~ Fits(p)
    <3>1. LoopInv /\ i \in Nat /\ start_page \in Int
      BY <2>1 DEF LoopInv, Pages
    <3>2. \A p \in start_page .. TotalPages - 1 : p \in start_page .. i - 1
      BY <2>1, <3>1
    <3>3. QED
      BY <3>1, <3>2 DEF LoopInv
  <2>3. ScanIsFirstFit'
    BY <2>1, <2>2, FirstFitFails DEF ScanIsFirstFit, bitmap_find_free_range, FreeStarts, Span
  <2>4. QED
    BY <2>1, <2>3
<1>5. CASE CountBit
  <2>1. /\ search = "inner" /\ search' = "inner" /\ free_count' = free_count + 1
        /\ UNCHANGED <<bits, num_pages, start_page, i>>
        /\ free_count < num_pages /\ i + free_count < TotalPages
        /\ i + free_count \notin bits
    BY <1>5 DEF CountBit, Counts, bitmap_test
  <2>2. LoopInv /\ CountInv
    BY <2>1
  <2>3. LoopInv'
    BY <2>1, <2>2, FitsKept DEF LoopInv
  <2>4. i \in Nat /\ num_pages \in Nat /\ free_count \in Nat
    BY <2>2 DEF LoopInv, CountInv
  <2>5. \A b \in i .. i + (free_count + 1) - 1 :
          b \in i .. i + free_count - 1 \/ b = i + free_count
    BY <2>4
  <2>6. CountInv'
    <3>1. \A b \in i .. i + (free_count + 1) - 1 : b \notin bits
      BY <2>1, <2>2, <2>5 DEF CountInv
    <3>2. /\ free_count + 1 \in Nat /\ free_count + 1 <= num_pages
          /\ i + (free_count + 1) <= TotalPages
      BY <2>1, <2>4
    <3>3. QED
      BY <2>1, <2>2, <3>1, <3>2 DEF CountInv
  <2>7. QED
    BY <2>1, <2>3, <2>6 DEF ScanIsFirstFit
<1>6. CASE RangeFound
  <2>1. /\ search = "inner" /\ search' = "done" /\ found' = i /\ free_count = num_pages
        /\ UNCHANGED <<bits, num_pages, start_page>>
    BY <1>6 DEF RangeFound
  <2>2. LoopInv /\ CountInv /\ TotalPages \in Nat
    BY <2>1
  <2>3. Fits(i)
    BY <2>1, <2>2, RunFits
  <2>4. bitmap_find_free_range(bits, num_pages, start_page, TotalPages) = i
    BY <2>2, <2>3, FirstFitFound DEF LoopInv, Pages
  <2>5. ScanIsFirstFit'
    BY <2>1, <2>4 DEF ScanIsFirstFit, bitmap_find_free_range, FreeStarts, Span
  <2>6. QED
    BY <2>1, <2>5
<1>7. CASE SkipRun
  <2>1. /\ search = "inner" /\ search' = "outer" /\ i' = i + free_count + 1
        /\ ~ Counts /\ free_count # num_pages
        /\ UNCHANGED <<bits, num_pages, start_page>>
    BY <1>7 DEF SkipRun
  <2>2. LoopInv /\ CountInv
    BY <2>1
  <2>3. i \in Nat /\ free_count \in Nat /\ start_page \in Int /\ start_page <= i
    BY <2>2 DEF LoopInv, CountInv, Pages
  <2>4. \A p \in start_page .. (i + free_count + 1) - 1 : ~ Fits(p)
    <3>1. \A p \in start_page .. (i + free_count + 1) - 1 :
            p \in start_page .. i - 1 \/ p \in i .. i + free_count
      BY <2>3
    <3>2. QED
      BY <2>1, <2>2, <3>1, RunTooShort DEF LoopInv
  <2>5. i + free_count + 1 \in Nat /\ start_page <= i + free_count + 1
    BY <2>3
  <2>6. LoopInv'
    BY <2>1, <2>2, <2>4, <2>5, FitsKept DEF LoopInv
  <2>7. QED
    BY <2>1, <2>6 DEF ScanIsFirstFit
<1>8. CASE SearchReturns
  BY <1>8 DEF SearchReturns, ScanIsFirstFit
<1>9. QED
  BY <1>1, <1>2, <1>3, <1>4, <1>5, <1>6, <1>7, <1>8
     DEF BitmapNext, SearchStep, MarkUsed, MarkFree, SetBit, ClearBit

(***************************************************************************)
(* bitmap_find_free_range is first fit: on any bitmap of any length, from  *)
(* any start and for any number of pages, the loop of the code, with its   *)
(* jump behind every run that is too short, returns the lowest free range, *)
(* and -1 only if there is none.                                           *)
(***************************************************************************)
THEOREM SearchIsFirstFit == BitmapSpec => []ScanIsFirstFit
<1>1. BitmapInit => SearchInv
  BY DEF BitmapInit, NoSearch, SearchInv, ScanIsFirstFit
<1>2. SearchInv /\ [BitmapNext]_bitmap_vars => SearchInv'
  <2>1. CASE BitmapNext
    BY <2>1, SearchStepKeepsInv, TotalPagesAssumption
  <2>2. CASE UNCHANGED bitmap_vars
    BY <2>2 DEF bitmap_vars, SearchInv, ScanIsFirstFit, LoopInv, CountInv, Fits, FreeStarts,
                Span, bitmap_find_free_range
  <2>3. QED
    BY <2>1, <2>2
<1>3. SearchInv => ScanIsFirstFit
  BY DEF SearchInv
<1>4. QED
  BY <1>1, <1>2, <1>3, PTL DEF BitmapSpec

-----------------------------------------------------------------------------
\* PART 2: the survey of the page directory.

RangeRecord == [start : Index, end : Index]

\* The entries below b are accounted for: what is stored are free runs below b, in
\* ascending order, and a free run below b that is not stored found the buffer full.
\* A buffer with room for every other entry holds all free entries below b.
Known(b) ==
  /\ ranges \in Seq(RangeRecord)
  /\ Len(ranges) <= max_ranges
  /\ \A k \in 1 .. Len(ranges) : ranges[k] \in FreeRuns /\ ranges[k].end < b
  /\ \A k, l \in 1 .. Len(ranges) : k < l => ranges[k].end < ranges[l].start
  /\ \A r \in FreeRuns : r.end < b =>
       \/ r \in Stored
       \/ Len(ranges) = max_ranges /\ \A q \in Stored : q.end < r.start
  /\ 2 * max_ranges >= PDE_COUNT =>
       \A e \in Index : e < b /\ is_pde_free(e) =>
         \E k \in 1 .. Len(ranges) : ranges[k].start <= e /\ e <= ranges[k].end

\* The entries from start on are the run the loop is in; below it all is known.
Behind == IF start = -1 THEN pde ELSE start

InRun ==
  /\ start \in Index
  /\ start < pde
  /\ \A e \in start .. pde - 1 : is_pde_free(e)
  /\ start = 0 \/ ~ is_pde_free(start - 1)

ScanInv ==
  /\ pde \in Nat
  /\ pde <= PDE_COUNT
  /\ start = -1 => pde = 0 \/ ~ is_pde_free(pde - 1)
  /\ start # -1 => InRun
  /\ Known(Behind)
  /\ 2 * Len(ranges) <= Behind

SurveyInv ==
  /\ max_ranges \in Nat
  /\ survey \in {"idle", "scan", "done"}
  /\ survey = "scan" => ScanInv
  /\ survey = "done" => Known(PDE_COUNT)

LEMMA Sizes == PDE_COUNT \in Nat /\ PDE_COUNT > 1 /\ 2 * MaxRanges >= PDE_COUNT /\ MaxRanges \in Nat
BY PdeScanAssumption

\* Membership in the set of free runs, spelt out.
LEMMA RunMeans ==
  ASSUME NEW r \in FreeRuns
  PROVE  /\ r.start \in Index /\ r.end \in Index /\ r.start <= r.end
         /\ r \in RangeRecord
         /\ \A e \in r.start .. r.end : is_pde_free(e)
         /\ r.start = 0 \/ ~ is_pde_free(r.start - 1)
         /\ r.end = PDE_COUNT - 1 \/ ~ is_pde_free(r.end + 1)
BY DEF FreeRuns, RangeRecord

\* A maximal range of free entries is a free run, and the only one that ends in it.
LEMMA MaximalRun ==
  ASSUME NEW first \in Index, NEW last \in Index, first <= last,
         \A e \in first .. last : is_pde_free(e),
         first = 0 \/ ~ is_pde_free(first - 1),
         last = PDE_COUNT - 1 \/ ~ is_pde_free(last + 1),
         NEW run, run = [start |-> first, end |-> last]
  PROVE  run \in FreeRuns /\ run.start = first /\ run.end = last
BY DEF FreeRuns

LEMMA OnlyRun ==
  ASSUME NEW first \in Index, NEW last \in Index, first <= last,
         \A e \in first .. last : is_pde_free(e),
         first = 0 \/ ~ is_pde_free(first - 1),
         last = PDE_COUNT - 1 \/ ~ is_pde_free(last + 1),
         NEW r \in FreeRuns, first <= r.end, r.end <= last
  PROVE  r = [start |-> first, end |-> last]
<1>1. /\ r.start \in Index /\ r.end \in Index /\ r.start <= r.end /\ r \in RangeRecord
      /\ \A e \in r.start .. r.end : is_pde_free(e)
      /\ r.start = 0 \/ ~ is_pde_free(r.start - 1)
      /\ r.end = PDE_COUNT - 1 \/ ~ is_pde_free(r.end + 1)
  BY RunMeans
<1>2. PDE_COUNT \in Nat /\ first \in Nat /\ last \in Nat /\ last <= PDE_COUNT - 1
  BY Sizes DEF Index
<1>3. r.start \in Nat /\ r.end \in Nat
  BY <1>1, <1>2 DEF Index
<1>4. r.end = last
  <2>1. SUFFICES ASSUME r.end < last PROVE FALSE
    BY <1>2, <1>3
  <2>2. r.end + 1 \in first .. last /\ r.end # PDE_COUNT - 1
    BY <1>2, <1>3, <2>1
  <2>3. QED
    BY <1>1, <2>2
<1>5. r.start = first
  <2>1. CASE r.start < first
    <3>1. first - 1 \in r.start .. r.end /\ first # 0
      BY <1>2, <1>3, <2>1
    <3>2. QED
      BY <1>1, <3>1
  <2>2. CASE r.start > first
    <3>1. r.start - 1 \in first .. last /\ r.start # 0
      BY <1>1, <1>2, <1>3, <1>4, <2>2
    <3>2. QED
      BY <1>1, <3>1
  <2>3. QED
    BY <1>2, <1>3, <2>1, <2>2
<1>6. QED
  BY <1>1, <1>4, <1>5 DEF RangeRecord

LEMMA Appended ==
  ASSUME NEW S, NEW s \in Seq(S), NEW x \in S, NEW t, t = Append(s, x)
  PROVE  /\ t \in Seq(S) /\ Len(s) \in Nat /\ Len(t) = Len(s) + 1
         /\ \A k \in 1 .. Len(s) : t[k] = s[k]
         /\ t[Len(s) + 1] = x
OBVIOUS

LEMMA StoredMeans ==
  ASSUME ranges \in Seq(RangeRecord)
  PROVE  \A q : q \in Stored <=> \E k \in 1 .. Len(ranges) : q = ranges[k]
BY DEF Stored

LEMMA RunsKept ==
  ASSUME UNCHANGED present
  PROVE  FreeRuns' = FreeRuns /\ \A e : is_pde_free(e)' <=> is_pde_free(e)
BY DEF FreeRuns, is_pde_free

LEMMA KnownKept ==
  ASSUME UNCHANGED <<present, ranges, max_ranges>>, NEW b, Known(b)
  PROVE  Known(b)'
BY RunsKept DEF Known, Stored

\* A used entry ends no run: it is accounted for with what is below it.
LEMMA KnownPastUsed ==
  ASSUME UNCHANGED present, NEW b \in Nat, b < PDE_COUNT, Known(b)', ~ is_pde_free(b)
  PROVE  Known(b + 1)'
<1>1. PDE_COUNT \in Nat
  BY Sizes
<1>2. \A r \in FreeRuns : r.end < b + 1 => r.end < b
  <2>1. TAKE r \in FreeRuns
  <2>2. r.end \in Nat /\ r.start \in Nat /\ r.start <= r.end
    BY RunMeans, <1>1 DEF Index
  <2>3. r.end \in r.start .. r.end
    BY <2>2
  <2>4. r.end # b
    BY <2>3, RunMeans
  <2>5. QED
    BY <2>2, <2>4
<1>3. \A e \in Index : e < b + 1 /\ is_pde_free(e) => e < b
  BY <1>1 DEF Index
<1>4. \A k \in 1 .. Len(ranges') : ranges'[k].end < b => ranges'[k].end < b + 1
  <2>1. TAKE k \in 1 .. Len(ranges')
  <2>2. ranges'[k] \in RangeRecord
    BY DEF Known
  <2>3. ranges'[k].end \in Nat
    BY <2>2, <1>1 DEF RangeRecord, Index
  <2>4. QED
    BY <2>3
<1>5. QED
  BY <1>2, <1>3, <1>4, RunsKept DEF Known

\* The range from start to last, a whole run, is stored or finds the buffer full:
\* all below last + 1 is accounted for.
LEMMA StoreKeeps ==
  ASSUME start \in Index, NEW last \in Index, start <= last,
         \A e \in start .. last : is_pde_free(e),
         start = 0 \/ ~ is_pde_free(start - 1),
         last = PDE_COUNT - 1 \/ ~ is_pde_free(last + 1),
         Known(start), 2 * Len(ranges) <= start, max_ranges \in Nat,
         Store(last), UNCHANGED <<present, max_ranges>>
  PROVE  Known(last + 1)' /\ Len(ranges') <= Len(ranges) + 1
<1> DEFINE run == [start |-> start, end |-> last]
<1>1. run \in FreeRuns /\ run.start = start /\ run.end = last /\ run \in RangeRecord
  BY MaximalRun, RunMeans
<1>2. \A r \in FreeRuns : r.end < last + 1 => r.end < start \/ r = run
  <2>1. TAKE r \in FreeRuns
  <2>2. r.end \in Nat /\ start \in Nat /\ last \in Nat
    BY RunMeans, Sizes DEF Index
  <2>3. start <= r.end /\ r.end <= last => r = run
    BY OnlyRun
  <2>4. QED
    BY <2>2, <2>3
<1>3. /\ ranges \in Seq(RangeRecord) /\ Len(ranges) \in Nat /\ Len(ranges) <= max_ranges
      /\ \A k \in 1 .. Len(ranges) : ranges[k] \in FreeRuns /\ ranges[k].end < start
      /\ \A k \in 1 .. Len(ranges) : ranges[k].end \in Nat
  <2>1. \A k \in 1 .. Len(ranges) : ranges[k] \in RangeRecord
    BY DEF Known
  <2>2. QED
    BY <2>1, Sizes DEF Known, RangeRecord, Index
<1>4. start \in Nat /\ last \in Nat /\ PDE_COUNT \in Nat /\ start <= PDE_COUNT - 1
  BY Sizes DEF Index
<1> HIDE DEF run
<1>5. CASE Len(ranges) < max_ranges
  <2>1. ranges' = Append(ranges, run)
    BY <1>5 DEF Store, run
  <2>2. /\ ranges' \in Seq(RangeRecord) /\ Len(ranges') = Len(ranges) + 1
        /\ \A k \in 1 .. Len(ranges) : ranges'[k] = ranges[k]
        /\ ranges'[Len(ranges) + 1] = run
    BY <1>1, <1>3, <2>1, Appended
  <2> DEFINE n == Len(ranges)
  <2>3. n \in Nat /\ Len(ranges') = n + 1 /\ n + 1 <= max_ranges /\ ranges'[n + 1] = run
    BY <1>3, <1>5, <2>2
  <2>4. \A k \in 1 .. n : ranges'[k] = ranges[k] /\ ranges'[k] \in FreeRuns
                          /\ ranges'[k].end \in Nat /\ ranges'[k].end < start
    BY <1>3, <2>2
  <2>5. \A k, l \in 1 .. n : k < l => ranges'[k].end < ranges'[l].start
    BY <2>4 DEF Known
  <2>6. \A q : q \in Stored' <=> q \in Stored \/ q = run
    <3>1. Stored' = {ranges'[k] : k \in 1 .. n + 1}
      BY <2>2, <2>3 DEF Stored
    <3>2. Stored = {ranges[k] : k \in 1 .. n}
      BY <1>3 DEF Stored
    <3> HIDE DEF n
    <3>3. \A k \in 1 .. n + 1 : k \in 1 .. n \/ k = n + 1
      BY <2>3
    <3>4. \A k \in 1 .. n : k \in 1 .. n + 1
      BY <2>3
    <3>5. n + 1 \in 1 .. n + 1
      BY <2>3
    <3>6. QED
      BY <3>1, <3>2, <3>3, <3>4, <3>5, <2>3, <2>4
  <2>7. \A k \in 1 .. n + 1 : ranges'[k] \in FreeRuns /\ ranges'[k].end < last + 1
    <3> HIDE DEF n
    <3>1. TAKE k \in 1 .. n + 1
    <3>2. CASE k = n + 1
      BY <3>2, <2>3, <1>1, <1>4
    <3>3. CASE k \in 1 .. n
      BY <3>3, <2>4, <1>4
    <3>4. QED
      BY <2>3, <3>2, <3>3
  <2>8. \A k, l \in 1 .. n + 1 : k < l => ranges'[k].end < ranges'[l].start
    <3> HIDE DEF n
    <3>1. TAKE k, l \in 1 .. n + 1
    <3>2. HAVE k < l
    <3>3. k \in 1 .. n
      BY <2>3, <3>2
    <3>4. CASE l = n + 1
      BY <3>3, <3>4, <2>3, <2>4, <1>1
    <3>5. CASE l \in 1 .. n
      BY <3>2, <3>3, <3>5, <2>5
    <3>6. QED
      BY <2>3, <3>4, <3>5
  <2>9. \A r \in FreeRuns : r.end < last + 1 => r \in Stored'
    <3>1. \A r \in FreeRuns : r.end < start => r \in Stored
      BY <1>5, <1>3 DEF Known
    <3>2. QED
      BY <3>1, <2>6, <1>2
  <2>10. 2 * max_ranges >= PDE_COUNT =>
           \A e \in Index : e < last + 1 /\ is_pde_free(e) =>
             \E k \in 1 .. n + 1 : ranges'[k].start <= e /\ e <= ranges'[k].end
    <3> HIDE DEF n
    <3>1. HAVE 2 * max_ranges >= PDE_COUNT
    <3>2. TAKE e \in Index
    <3>3. HAVE e < last + 1 /\ is_pde_free(e)
    <3>4. e \in Nat
      BY <1>4 DEF Index
    <3>5. CASE e < start
      <4>1. PICK k \in 1 .. n : ranges[k].start <= e /\ e <= ranges[k].end
        BY <3>1, <3>3, <3>5 DEF Known, n
      <4>2. k \in 1 .. n + 1 /\ ranges'[k] = ranges[k]
        BY <2>3, <2>4
      <4>3. QED
        BY <4>1, <4>2
    <3>6. CASE start <= e
      <4>1. n + 1 \in 1 .. n + 1 /\ ranges'[n + 1].start <= e /\ e <= ranges'[n + 1].end
        BY <2>3, <1>1, <1>4, <3>3, <3>4, <3>6
      <4>2. QED
        BY <4>1
    <3>7. QED
      BY <1>4, <3>4, <3>5, <3>6
  <2>11. Known(last + 1)'
    <3>1. /\ 1 .. Len(ranges') = 1 .. n + 1
          /\ Len(ranges') <= max_ranges'
      BY <2>3
    <3> HIDE DEF n
    <3>2. QED
      BY <2>2, <2>7, <2>8, <2>9, <2>10, <3>1, RunsKept DEF Known
  <2>12. QED
    BY <2>3, <2>11
<1>6. CASE ~ (Len(ranges) < max_ranges)
  <2>1. ranges' = ranges /\ Len(ranges) = max_ranges
    BY <1>3, <1>6 DEF Store
  <2>2. ~ (2 * max_ranges >= PDE_COUNT)
    BY <2>1, <1>3, <1>4
  <2>3. \A q \in Stored : q.end < start
    BY <1>3, StoredMeans
  <2>4. Known(last + 1)
    <3>1. \A k \in 1 .. Len(ranges) : ranges[k] \in FreeRuns /\ ranges[k].end < last + 1
      BY <1>3, <1>4
    <3>2. \A r \in FreeRuns : r.end < last + 1 =>
            \/ r \in Stored
            \/ Len(ranges) = max_ranges /\ \A q \in Stored : q.end < r.start
      BY <1>1, <1>2, <2>1, <2>3 DEF Known
    <3>3. QED
      BY <2>2, <3>1, <3>2 DEF Known
  <2>5. QED
    BY <1>3, <2>1, <2>4, KnownKept
<1>7. QED
  BY <1>5, <1>6

LEMMA FreeEntryKeepsInv ==
  ASSUME SurveyInv, FreeEntry
  PROVE  SurveyInv'
<1>1. /\ survey = "scan" /\ survey' = "scan" /\ pde < PDE_COUNT /\ is_pde_free(pde)
      /\ UNCHANGED <<present, max_ranges, ranges>> /\ pde' = pde + 1
      /\ start' = (IF start = -1 THEN pde ELSE start)
  BY DEF FreeEntry, InLoop
<1>2. ScanInv /\ max_ranges \in Nat
  BY <1>1 DEF SurveyInv
<1>3. pde \in Nat /\ PDE_COUNT \in Nat
  BY <1>2, Sizes DEF ScanInv
<1>4. start' # -1 /\ Behind' = Behind
  <2>1. CASE start = -1
    BY <1>1, <1>3, <2>1 DEF Behind
  <2>2. CASE start # -1
    BY <1>1, <2>2 DEF Behind
  <2>3. QED
    BY <2>1, <2>2
<1>5. InRun'
  <2>1. CASE start = -1
    <3>1. \A e \in pde .. (pde + 1) - 1 : e = pde
      BY <1>3
    <3>2. pde = 0 \/ ~ is_pde_free(pde - 1)
      BY <1>2, <2>1 DEF ScanInv
    <3>3. pde \in Index /\ pde < pde + 1
      BY <1>1, <1>3 DEF Index
    <3>4. QED
      BY <1>1, <2>1, <3>1, <3>2, <3>3, RunsKept DEF InRun, Index
  <2>2. CASE start # -1
    <3>1. InRun
      BY <1>2, <2>2 DEF ScanInv
    <3>2. start \in Nat
      BY <3>1, <1>3 DEF InRun, Index
    <3>3. \A e \in start .. (pde + 1) - 1 : e \in start .. pde - 1 \/ e = pde
      BY <1>3, <3>2
    <3>4. start < pde + 1
      BY <1>3, <3>1, <3>2 DEF InRun
    <3>5. QED
      BY <1>1, <2>2, <3>1, <3>3, <3>4, RunsKept DEF InRun, Index
  <2>3. QED
    BY <2>1, <2>2
<1>6. Known(Behind)' /\ 2 * Len(ranges') <= Behind'
  <2>1. PICK b : b = Behind
    OBVIOUS
  <2>2. Known(b) /\ 2 * Len(ranges) <= Behind
    BY <1>2, <2>1 DEF ScanInv
  <2>3. Known(b)'
    BY <1>1, <2>2, KnownKept
  <2>4. b = Behind'
    BY <1>4, <2>1
  <2>5. QED
    BY <1>1, <1>4, <2>2, <2>3, <2>4
<1>7. pde' \in Nat /\ pde' <= PDE_COUNT
  BY <1>1, <1>3
<1>8. QED
  BY <1>1, <1>2, <1>4, <1>5, <1>6, <1>7 DEF SurveyInv, ScanInv

LEMMA UsedEntryKeepsInv ==
  ASSUME SurveyInv, UsedEntry
  PROVE  SurveyInv'
<1>1. /\ survey = "scan" /\ survey' = "scan" /\ pde < PDE_COUNT /\ ~ is_pde_free(pde)
      /\ UNCHANGED <<present, max_ranges>> /\ pde' = pde + 1 /\ start' = -1
      /\ start = -1 => ranges' = ranges
      /\ start # -1 => Store(pde - 1)
  BY DEF UsedEntry, InLoop
<1>2. ScanInv /\ max_ranges \in Nat
  BY <1>1 DEF SurveyInv
<1>3. pde \in Nat /\ PDE_COUNT \in Nat /\ Len(ranges) \in Nat /\ ranges \in Seq(RangeRecord)
  BY <1>2, Sizes DEF ScanInv, Known
<1>4. Behind' = pde + 1
  BY <1>1 DEF Behind
<1>5. PICK b \in Nat : b = pde
  BY <1>3
<1>6. Known(b)' /\ 2 * Len(ranges') <= pde + 1
  <2>1. CASE start = -1
    <3>1. Behind = b
      BY <1>5, <2>1 DEF Behind
    <3>2. Known(b) /\ 2 * Len(ranges) <= b
      BY <1>2, <3>1 DEF ScanInv
    <3>3. ranges' = ranges
      BY <1>1, <2>1
    <3>4. Known(b)'
      BY <1>1, <3>2, <3>3, KnownKept
    <3>5. QED
      BY <1>3, <1>5, <3>2, <3>3, <3>4
  <2>2. CASE start # -1
    <3>1. InRun /\ Known(start) /\ 2 * Len(ranges) <= start
      BY <1>2, <2>2 DEF ScanInv, Behind
    <3>2. PICK last \in Index : last = pde - 1
      BY <1>1, <1>3, <3>1 DEF InRun, Index
    <3>3. start \in Nat /\ start \in Index /\ start <= last /\ last + 1 = b
      BY <1>3, <1>5, <3>1, <3>2 DEF InRun, Index
    <3>4. /\ \A e \in start .. last : is_pde_free(e)
          /\ start = 0 \/ ~ is_pde_free(start - 1)
          /\ ~ is_pde_free(last + 1)
          /\ Store(last)
      BY <1>1, <1>5, <2>2, <3>1, <3>2, <3>3 DEF InRun
    <3>5. Known(last + 1)' /\ Len(ranges') <= Len(ranges) + 1
      BY <1>1, <1>2, <3>1, <3>3, <3>4, StoreKeeps
    <3>6. Known(b)'
      BY <3>3, <3>5
    <3>7. Len(ranges') \in Nat
      BY <3>6 DEF Known
    <3>8. 2 * Len(ranges') <= pde + 1
      BY <1>3, <1>5, <3>1, <3>3, <3>5, <3>7
    <3>9. QED
      BY <3>6, <3>8
  <2>3. QED
    BY <2>1, <2>2
<1>7. Known(b + 1)'
  BY <1>1, <1>5, <1>6, KnownPastUsed
<1>8. b + 1 = Behind'
  BY <1>4, <1>5
<1>9. Known(Behind)' /\ 2 * Len(ranges') <= Behind'
  BY <1>4, <1>6, <1>7, <1>8
<1>10. ~ is_pde_free(pde - 1)' /\ pde' \in Nat /\ pde' <= PDE_COUNT
  <2>1. pde' - 1 = pde
    BY <1>1, <1>3
  <2>2. pde' \in Nat /\ pde' <= PDE_COUNT
    BY <1>1, <1>3
  <2>3. QED
    BY <1>1, <2>1, <2>2 DEF is_pde_free
<1>11. ScanInv'
  BY <1>1, <1>9, <1>10 DEF ScanInv
<1>12. QED
  BY <1>1, <1>2, <1>11 DEF SurveyInv

LEMMA TrailingRangeKeepsInv ==
  ASSUME SurveyInv, TrailingRange
  PROVE  SurveyInv'
<1>1. /\ survey = "scan" /\ survey' = "done" /\ pde = PDE_COUNT
      /\ UNCHANGED <<present, max_ranges>>
      /\ start = -1 => ranges' = ranges
      /\ start # -1 => Store(PDE_COUNT - 1)
  BY DEF TrailingRange
<1>2. ScanInv /\ max_ranges \in Nat /\ PDE_COUNT \in Nat
  BY <1>1, Sizes DEF SurveyInv
<1>3. Known(PDE_COUNT)'
  <2>1. CASE start = -1
    BY <1>1, <1>2, <2>1, KnownKept DEF ScanInv, Behind
  <2>2. CASE start # -1
    <3>1. InRun /\ Known(start) /\ 2 * Len(ranges) <= start
      BY <1>2, <2>2 DEF ScanInv, Behind
    <3>2. PICK last \in Index : last = PDE_COUNT - 1
      BY <1>2, Sizes DEF Index
    <3>3. start \in Nat /\ start \in Index /\ start <= last /\ last + 1 = PDE_COUNT
      BY <1>1, <1>2, <3>1, <3>2 DEF InRun, Index
    <3>4. /\ \A e \in start .. last : is_pde_free(e)
          /\ start = 0 \/ ~ is_pde_free(start - 1)
          /\ Store(last)
      BY <1>1, <2>2, <3>1, <3>2 DEF InRun
    <3>5. Known(last + 1)'
      BY <1>1, <1>2, <3>1, <3>2, <3>3, <3>4, StoreKeeps
    <3>6. QED
      BY <3>3, <3>5
  <2>3. QED
    BY <2>1, <2>2
<1>4. QED
  BY <1>1, <1>2, <1>3 DEF SurveyInv

LEMMA CollectKeepsInv ==
  ASSUME NEW room \in 0 .. PDE_COUNT, Collect(room)
  PROVE  SurveyInv'
<1>1. /\ survey' = (IF room = 0 THEN "done" ELSE "scan") /\ max_ranges' = room
      /\ pde' = 0 /\ start' = -1 /\ ranges' = << >> /\ UNCHANGED present
  BY DEF Collect
<1>2. room \in Nat /\ PDE_COUNT \in Nat /\ Len(<< >>) = 0 /\ Len(ranges') = 0
  BY <1>1, Sizes
<1>3. Behind' = 0
  BY <1>1 DEF Behind
<1>4. \A b \in Nat : b = 0 \/ room = 0 => Known(b)'
  <2>1. TAKE b \in Nat
  <2>2. HAVE b = 0 \/ room = 0
  <2>3. ranges' \in Seq(RangeRecord)
    BY <1>1
  <2>4. \A k \in 1 .. Len(ranges') : FALSE
    BY <1>2
  <2>5. \A q : q \notin Stored'
    <3>1. DOMAIN ranges' = {}
      BY <1>1
    <3>2. QED
      BY <3>1 DEF Stored
  <2>6. \A r \in FreeRuns : r.end \in Nat
    BY <1>2, RunMeans DEF Index
  <2>7. \A e \in Index : e \in Nat
    BY <1>2 DEF Index
  <2>8. 2 * room >= PDE_COUNT => b = 0
    BY <1>2, <2>2, Sizes
  <2>9. \A r \in FreeRuns : r.end < b => Len(ranges') = max_ranges'
    BY <1>1, <1>2, <2>2, <2>6
  <2>10. 2 * room >= PDE_COUNT => \A e \in Index : ~ (e < b)
    BY <2>7, <2>8
  <2>11. Len(ranges') <= max_ranges'
    BY <1>1, <1>2
  <2>12. QED
    BY <1>1, <2>3, <2>4, <2>5, <2>9, <2>10, <2>11, RunsKept DEF Known
<1>5. CASE room = 0
  <2>1. Known(PDE_COUNT)'
    BY <1>2, <1>4, <1>5
  <2>2. QED
    BY <1>1, <1>2, <1>5, <2>1 DEF SurveyInv
<1>6. CASE room # 0
  <2>1. Known(0)'
    BY <1>4
  <2>2. Known(Behind)'
    BY <1>3, <2>1
  <2>3. ScanInv'
    BY <1>1, <1>2, <1>3, <2>2 DEF ScanInv
  <2>4. QED
    BY <1>1, <1>2, <1>6, <2>3 DEF SurveyInv
<1>7. QED
  BY <1>5, <1>6

\* What the invariant says of a finished survey, and that it is what the run checks.
LEMMA FinishedRanges ==
  ASSUME SurveyInv
  PROVE  RangesAreFreeRuns
<1>1. SUFFICES ASSUME survey = "done"
               PROVE  /\ \A k \in 1 .. Len(ranges) - 1 : ranges[k].end < ranges[k + 1].start
                      /\ Stored \subseteq FreeRuns
                      /\ Stored = FreeRuns \/ Len(ranges) = max_ranges
                      /\ \A r \in FreeRuns \ Stored, q \in Stored : q.end < r.start
  BY DEF RangesAreFreeRuns
<1>2. Known(PDE_COUNT) /\ PDE_COUNT \in Nat
  BY <1>1, Sizes DEF SurveyInv
<1>3. ranges \in Seq(RangeRecord) /\ Len(ranges) \in Nat
  BY <1>2 DEF Known
<1>4. \A k \in 1 .. Len(ranges) - 1 : ranges[k].end < ranges[k + 1].start
  <2>1. TAKE k \in 1 .. Len(ranges) - 1
  <2>2. k \in 1 .. Len(ranges) /\ k + 1 \in 1 .. Len(ranges) /\ k < k + 1
    BY <1>3
  <2>3. QED
    BY <1>2, <2>2 DEF Known
<1>5. Stored \subseteq FreeRuns
  BY <1>2, <1>3, StoredMeans DEF Known
<1>6. \A r \in FreeRuns : r.end < PDE_COUNT
  BY <1>2, RunMeans DEF Index
<1>7. \A r \in FreeRuns \ Stored :
        Len(ranges) = max_ranges /\ \A q \in Stored : q.end < r.start
  BY <1>2, <1>6 DEF Known
<1>8. QED
  BY <1>4, <1>5, <1>7

LEMMA FinishedSummary ==
  ASSUME SurveyInv
  PROVE  SummaryIsComplete
<1>1. SUFFICES ASSUME survey = "done", max_ranges = MaxRanges
               PROVE  /\ Cardinality(UNION {r.start .. r.end : r \in Stored}) = count_free_pdes
                      /\ find_first_free_pde = IF ranges = << >> THEN -1 ELSE ranges[1].start
  BY DEF SummaryIsComplete
<1>2. /\ Known(PDE_COUNT) /\ PDE_COUNT \in Nat /\ ranges \in Seq(RangeRecord) /\ Len(ranges) \in Nat
      /\ 2 * max_ranges >= PDE_COUNT
  BY <1>1, Sizes DEF SurveyInv, Known
<1>3. \A k \in 1 .. Len(ranges) :
        /\ ranges[k] \in FreeRuns /\ ranges[k].start \in Nat /\ ranges[k].end \in Nat
        /\ ranges[k].start <= ranges[k].end /\ ranges[k].end < PDE_COUNT
        /\ \A e \in ranges[k].start .. ranges[k].end : is_pde_free(e)
  <2>1. TAKE k \in 1 .. Len(ranges)
  <2>2. ranges[k] \in FreeRuns
    BY <1>2 DEF Known
  <2>3. ranges[k].start \in Index /\ ranges[k].end \in Index
    BY <2>2, RunMeans
  <2>4. QED
    BY <1>2, <2>2, <2>3, RunMeans DEF Index
<1>4. \A e \in Index : is_pde_free(e) =>
        \E k \in 1 .. Len(ranges) : ranges[k].start <= e /\ e <= ranges[k].end
  <2>1. \A e \in Index : e < PDE_COUNT
    BY <1>2 DEF Index
  <2>2. QED
    BY <1>2, <2>1 DEF Known
<1>5. UNION {r.start .. r.end : r \in Stored} = {e \in Index : is_pde_free(e)}
  <2>1. ASSUME NEW r \in Stored, NEW e \in r.start .. r.end
        PROVE  e \in Index /\ is_pde_free(e)
    <3>1. PICK k \in 1 .. Len(ranges) : r = ranges[k]
      BY <1>2, StoredMeans
    <3>2. e \in ranges[k].start .. ranges[k].end
      BY <3>1
    <3>3. is_pde_free(e)
      BY <1>3, <3>2
    <3>4. e \in Index
      BY <1>2, <1>3, <3>2 DEF Index
    <3>5. QED
      BY <3>3, <3>4
  <2>2. ASSUME NEW e \in Index, is_pde_free(e)
        PROVE  \E r \in Stored : e \in r.start .. r.end
    <3>1. PICK k \in 1 .. Len(ranges) : ranges[k].start <= e /\ e <= ranges[k].end
      BY <1>4, <2>2
    <3>2. ranges[k] \in Stored
      BY <1>2, StoredMeans
    <3>3. e \in Nat
      BY <1>2 DEF Index
    <3>4. e \in ranges[k].start .. ranges[k].end
      BY <1>3, <3>1, <3>3
    <3>5. QED
      BY <3>2, <3>4
  <2>3. QED
    BY <2>1, <2>2
<1>6. find_first_free_pde = IF ranges = << >> THEN -1 ELSE ranges[1].start
  <2>1. CASE ranges = << >>
    <3>1. \A k \in 1 .. Len(ranges) : FALSE
      BY <2>1
    <3>2. QED
      BY <1>4, <2>1, <3>1 DEF find_first_free_pde
  <2>2. CASE ranges # << >>
    <3>1. 1 \in 1 .. Len(ranges)
      BY <1>2, <2>2
    <3>2. PICK p : p = ranges[1].start
      OBVIOUS
    <3>3. p \in Nat /\ p \in Index /\ is_pde_free(p)
      <4>1. p \in ranges[1].start .. ranges[1].end
        BY <1>3, <3>1, <3>2
      <4>2. QED
        BY <1>2, <1>3, <3>1, <3>2, <4>1 DEF Index
    <3>4. \A e \in Index : is_pde_free(e) => p <= e
      <4>1. TAKE e \in Index
      <4>2. HAVE is_pde_free(e)
      <4>3. PICK k \in 1 .. Len(ranges) : ranges[k].start <= e /\ e <= ranges[k].end
        BY <1>4, <4>2
      <4>4. k = 1 \/ ranges[1].end < ranges[k].start
        BY <1>2, <3>1 DEF Known
      <4>5. e \in Nat
        BY <1>2 DEF Index
      <4>6. QED
        BY <1>3, <3>1, <3>2, <4>3, <4>4, <4>5
    <3>5. \A j \in 0 .. p - 1 : ~ is_pde_free(j)
      <4>1. \A j \in 0 .. p - 1 : j \in Index /\ ~ (p <= j)
        BY <1>2, <3>3 DEF Index
      <4>2. QED
        BY <3>4, <4>1
    <3>6. \A q \in Index : is_pde_free(q) /\ (\A j \in 0 .. q - 1 : ~ is_pde_free(j)) => q = p
      <4>1. TAKE q \in Index
      <4>2. HAVE is_pde_free(q) /\ \A j \in 0 .. q - 1 : ~ is_pde_free(j)
      <4>3. q \in Nat /\ p <= q
        BY <1>2, <3>4, <4>2 DEF Index
      <4>4. ~ (p \in 0 .. q - 1)
        BY <3>3, <4>2
      <4>5. QED
        BY <3>3, <4>3, <4>4
    <3>7. find_first_free_pde = p
      BY <3>3, <3>5, <3>6 DEF find_first_free_pde
    <3>8. QED
      BY <2>2, <3>2, <3>7
  <2>3. QED
    BY <2>1, <2>2
<1>7. QED
  BY <1>5, <1>6 DEF count_free_pdes

LEMMA SurveyInvariant == PdeSpec => []SurveyInv
<1>1. PdeInit => SurveyInv
  BY DEF PdeInit, NoSurvey, SurveyInv
<1>2. SurveyInv /\ [PdeNext]_pde_vars => SurveyInv'
  <2> SUFFICES ASSUME SurveyInv, [PdeNext]_pde_vars PROVE SurveyInv'
    OBVIOUS
  <2>1. ASSUME Unsurveyed PROVE SurveyInv'
    BY <2>1 DEF Unsurveyed, SurveyInv
  <2>2. ASSUME NEW room \in 0 .. PDE_COUNT, Collect(room) PROVE SurveyInv'
    BY <2>2, CollectKeepsInv
  <2>3. CASE FreeEntry
    BY <2>3, FreeEntryKeepsInv
  <2>4. CASE UsedEntry
    BY <2>4, UsedEntryKeepsInv
  <2>5. CASE TrailingRange
    BY <2>5, TrailingRangeKeepsInv
  <2>6. CASE SurveyReturns
    BY <2>6 DEF SurveyReturns, SurveyInv
  <2>7. CASE UNCHANGED pde_vars
    BY <2>7 DEF pde_vars, SurveyInv, ScanInv, InRun, Behind, Known, Stored, FreeRuns, is_pde_free
  <2>8. QED
    BY <2>1, <2>2, <2>3, <2>4, <2>5, <2>6, <2>7 DEF PdeNext, setup_recursive_pd, alloc_new_pt
<1>3. QED
  BY <1>1, <1>2, PTL DEF PdeSpec

(***************************************************************************)
(* collect_free_pde_ranges stores maximal ranges of free entries only,     *)
(* each once and in ascending order, for a directory and a buffer of any   *)
(* size; what it leaves out lies above what it stores, and it leaves       *)
(* something out only when the buffer is full.                             *)
(***************************************************************************)
THEOREM RangesAreRuns == PdeSpec => []RangesAreFreeRuns
BY SurveyInvariant, FinishedRanges, PTL

(***************************************************************************)
(* A buffer of half as many ranges as there are entries is enough, as      *)
(* print_pde_summary's comment says: its ranges hold exactly the entries   *)
(* count_free_pdes counts, and begin with the entry find_first_free_pde    *)
(* finds.                                                                  *)
(***************************************************************************)
THEOREM SummaryComplete == PdeSpec => []SummaryIsComplete
BY SurveyInvariant, FinishedSummary, PTL

-----------------------------------------------------------------------------
\* PART 3: the walk over a format.

\* Induction, on sets of numbers.
LEMMA LeastNumber ==
  ASSUME NEW S \in SUBSET Nat, S # {}
  PROVE  \E m \in S : \A k \in S : m <= k
<1> DEFINE less == OpToRel(<, Nat)
<1>1. \A x, y \in Nat : <<x, y>> \in less <=> x < y
  BY DEF OpToRel
<1>2. IsWellFoundedOn(less, Nat)
  BY NatLessThanWellFounded, Zenon
<1> HIDE DEF less
<1>3. PICK m \in S : \A k \in S : ~ (<<k, m>> \in less)
  BY <1>2, WFMin
<1>4. \A k \in S : ~ (k < m)
  BY <1>1, <1>3
<1>5. \A k \in S : m <= k
  BY <1>4
<1> QED
  BY <1>5

LEMMA Induction ==
  ASSUME NEW S \in SUBSET Nat,
         \A n \in Nat : (\A m \in 0 .. n - 1 : m \in S) => n \in S
  PROVE  S = Nat
<1>1. SUFFICES ASSUME Nat \ S # {} PROVE FALSE
  OBVIOUS
<1>2. PICK m \in Nat \ S : \A k \in Nat \ S : m <= k
  BY <1>1, LeastNumber
<1>3. \A k \in 0 .. m - 1 : k \in S
  BY <1>2
<1> QED
  BY <1>2, <1>3

-----------------------------------------------------------------------------
\* Joined[k] is the first k sequences one after the other.
Joins(f, seqs, n) ==
  f = [k \in 1 .. n |-> IF k = 1 THEN seqs[k] ELSE f[k - 1] \o seqs[k]]

LEMMA FlattenMeans ==
  ASSUME NEW seqs, Len(seqs) # 0
  PROVE  FlattenSeq(seqs) = (CHOOSE f : Joins(f, seqs, Len(seqs)))[Len(seqs)]
BY DEF FlattenSeq, Joins

Texts == Seq(Seq(Nat))

LEMMA JoinExists ==
  ASSUME NEW seqs \in Texts
  PROVE  \A n \in Nat : n <= Len(seqs) => \E f \in [1 .. n -> Seq(Nat)] : Joins(f, seqs, n)
<1> DEFINE P(n) == n <= Len(seqs) => \E f \in [1 .. n -> Seq(Nat)] : Joins(f, seqs, n)
           S == {n \in Nat : P(n)}
<1>1. ASSUME NEW n \in Nat, \A m \in 0 .. n - 1 : P(m)
      PROVE  P(n)
  <2>1. SUFFICES ASSUME n <= Len(seqs)
                 PROVE  \E f \in [1 .. n -> Seq(Nat)] : Joins(f, seqs, n)
    OBVIOUS
  <2>2. CASE n = 0
    <3> DEFINE f == [k \in 1 .. n |-> << >>]
    <3>1. f \in [1 .. n -> Seq(Nat)]
      OBVIOUS
    <3>2. f = [k \in 1 .. n |-> IF k = 1 THEN seqs[k] ELSE f[k - 1] \o seqs[k]]
      BY <2>2
    <3> QED
      BY <3>1, <3>2 DEF Joins
  <2>3. CASE n > 0
    <3>1. PICK g \in [1 .. n - 1 -> Seq(Nat)] : Joins(g, seqs, n - 1)
      <4>1. n - 1 \in 0 .. n - 1 /\ n - 1 <= Len(seqs)
        BY <2>1, <2>3
      <4> QED
        BY <1>1, <4>1
    <3>2. \A k \in 1 .. n - 1 : g[k] = IF k = 1 THEN seqs[k] ELSE g[k - 1] \o seqs[k]
      BY <3>1 DEF Joins
    <3>3. \A k \in 1 .. n : seqs[k] \in Seq(Nat)
      BY <2>1 DEF Texts
    <3> DEFINE last == IF n = 1 THEN seqs[n] ELSE g[n - 1] \o seqs[n]
               f == [k \in 1 .. n |-> IF k = n THEN last ELSE g[k]]
    <3>4. last \in Seq(Nat)
      <4>1. CASE n = 1
        BY <3>3, <4>1
      <4>2. CASE n # 1
        <5>1. g[n - 1] \in Seq(Nat) /\ seqs[n] \in Seq(Nat)
          BY <2>3, <3>3, <4>2
        <5> QED
          BY <4>2, <5>1
      <4> QED
        BY <4>1, <4>2
    <3>5. f \in [1 .. n -> Seq(Nat)]
      <4> HIDE DEF last
      <4> QED
        BY <3>4
    <3>6. \A k \in 1 .. n : f[k] = IF k = 1 THEN seqs[k] ELSE f[k - 1] \o seqs[k]
      <4>1. TAKE k \in 1 .. n
      <4>2. CASE k = n
        <5>1. n # 1 => f[k - 1] = g[n - 1]
          BY <2>3, <4>2
        <5>2. f[k] = last
          BY <4>2
        <5> HIDE DEF f
        <5> QED
          BY <4>2, <5>1, <5>2
      <4>3. CASE k # n
        <5>1. k \in 1 .. n - 1 /\ f[k] = g[k] /\ (k # 1 => f[k - 1] = g[k - 1])
          BY <4>3
        <5> HIDE DEF f
        <5> QED
          BY <3>2, <5>1
      <4> QED
        BY <4>2, <4>3
    <3> HIDE DEF f
    <3>7. f = [k \in 1 .. n |-> IF k = 1 THEN seqs[k] ELSE f[k - 1] \o seqs[k]]
      BY <3>5, <3>6
    <3> QED
      BY <3>5, <3>7 DEF Joins
  <2> QED
    BY <2>2, <2>3
<1>2. \A n \in Nat : (\A m \in 0 .. n - 1 : m \in S) => n \in S
  <2>1. TAKE n \in Nat
  <2>2. HAVE \A m \in 0 .. n - 1 : m \in S
  <2>3. \A m \in 0 .. n - 1 : P(m)
    BY <2>2
  <2>4. P(n)
    BY <1>1, <2>3
  <2> QED
    BY <2>4
<1>3. S = Nat
  <2>1. S \in SUBSET Nat
    OBVIOUS
  <2> HIDE DEF S
  <2> QED
    BY <1>2, <2>1, Induction
<1> QED
  BY <1>3

Alike(f, g, n) == \A k \in 1 .. n : f[k] = g[k]

\* Two rows of sequences that begin alike are joined alike so far.
LEMMA JoinsAgree ==
  ASSUME NEW seqs, NEW more, NEW n \in Nat, NEW p \in Nat, NEW f, NEW g,
         n <= p, Alike(seqs, more, n), Joins(f, seqs, n), Joins(g, more, p)
  PROVE  Alike(f, g, n)
<1> DEFINE P(k) == k \in 1 .. n => f[k] = g[k]
           S == {k \in Nat : P(k)}
<1>1. ASSUME NEW k \in Nat, \A m \in 0 .. k - 1 : P(m)
      PROVE  P(k)
  <2>1. SUFFICES ASSUME k \in 1 .. n
                 PROVE  f[k] = g[k]
    OBVIOUS
  <2>2. /\ f[k] = IF k = 1 THEN seqs[k] ELSE f[k - 1] \o seqs[k]
        /\ g[k] = IF k = 1 THEN more[k] ELSE g[k - 1] \o more[k]
    <3>1. k \in 1 .. p
      BY <2>1
    <3> QED
      BY <2>1, <3>1 DEF Joins
  <2>3. k # 1 => f[k - 1] = g[k - 1]
    <3>1. k # 1 => k - 1 \in 0 .. k - 1 /\ k - 1 \in 1 .. n
      BY <2>1
    <3> QED
      BY <1>1, <3>1
  <2>4. seqs[k] = more[k]
    BY <2>1 DEF Alike
  <2> QED
    BY <2>1, <2>2, <2>3, <2>4
<1>2. \A k \in Nat : (\A m \in 0 .. k - 1 : m \in S) => k \in S
  <2>1. TAKE k \in Nat
  <2>2. HAVE \A m \in 0 .. k - 1 : m \in S
  <2>3. \A m \in 0 .. k - 1 : P(m)
    BY <2>2
  <2>4. P(k)
    BY <1>1, <2>3
  <2> QED
    BY <2>4
<1>3. S = Nat
  <2>1. S \in SUBSET Nat
    OBVIOUS
  <2> HIDE DEF S
  <2> QED
    BY <1>2, <2>1, Induction
<1>4. \A k \in 1 .. n : k \in S
  BY <1>3
<1> QED
  BY <1>4 DEF Alike

LEMMA FlattenIs ==
  ASSUME NEW seqs \in Texts, Len(seqs) # 0
  PROVE  \E f \in [1 .. Len(seqs) -> Seq(Nat)] :
           Joins(f, seqs, Len(seqs)) /\ FlattenSeq(seqs) = f[Len(seqs)]
<1> DEFINE n == Len(seqs)
           g == CHOOSE f : Joins(f, seqs, n)
<1>1. n \in Nat /\ n > 0
  BY DEF Texts
<1>2. PICK f \in [1 .. n -> Seq(Nat)] : Joins(f, seqs, n)
  BY <1>1, JoinExists
<1>3. Joins(g, seqs, n)
  BY <1>2
<1>4. FlattenSeq(seqs) = g[n]
  BY FlattenMeans
<1> HIDE DEF g, n
<1>5. Alike(g, f, n)
  <2>1. n <= n /\ Alike(seqs, seqs, n)
    BY <1>1 DEF Alike
  <2> QED
    BY <1>1, <1>2, <1>3, <2>1, JoinsAgree
<1>6. FlattenSeq(seqs) = f[n]
  BY <1>1, <1>4, <1>5 DEF Alike
<1> QED
  BY <1>2, <1>6 DEF n

LEMMA FlattenNone == FlattenSeq(<< >>) = << >>
BY DEF FlattenSeq

LEMMA FlattenType ==
  ASSUME NEW seqs \in Texts
  PROVE  FlattenSeq(seqs) \in Seq(Nat)
<1>1. CASE Len(seqs) = 0
  <2>1. seqs = << >>
    BY <1>1 DEF Texts
  <2>2. << >> \in Seq(Nat)
    OBVIOUS
  <2> QED
    BY <2>1, <2>2, FlattenNone
<1>2. CASE Len(seqs) # 0
  <2>1. Len(seqs) \in 1 .. Len(seqs)
    BY <1>2 DEF Texts
  <2> QED
    BY <1>2, <2>1, FlattenIs
<1> QED
  BY <1>1, <1>2

\* The last sequence comes last.
LEMMA FlattenMore ==
  ASSUME NEW seqs \in Texts, NEW x \in Seq(Nat)
  PROVE  FlattenSeq(Append(seqs, x)) = FlattenSeq(seqs) \o x
<1> DEFINE n == Len(seqs)
           more == Append(seqs, x)
<1>1. /\ n \in Nat /\ more \in Texts /\ Len(more) = n + 1 /\ more[n + 1] = x
      /\ \A k \in 1 .. n : more[k] = seqs[k]
  BY DEF Texts
<1> HIDE DEF more
<1>2. PICK g \in [1 .. n + 1 -> Seq(Nat)] :
        Joins(g, more, n + 1) /\ FlattenSeq(more) = g[n + 1]
  BY <1>1, FlattenIs
<1>3. g[n + 1] = IF n + 1 = 1 THEN more[n + 1] ELSE g[n] \o more[n + 1]
  <2> HIDE DEF n
  <2>1. n + 1 \in 1 .. n + 1 /\ (n + 1) - 1 = n
    BY <1>1
  <2> QED
    BY <1>2, <2>1 DEF Joins
<1>4. CASE n = 0
  <2>1. seqs = << >>
    BY <1>4 DEF Texts
  <2>2. FlattenSeq(seqs) = << >>
    BY <2>1, FlattenNone
  <2>3. << >> \o x = x
    OBVIOUS
  <2> QED
    BY <1>1, <1>2, <1>3, <1>4, <2>2, <2>3 DEF more
<1>5. CASE n # 0
  <2>1. PICK f \in [1 .. n -> Seq(Nat)] : Joins(f, seqs, n) /\ FlattenSeq(seqs) = f[n]
    BY <1>5, FlattenIs
  <2>2. f[n] = g[n]
    <3>1. Alike(f, g, n)
      <4> HIDE DEF n
      <4>1. n <= n + 1 /\ n + 1 \in Nat /\ Alike(seqs, more, n)
        BY <1>1 DEF Alike
      <4> QED
        BY <1>1, <1>2, <2>1, <4>1, JoinsAgree
    <3> QED
      BY <1>1, <1>5, <3>1 DEF Alike
  <2>3. g[n + 1] = g[n] \o x
    BY <1>1, <1>3, <1>5
  <2> QED
    BY <1>2, <2>1, <2>2, <2>3 DEF more
<1> QED
  BY <1>4, <1>5

\* What the first sequences make stays the beginning of what all of them make.
LEMMA FlattenBegins ==
  ASSUME NEW seqs \in Texts, NEW n \in 0 .. Len(seqs)
  PROVE  LET part == FlattenSeq(SubSeq(seqs, 1, n))
             all == FlattenSeq(seqs)
         IN  /\ part \in Seq(Nat) /\ all \in Seq(Nat) /\ Len(part) <= Len(all)
             /\ \A j \in 1 .. Len(part) : all[j] = part[j]
<1> DEFINE F(m) == FlattenSeq(SubSeq(seqs, 1, m))
           P(m) == n <= m /\ m <= Len(seqs) =>
                     /\ Len(F(n)) <= Len(F(m))
                     /\ \A j \in 1 .. Len(F(n)) : F(m)[j] = F(n)[j]
           S == {m \in Nat : P(m)}
<1>1. Len(seqs) \in Nat /\ n \in Nat /\ n <= Len(seqs)
  BY DEF Texts
<1>2. \A m \in 0 .. Len(seqs) : SubSeq(seqs, 1, m) \in Texts
  BY DEF Texts
<1>3. \A m \in 0 .. Len(seqs) : F(m) \in Seq(Nat)
  BY <1>2, FlattenType
<1>4. ASSUME NEW m \in Nat, m + 1 <= Len(seqs)
      PROVE  /\ F(m) \in Seq(Nat) /\ seqs[m + 1] \in Seq(Nat)
             /\ F(m + 1) = F(m) \o seqs[m + 1]
  <2>1. m \in 0 .. Len(seqs) /\ seqs[m + 1] \in Seq(Nat)
    BY <1>4 DEF Texts
  <2>2. SubSeq(seqs, 1, m + 1) = Append(SubSeq(seqs, 1, m), seqs[m + 1])
    BY <1>4 DEF Texts
  <2> QED
    BY <1>2, <1>3, <2>1, <2>2, FlattenMore
<1>5. ASSUME NEW m \in Nat, \A k \in 0 .. m - 1 : P(k)
      PROVE  P(m)
  <2>1. SUFFICES ASSUME n <= m, m <= Len(seqs)
                 PROVE  /\ Len(F(n)) <= Len(F(m))
                        /\ \A j \in 1 .. Len(F(n)) : F(m)[j] = F(n)[j]
    OBVIOUS
  <2>2. CASE m = n
    <3>1. F(n) \in Seq(Nat)
      BY <1>1, <1>3
    <3> HIDE DEF F
    <3> QED
      BY <2>2, <3>1
  <2>3. CASE m # n
    <3>1. PICK k \in Nat : m = k + 1
      <4>1. m - 1 \in Nat /\ m = (m - 1) + 1
        BY <1>1, <2>1, <2>3
      <4> QED
        BY <4>1
    <3>2. n <= k /\ k \in 0 .. m - 1 /\ k + 1 <= Len(seqs) /\ k <= Len(seqs)
      BY <1>1, <2>1, <2>3, <3>1
    <3>3. /\ F(k) \in Seq(Nat) /\ seqs[k + 1] \in Seq(Nat)
          /\ F(k + 1) = F(k) \o seqs[k + 1]
      BY <1>4, <3>2
    <3>4. /\ Len(F(n)) <= Len(F(k))
          /\ \A j \in 1 .. Len(F(n)) : F(k)[j] = F(n)[j]
      BY <1>5, <3>2
    <3>5. F(n) \in Seq(Nat)
      BY <1>1, <1>3
    <3> HIDE DEF F
    <3>6. /\ Len(F(k + 1)) >= Len(F(k))
          /\ \A j \in 1 .. Len(F(k)) : F(k + 1)[j] = F(k)[j]
      BY <3>3
    <3> QED
      BY <3>1, <3>3, <3>4, <3>5, <3>6
  <2> QED
    BY <2>2, <2>3
<1>6. \A m \in Nat : (\A k \in 0 .. m - 1 : k \in S) => m \in S
  <2> HIDE DEF P
  <2>1. TAKE m \in Nat
  <2>2. HAVE \A k \in 0 .. m - 1 : k \in S
  <2>3. \A k \in 0 .. m - 1 : P(k)
    BY <2>2
  <2>4. P(m)
    BY <1>5, <2>3
  <2> QED
    BY <2>4
<1>7. S = Nat
  <2>1. S \in SUBSET Nat
    OBVIOUS
  <2> HIDE DEF S
  <2> QED
    BY <1>6, <2>1, Induction
<1>8. P(Len(seqs))
  <2> HIDE DEF P
  <2> QED
    BY <1>1, <1>7
<1>9. SubSeq(seqs, 1, Len(seqs)) = seqs
  BY DEF Texts
<1>10. F(n) \in Seq(Nat) /\ F(Len(seqs)) \in Seq(Nat)
  <2> HIDE DEF F
  <2> QED
    BY <1>1, <1>3
<1>11. /\ Len(F(n)) <= Len(F(Len(seqs)))
       /\ \A j \in 1 .. Len(F(n)) : F(Len(seqs))[j] = F(n)[j]
  BY <1>1, <1>8
<1> QED
  BY <1>9, <1>10, <1>11

-----------------------------------------------------------------------------
\* The digits of a number.
Bases == {10, 16}

LEMMA Quotient ==
  ASSUME NEW b \in Bases, NEW n \in Nat
  PROVE  /\ n \div b \in Nat /\ n % b \in 0 .. b - 1
         /\ n = b * (n \div b) + (n % b)
         /\ n > 0 => n \div b <= n - 1
<1>1. CASE b = 10
  BY <1>1
<1>2. CASE b = 16
  BY <1>2
<1> QED
  BY <1>1, <1>2 DEF Bases

LEMMA Shorter ==
  ASSUME NEW b \in Bases, NEW n \in Nat, n > 0
  PROVE  n \div b \in 0 .. n - 1
<1>1. CASE b = 10
  BY <1>1
<1>2. CASE b = 16
  BY <1>2
<1> QED
  BY <1>1, <1>2 DEF Bases

LEMMA DigitsFit ==
  ASSUME NEW b \in Bases, NEW d \in 0 .. b - 1
  PROVE  /\ Digit(d) \in (zero .. zero + 9) \union (letter_a .. letter_a + b - 11)
         /\ Digit(d) \in Nat /\ DigitValue(Digit(d)) = d
         /\ d # 0 => Digit(d) # zero
BY DEF Bases, Digit, DigitValue, zero, letter_a

\* Buffers[m] holds the digits of m.
Buffers(f, b, n) ==
  f = [m \in 0 .. n |-> IF m = 0 THEN << >> ELSE <<Digit(m % b)>> \o f[m \div b]]

LEMMA BufMeans ==
  ASSUME NEW n, NEW b
  PROVE  Buf(n, b) = (CHOOSE f : Buffers(f, b, n))[n]
BY DEF Buf, Buffers

LEMMA BufExists ==
  ASSUME NEW b \in Bases
  PROVE  \A n \in Nat : \E f \in [0 .. n -> Seq(Nat)] : Buffers(f, b, n)
<1> DEFINE P(n) == \E f \in [0 .. n -> Seq(Nat)] : Buffers(f, b, n)
           S == {n \in Nat : P(n)}
<1>1. ASSUME NEW n \in Nat, \A m \in 0 .. n - 1 : P(m)
      PROVE  P(n)
  <2>1. CASE n = 0
    <3> DEFINE f == [m \in 0 .. n |-> << >>]
    <3>1. f \in [0 .. n -> Seq(Nat)]
      OBVIOUS
    <3>2. f = [m \in 0 .. n |-> IF m = 0 THEN << >> ELSE <<Digit(m % b)>> \o f[m \div b]]
      BY <2>1
    <3> QED
      BY <3>1, <3>2 DEF Buffers
  <2>2. CASE n > 0
    <3>1. PICK g \in [0 .. n - 1 -> Seq(Nat)] : Buffers(g, b, n - 1)
      BY <1>1, <2>2
    <3> DEFINE last == <<Digit(n % b)>> \o g[n \div b]
               f == [k \in 0 .. n |-> IF k = n THEN last ELSE g[k]]
    <3>2. last \in Seq(Nat)
      <4>1. g[n \div b] \in Seq(Nat)
        <5>1. n \div b \in 0 .. n - 1
          BY <2>2, Shorter
        <5> QED
          BY <5>1
      <4>2. Digit(n % b) \in Nat
        BY Quotient, DigitsFit
      <4> QED
        BY <4>1, <4>2
    <3>3. f \in [0 .. n -> Seq(Nat)]
      <4> HIDE DEF last
      <4> QED
        BY <3>2
    <3>4. \A m \in 0 .. n : f[m] = IF m = 0 THEN << >> ELSE <<Digit(m % b)>> \o f[m \div b]
      <4>1. TAKE m \in 0 .. n
      <4>2. m > 0 => m \div b \in 0 .. m - 1
        <5>1. m \in Nat
          OBVIOUS
        <5> QED
          BY <5>1, Shorter
      <4>3. m > 0 => f[m \div b] = g[m \div b]
        BY <4>2
      <4>4. CASE m = n
        <5>1. f[m] = last /\ m > 0 /\ m # 0
          BY <2>2, <4>4
        <5>2. last = <<Digit(m % b)>> \o g[m \div b]
          BY <4>4
        <5> HIDE DEF f, last
        <5> QED
          BY <4>3, <5>1, <5>2, Zenon
      <4>5. CASE m # n
        <5>1. m \in 0 .. n - 1 /\ f[m] = g[m]
          BY <4>5
        <5>2. g[m] = IF m = 0 THEN << >> ELSE <<Digit(m % b)>> \o g[m \div b]
          BY <3>1, <5>1 DEF Buffers
        <5> HIDE DEF f
        <5> QED
          BY <4>3, <5>1, <5>2
      <4> QED
        BY <4>4, <4>5
    <3> HIDE DEF f
    <3>5. f = [m \in 0 .. n |-> IF m = 0 THEN << >> ELSE <<Digit(m % b)>> \o f[m \div b]]
      BY <3>3, <3>4
    <3> QED
      BY <3>3, <3>5 DEF Buffers
  <2> QED
    BY <2>1, <2>2
<1>2. \A n \in Nat : (\A m \in 0 .. n - 1 : m \in S) => n \in S
  <2>1. TAKE n \in Nat
  <2>2. HAVE \A m \in 0 .. n - 1 : m \in S
  <2>3. \A m \in 0 .. n - 1 : P(m)
    BY <2>2
  <2>4. P(n)
    BY <1>1, <2>3
  <2> QED
    BY <2>4
<1>3. S = Nat
  <2>1. S \in SUBSET Nat
    OBVIOUS
  <2> HIDE DEF S
  <2> QED
    BY <1>2, <2>1, Induction
<1> QED
  BY <1>3

\* Two such tables agree, where both have an entry.
LEMMA BuffersAgree ==
  ASSUME NEW b \in Bases, NEW n \in Nat, NEW p \in Nat, NEW f, NEW g,
         Buffers(f, b, n), Buffers(g, b, p)
  PROVE  \A k \in Nat : k <= n /\ k <= p => f[k] = g[k]
<1> DEFINE P(k) == k <= n /\ k <= p => f[k] = g[k]
           S == {k \in Nat : P(k)}
<1>1. ASSUME NEW k \in Nat, \A m \in 0 .. k - 1 : P(m)
      PROVE  P(k)
  <2>1. SUFFICES ASSUME k <= n, k <= p
                 PROVE  f[k] = g[k]
    OBVIOUS
  <2>2. /\ f[k] = IF k = 0 THEN << >> ELSE <<Digit(k % b)>> \o f[k \div b]
        /\ g[k] = IF k = 0 THEN << >> ELSE <<Digit(k % b)>> \o g[k \div b]
    <3>1. k \in 0 .. n /\ k \in 0 .. p
      BY <2>1
    <3> QED
      BY <3>1 DEF Buffers
  <2>3. k > 0 => f[k \div b] = g[k \div b]
    <3>1. k > 0 => k \div b \in 0 .. k - 1
      BY Shorter
    <3> DEFINE q == k \div b
    <3>2. k > 0 => P(q)
      BY <1>1, <3>1
    <3> HIDE DEF q
    <3>3. k > 0 => q <= n /\ q <= p
      BY <2>1, <3>1 DEF q
    <3> QED
      BY <3>2, <3>3 DEF q
  <2> QED
    BY <2>2, <2>3
<1>2. \A n_1 \in Nat : (\A m \in 0 .. n_1 - 1 : m \in S) => n_1 \in S
  <2>1. TAKE k \in Nat
  <2>2. HAVE \A m \in 0 .. k - 1 : m \in S
  <2>3. \A m \in 0 .. k - 1 : P(m)
    BY <2>2
  <2>4. P(k)
    BY <1>1, <2>3
  <2> QED
    BY <2>4
<1>3. S = Nat
  <2>1. S \in SUBSET Nat
    OBVIOUS
  <2> HIDE DEF S
  <2> QED
    BY <1>2, <2>1, Induction
<1> QED
  BY <1>3

LEMMA BufIs ==
  ASSUME NEW b \in Bases, NEW n \in Nat, NEW p \in Nat, p <= n, NEW f, Buffers(f, b, n)
  PROVE  Buf(p, b) = f[p]
<1> DEFINE g == CHOOSE h : Buffers(h, b, p)
<1>1. Buf(p, b) = g[p]
  BY BufMeans
<1>2. Buffers(g, b, p)
  BY BufExists
<1> HIDE DEF g
<1>3. \A k \in Nat : k <= n /\ k <= p => f[k] = g[k]
  BY <1>2, BuffersAgree
<1> QED
  BY <1>1, <1>3

\* What the digit loop does: the last digit first, then those of the quotient.
LEMMA BufLoop ==
  ASSUME NEW b \in Bases, NEW n \in Nat
  PROVE  /\ Buf(n, b) \in Seq(Nat)
         /\ Buf(n, b) = IF n = 0 THEN << >> ELSE <<Digit(n % b)>> \o Buf(n \div b, b)
<1>1. PICK f \in [0 .. n -> Seq(Nat)] : Buffers(f, b, n)
  BY BufExists
<1>2. Buf(n, b) = f[n] /\ n \in 0 .. n
  BY <1>1, BufIs
<1>3. f[n] = IF n = 0 THEN << >> ELSE <<Digit(n % b)>> \o f[n \div b]
  BY <1>1, <1>2 DEF Buffers
<1>4. n > 0 => Buf(n \div b, b) = f[n \div b]
  <2> DEFINE q == n \div b
  <2>1. n > 0 => q \in Nat /\ q <= n
    BY Quotient
  <2> HIDE DEF q
  <2>2. n > 0 => Buf(q, b) = f[q]
    BY <1>1, <2>1, BufIs
  <2> QED
    BY <2>2 DEF q
<1>5. Buf(n, b) = IF n = 0 THEN << >> ELSE <<Digit(n % b)>> \o Buf(n \div b, b)
  <2>1. CASE n = 0
    BY <1>2, <1>3, <2>1
  <2>2. CASE n # 0
    <3>1. n > 0
      BY <2>2
    <3>2. f[n] = <<Digit(n % b)>> \o f[n \div b] /\ Buf(n \div b, b) = f[n \div b]
      BY <1>3, <1>4, <2>2, <3>1
    <3> QED
      BY <1>2, <2>2, <3>2, Zenon
  <2> QED
    BY <2>1, <2>2
<1>6. Buf(n, b) \in Seq(Nat)
  BY <1>1, <1>2, Zenon
<1> QED
  BY <1>5, <1>6, Zenon

-----------------------------------------------------------------------------
\* What a row of digits says.  Reads[k] is the number read after k of them.
Reads(f, text, b, n) ==
  f = [k \in 0 .. n |-> IF k = 0 THEN 0 ELSE b * f[k - 1] + DigitValue(text[k])]

LEMMA ValueMeans ==
  ASSUME NEW text, NEW b
  PROVE  ValueOf(text, b) = (CHOOSE f : Reads(f, text, b, Len(text)))[Len(text)]
BY DEF ValueOf, Reads

LEMMA DigitValueType == \A c \in Nat : DigitValue(c) \in Int
BY DEF DigitValue, zero, letter_a

LEMMA ReadExists ==
  ASSUME NEW text \in Seq(Nat), NEW b \in Bases
  PROVE  \A n \in Nat : n <= Len(text) => \E f \in [0 .. n -> Int] : Reads(f, text, b, n)
<1> DEFINE P(n) == n <= Len(text) => \E f \in [0 .. n -> Int] : Reads(f, text, b, n)
           S == {n \in Nat : P(n)}
<1>1. ASSUME NEW n \in Nat, \A m \in 0 .. n - 1 : P(m)
      PROVE  P(n)
  <2>1. SUFFICES ASSUME n <= Len(text)
                 PROVE  \E f \in [0 .. n -> Int] : Reads(f, text, b, n)
    OBVIOUS
  <2>2. CASE n = 0
    <3> DEFINE f == [k \in 0 .. n |-> 0]
    <3>1. f \in [0 .. n -> Int]
      OBVIOUS
    <3>2. f = [k \in 0 .. n |-> IF k = 0 THEN 0 ELSE b * f[k - 1] + DigitValue(text[k])]
      BY <2>2
    <3> QED
      BY <3>1, <3>2 DEF Reads
  <2>3. CASE n > 0
    <3>1. PICK g \in [0 .. n - 1 -> Int] : Reads(g, text, b, n - 1)
      <4>1. n - 1 \in 0 .. n - 1 /\ n - 1 <= Len(text)
        BY <2>1, <2>3
      <4> QED
        BY <1>1, <4>1
    <3> DEFINE last == b * g[n - 1] + DigitValue(text[n])
               f == [k \in 0 .. n |-> IF k = n THEN last ELSE g[k]]
    <3>2. last \in Int
      <4>1. g[n - 1] \in Int /\ b \in Int
        BY <2>3 DEF Bases
      <4>2. DigitValue(text[n]) \in Int
        <5>1. n \in 1 .. Len(text)
          BY <2>1, <2>3
        <5>2. text[n] \in Nat
          BY <5>1
        <5> QED
          BY <5>2, DigitValueType, Zenon
      <4>3. b * g[n - 1] \in Int
        BY <4>1
      <4> QED
        BY <4>2, <4>3
    <3>3. f \in [0 .. n -> Int]
      <4> HIDE DEF last
      <4> QED
        BY <3>2
    <3>4. \A k \in 0 .. n : f[k] = IF k = 0 THEN 0 ELSE b * f[k - 1] + DigitValue(text[k])
      <4>1. TAKE k \in 0 .. n
      <4>2. CASE k = n
        <5>1. f[k - 1] = g[n - 1] /\ k # 0
          BY <2>3, <4>2
        <5>2. f[k] = last
          BY <4>2
        <5> HIDE DEF f
        <5> QED
          BY <4>2, <5>1, <5>2
      <4>3. CASE k # n
        <5>1. k \in 0 .. n - 1 /\ f[k] = g[k] /\ (k # 0 => f[k - 1] = g[k - 1])
          BY <4>3
        <5>2. g[k] = IF k = 0 THEN 0 ELSE b * g[k - 1] + DigitValue(text[k])
          BY <3>1, <5>1 DEF Reads
        <5> HIDE DEF f
        <5> QED
          BY <5>1, <5>2
      <4> QED
        BY <4>2, <4>3
    <3> HIDE DEF f
    <3>5. f = [k \in 0 .. n |-> IF k = 0 THEN 0 ELSE b * f[k - 1] + DigitValue(text[k])]
      BY <3>3, <3>4
    <3> QED
      BY <3>3, <3>5 DEF Reads
  <2> QED
    BY <2>2, <2>3
<1>2. \A n \in Nat : (\A m \in 0 .. n - 1 : m \in S) => n \in S
  <2>1. TAKE n \in Nat
  <2>2. HAVE \A m \in 0 .. n - 1 : m \in S
  <2>3. \A m \in 0 .. n - 1 : P(m)
    BY <2>2
  <2>4. P(n)
    BY <1>1, <2>3
  <2> QED
    BY <2>4
<1>3. S = Nat
  <2>1. S \in SUBSET Nat
    OBVIOUS
  <2> HIDE DEF S
  <2> QED
    BY <1>2, <2>1, Induction
<1> QED
  BY <1>3

\* Two rows that begin alike say the same so far.
LEMMA ReadsAgree ==
  ASSUME NEW text, NEW more, NEW b, NEW n \in Nat, NEW p \in Nat, NEW f, NEW g,
         n <= p, Alike(text, more, n), Reads(f, text, b, n), Reads(g, more, b, p)
  PROVE  f[n] = g[n]
<1> DEFINE P(k) == k <= n => f[k] = g[k]
           S == {k \in Nat : P(k)}
<1>1. ASSUME NEW k \in Nat, \A m \in 0 .. k - 1 : P(m)
      PROVE  P(k)
  <2>1. SUFFICES ASSUME k <= n
                 PROVE  f[k] = g[k]
    OBVIOUS
  <2>2. /\ f[k] = IF k = 0 THEN 0 ELSE b * f[k - 1] + DigitValue(text[k])
        /\ g[k] = IF k = 0 THEN 0 ELSE b * g[k - 1] + DigitValue(more[k])
    <3>1. k \in 0 .. n /\ k \in 0 .. p
      BY <2>1
    <3>2. f[k] = IF k = 0 THEN 0 ELSE b * f[k - 1] + DigitValue(text[k])
      BY <3>1, Zenon DEF Reads
    <3>3. g[k] = IF k = 0 THEN 0 ELSE b * g[k - 1] + DigitValue(more[k])
      BY <3>1, Zenon DEF Reads
    <3> QED
      BY <3>2, <3>3, Zenon
  <2>3. k # 0 => f[k - 1] = g[k - 1]
    <3>1. k # 0 => k - 1 \in 0 .. k - 1 /\ k - 1 <= n
      BY <2>1
    <3> QED
      BY <1>1, <3>1
  <2>4. k # 0 => text[k] = more[k]
    <3>1. k # 0 => k \in 1 .. n
      BY <2>1
    <3> QED
      BY <3>1, Zenon DEF Alike
  <2>5. CASE k = 0
    BY <2>2, <2>5, Zenon
  <2>6. CASE k # 0
    BY <2>2, <2>3, <2>4, <2>6, Zenon
  <2> QED
    BY <2>5, <2>6
<1>2. \A k \in Nat : (\A m \in 0 .. k - 1 : m \in S) => k \in S
  <2>1. TAKE k \in Nat
  <2>2. HAVE \A m \in 0 .. k - 1 : m \in S
  <2>3. \A m \in 0 .. k - 1 : P(m)
    BY <2>2
  <2>4. P(k)
    BY <1>1, <2>3
  <2> QED
    BY <2>4
<1>3. S = Nat
  <2>1. S \in SUBSET Nat
    OBVIOUS
  <2> HIDE DEF S
  <2> QED
    BY <1>2, <2>1, Induction
<1>4. n \in S
  BY <1>3
<1> QED
  BY <1>4

LEMMA ValueIs ==
  ASSUME NEW text \in Seq(Nat), NEW more, NEW b \in Bases, NEW p \in Nat, NEW g,
         Len(text) <= p, Alike(text, more, Len(text)), Reads(g, more, b, p)
  PROVE  ValueOf(text, b) = g[Len(text)]
<1> DEFINE n == Len(text)
           f == CHOOSE h : Reads(h, text, b, n)
<1>1. ValueOf(text, b) = f[n]
  BY ValueMeans
<1>2. n \in Nat /\ n <= Len(text)
  OBVIOUS
<1>3. Reads(f, text, b, n)
  BY <1>2, ReadExists
<1> HIDE DEF f
<1>4. f[n] = g[n]
  <2> HIDE DEF n
  <2>1. n <= p /\ Alike(text, more, n)
    BY DEF n
  <2> QED
    BY <1>2, <1>3, <2>1, ReadsAgree
<1> QED
  BY <1>1, <1>4

LEMMA ValueNone ==
  ASSUME NEW b \in Bases
  PROVE  ValueOf(<< >>, b) = 0
<1>1. << >> \in Seq(Nat) /\ Len(<< >>) = 0
  OBVIOUS
<1>2. PICK g \in [0 .. 0 -> Int] : Reads(g, << >>, b, 0)
  <2>1. \A n \in Nat : n <= Len(<< >>) => \E g \in [0 .. n -> Int] : Reads(g, << >>, b, n)
    BY <1>1, ReadExists, Zenon
  <2>2. 0 \in Nat /\ 0 <= Len(<< >>)
    BY <1>1
  <2> QED
    BY <2>1, <2>2, Zenon
<1>3. Alike(<< >>, << >>, 0)
  BY DEF Alike
<1>4. ValueOf(<< >>, b) = g[0]
  BY <1>1, <1>2, <1>3, ValueIs
<1>5. g[0] = 0
  <2>1. 0 \in 0 .. 0
    OBVIOUS
  <2> QED
    BY <1>2, <2>1 DEF Reads
<1> QED
  BY <1>4, <1>5

\* One more digit.
LEMMA ValueMore ==
  ASSUME NEW text \in Seq(Nat), NEW c \in Nat, NEW b \in Bases
  PROVE  /\ ValueOf(text, b) \in Int
         /\ ValueOf(Append(text, c), b) = b * ValueOf(text, b) + DigitValue(c)
<1> DEFINE n == Len(text)
           more == Append(text, c)
<1>1. /\ n \in Nat /\ more \in Seq(Nat) /\ Len(more) = n + 1 /\ more[n + 1] = c
      /\ \A k \in 1 .. n : more[k] = text[k]
  OBVIOUS
<1> HIDE DEF more
<1>2. PICK g \in [0 .. n + 1 -> Int] : Reads(g, more, b, n + 1)
  <2>1. \A m \in Nat : m <= Len(more) => \E g \in [0 .. m -> Int] : Reads(g, more, b, m)
    BY <1>1, ReadExists, Zenon
  <2>2. n + 1 \in Nat /\ n + 1 <= Len(more)
    BY <1>1
  <2> QED
    BY <2>1, <2>2, Zenon
<1>3. Alike(text, more, n) /\ Alike(more, more, n + 1)
  BY <1>1 DEF Alike
<1>4. ValueOf(text, b) = g[n]
  BY <1>1, <1>2, <1>3, ValueIs
<1>5. ValueOf(more, b) = g[n + 1]
  BY <1>1, <1>2, <1>3, ValueIs
<1>6. g[n + 1] = b * g[n] + DigitValue(c)
  <2> HIDE DEF n
  <2>1. n + 1 \in 0 .. n + 1 /\ (n + 1) - 1 = n /\ n + 1 # 0
    BY <1>1
  <2>2. g[n + 1] = IF n + 1 = 0 THEN 0 ELSE b * g[(n + 1) - 1] + DigitValue(more[n + 1])
    BY <1>2, <2>1, Zenon DEF Reads
  <2> QED
    BY <1>1, <2>1, <2>2, Zenon
<1>7. g[n] \in Int
  BY <1>1
<1> QED
  BY <1>4, <1>5, <1>6, <1>7, Zenon DEF more

-----------------------------------------------------------------------------
\* The digits turned round are a numeral of the number.
Digits(b) == (zero .. zero + 9) \union (letter_a .. letter_a + b - 11)

LEMMA ReverseMore ==
  ASSUME NEW s \in Seq(Nat), NEW d \in Nat
  PROVE  /\ Reverse(s) \in Seq(Nat) /\ Len(Reverse(s)) = Len(s)
         /\ Reverse(<<d>> \o s) = Append(Reverse(s), d)
<1> DEFINE n == Len(s)
           more == <<d>> \o s
           long == Reverse(more)
           short == Reverse(s)
<1>1. /\ n \in Nat /\ more \in Seq(Nat) /\ Len(more) = n + 1 /\ more[1] = d
      /\ \A k \in 1 .. n : more[k + 1] = s[k] /\ s[k] \in Nat
  OBVIOUS
<1> HIDE DEF more, n
<1>2. long = [k \in 1 .. n + 1 |-> more[((n + 1) - k) + 1]]
  BY <1>1 DEF Reverse
<1>3. short = [k \in 1 .. n |-> s[(n - k) + 1]]
  BY <1>1 DEF Reverse, n
<1> HIDE DEF long, short
<1>4. \A k \in 1 .. n : (n - k) + 1 \in 1 .. n
  BY <1>1
<1>5. short \in [1 .. n -> Nat]
  BY <1>1, <1>3, <1>4
<1>6. short \in Seq(Nat) /\ Len(short) = n
  <2>1. n \in Nat
    BY <1>1
  <2> QED
    BY <1>5, <2>1
<1>7. \A k \in 1 .. n : long[k] = short[k]
  <2>1. TAKE k \in 1 .. n
  <2>2. ((n + 1) - k) + 1 = ((n - k) + 1) + 1 /\ k \in 1 .. n + 1
    BY <1>1
  <2>3. long[k] = more[((n - k) + 1) + 1]
    BY <1>2, <2>2
  <2>4. long[k] = s[(n - k) + 1]
    BY <1>1, <1>4, <2>3
  <2> QED
    BY <1>3, <2>4
<1>8. long[n + 1] = d
  <2>1. n + 1 \in 1 .. n + 1 /\ ((n + 1) - (n + 1)) + 1 = 1
    BY <1>1
  <2> QED
    BY <1>1, <1>2, <2>1
<1>9. long = Append(short, d)
  <2> DEFINE app == Append(short, d)
  <2>1. /\ app \in Seq(Nat) /\ Len(app) = n + 1 /\ app[n + 1] = d
        /\ \A k \in 1 .. n : app[k] = short[k]
    <3>1. d \in Nat /\ n \in Nat
      BY <1>1
    <3> QED
      BY <1>6, <3>1
  <2>2. app = [k \in 1 .. n + 1 |-> app[k]]
    <3> HIDE DEF app
    <3> QED
      BY <2>1
  <2> HIDE DEF app
  <2>3. \A k \in 1 .. n + 1 : k \in 1 .. n \/ k = n + 1
    BY <1>1
  <2>4. \A k \in 1 .. n + 1 : long[k] = app[k]
    BY <1>7, <1>8, <2>1, <2>3
  <2>5. long = [k \in 1 .. n + 1 |-> long[k]]
    BY <1>2
  <2>6. long = app
    BY <2>2, <2>4, <2>5
  <2> QED
    BY <2>6 DEF app
<1> QED
  BY <1>6, <1>9 DEF long, short, more, n

\* A numeral without leading zeros.
Spells(text, n, b) ==
  /\ text \in Seq(Nat) /\ Len(text) > 0
  /\ \A k \in 1 .. Len(text) : text[k] \in Digits(b)
  /\ ValueOf(text, b) = n
  /\ text[1] # zero

LEMMA OneDigit ==
  ASSUME NEW b \in Bases, NEW d \in 0 .. b - 1
  PROVE  /\ ValueOf(<<Digit(d)>>, b) = d /\ Digit(d) \in Digits(b)
         /\ d # 0 => Spells(<<Digit(d)>>, d, b)
<1>1. /\ Digit(d) \in Digits(b) /\ Digit(d) \in Nat /\ DigitValue(Digit(d)) = d
      /\ d # 0 => Digit(d) # zero
  BY DigitsFit DEF Digits
<1> DEFINE c == Digit(d)
<1> HIDE DEF c
<1>2. c \in Nat /\ DigitValue(c) = d
  BY <1>1 DEF c
<1>3. Append(<< >>, c) = <<c>> /\ << >> \in Seq(Nat)
  OBVIOUS
<1>4. ValueOf(<<c>>, b) = b * 0 + DigitValue(c)
  BY <1>2, <1>3, ValueMore, ValueNone
<1>5. ValueOf(<<c>>, b) = d
  BY <1>2, <1>4 DEF Bases
<1>6. d # 0 => Spells(<<c>>, d, b)
  <2>1. <<c>> \in Seq(Nat) /\ Len(<<c>>) > 0 /\ \A k \in 1 .. Len(<<c>>) : <<c>>[k] = c
    BY <1>2
  <2>2. <<c>>[1] = c
    OBVIOUS
  <2> DEFINE t == <<c>>
  <2> HIDE DEF t
  <2>3. t \in Seq(Nat) /\ Len(t) > 0 /\ (\A k \in 1 .. Len(t) : t[k] = c) /\ t[1] = c
    BY <2>1, <2>2 DEF t
  <2>4. ValueOf(t, b) = d
    BY <1>5 DEF t
  <2>5. c \in Digits(b) /\ (d # 0 => c # zero)
    BY <1>1 DEF c
  <2>6. d # 0 => Spells(t, d, b)
    BY <2>3, <2>4, <2>5, Zenon DEF Spells
  <2> QED
    BY <2>6 DEF t
<1> QED
  BY <1>1, <1>5, <1>6 DEF c

LEMMA OneMore ==
  ASSUME NEW b \in Bases, NEW d \in 0 .. b - 1, NEW q \in Nat, NEW text, Spells(text, q, b)
  PROVE  Spells(Append(text, Digit(d)), b * q + d, b)
<1> DEFINE c == Digit(d)
           more == Append(text, c)
<1>1. c \in Digits(b) /\ c \in Nat /\ DigitValue(c) = d
  BY DigitsFit DEF Digits
<1> HIDE DEF c
<1>2. text \in Seq(Nat) /\ Len(text) > 0 /\ text[1] # zero
      /\ \A k \in 1 .. Len(text) : text[k] \in Digits(b)
  BY DEF Spells
<1>3. ValueOf(more, b) = b * q + d
  BY <1>1, <1>2, ValueMore DEF Spells
<1>4. /\ more \in Seq(Nat) /\ Len(more) = Len(text) + 1 /\ more[Len(text) + 1] = c
      /\ \A k \in 1 .. Len(text) : more[k] = text[k]
  BY <1>1, <1>2
<1> HIDE DEF more
<1>5. Len(more) > 0 /\ more[1] # zero
  <2>1. Len(text) \in Nat /\ Len(text) > 0
    BY <1>2
  <2>2. 1 \in 1 .. Len(text) /\ Len(more) > 0
    BY <1>4, <2>1
  <2>3. more[1] = text[1]
    BY <1>4, <2>2, Zenon
  <2> QED
    BY <1>2, <2>2, <2>3, Zenon
<1>6. \A k \in 1 .. Len(more) : more[k] \in Digits(b)
  <2>1. \A k \in 1 .. Len(more) : k \in 1 .. Len(text) \/ k = Len(text) + 1
    BY <1>2, <1>4
  <2> QED
    BY <1>1, <1>2, <1>4, <2>1
<1>7. Spells(more, b * q + d, b)
  BY <1>3, <1>4, <1>5, <1>6, Zenon DEF Spells
<1> QED
  BY <1>7 DEF more, c

LEMMA BufSpells ==
  ASSUME NEW b \in Bases
  PROVE  \A n \in Nat : n > 0 => Spells(Reverse(Buf(n, b)), n, b)
<1> DEFINE P(n) == n > 0 => Spells(Reverse(Buf(n, b)), n, b)
           S == {n \in Nat : P(n)}
<1>1. ASSUME NEW n \in Nat, \A m \in 0 .. n - 1 : P(m)
      PROVE  P(n)
  <2>1. SUFFICES ASSUME n > 0 PROVE Spells(Reverse(Buf(n, b)), n, b)
    OBVIOUS
  <2> DEFINE q == n \div b
             d == n % b
  <2>2. /\ q \in Nat /\ d \in 0 .. b - 1 /\ n = b * q + d
        /\ q \in 0 .. n - 1
    BY <2>1, Quotient, Shorter
  <2>3. Buf(n, b) = <<Digit(d)>> \o Buf(q, b)
    BY <2>1, BufLoop
  <2> HIDE DEF q, d
  <2>4. Buf(q, b) \in Seq(Nat) /\ (q = 0 => Buf(q, b) = << >>)
    BY <2>2, BufLoop
  <2>5. Digit(d) \in Nat
    BY <2>2, DigitsFit
  <2>6. Reverse(Buf(n, b)) = Append(Reverse(Buf(q, b)), Digit(d))
    BY <2>3, <2>4, <2>5, ReverseMore
  <2>7. CASE q = 0
    <3>1. n = d /\ d # 0
      <4>1. b * q = 0
        BY <2>7 DEF Bases
      <4> QED
        BY <2>1, <2>2, <4>1
    <3>2. Reverse(Buf(q, b)) = << >>
      <4>1. Len(Buf(q, b)) = 0
        BY <2>4, <2>7
      <4>2. Reverse(Buf(q, b)) \in Seq(Nat) /\ Len(Reverse(Buf(q, b))) = 0
        BY <2>4, <2>5, <4>1, ReverseMore
      <4> QED
        BY <4>2
    <3>3. Append(<< >>, Digit(d)) = <<Digit(d)>>
      OBVIOUS
    <3>4. Spells(<<Digit(d)>>, d, b)
      BY <2>2, <3>1, OneDigit
    <3> QED
      BY <2>6, <3>1, <3>2, <3>3, <3>4
  <2>8. CASE q # 0
    <3>1. Spells(Reverse(Buf(q, b)), q, b)
      <4>1. q > 0
        BY <2>2, <2>8
      <4> QED
        BY <1>1, <2>2, <4>1
    <3>2. Spells(Append(Reverse(Buf(q, b)), Digit(d)), b * q + d, b)
      BY <2>2, <3>1, OneMore
    <3> QED
      BY <2>2, <2>6, <3>2, Zenon
  <2> QED
    BY <2>7, <2>8
<1>2. \A n \in Nat : (\A m \in 0 .. n - 1 : m \in S) => n \in S
  <2>1. TAKE n \in Nat
  <2>2. HAVE \A m \in 0 .. n - 1 : m \in S
  <2>3. \A m \in 0 .. n - 1 : P(m)
    BY <2>2
  <2>4. P(n)
    BY <1>1, <2>3
  <2> QED
    BY <2>4
<1>3. S = Nat
  <2>1. S \in SUBSET Nat
    OBVIOUS
  <2> HIDE DEF S
  <2> QED
    BY <1>2, <2>1, Induction
<1> QED
  BY <1>3

-----------------------------------------------------------------------------
\* The numbers that are printed.
LEMMA NumeralOfZero ==
  ASSUME NEW b \in Bases
  PROVE  IsNumeral(<<zero>>, 0, b) /\ <<zero>> \in Seq(Nat)
<1>1. 0 \in 0 .. b - 1 /\ Digit(0) = zero /\ zero \in Nat
  BY DEF Bases, Digit, zero
<1>2. ValueOf(<<zero>>, b) = 0 /\ zero \in Digits(b)
  BY <1>1, OneDigit
<1> DEFINE text == <<zero>>
<1>3. text \in Seq(Nat) /\ text # << >> /\ Len(text) = 1
      /\ \A k \in DOMAIN text : text[k] = zero
  BY <1>1
<1>4. ValueOf(text, b) = 0
  BY <1>2
<1> HIDE DEF text
<1>5. \A k \in DOMAIN text : text[k] \in Digits(b)
  BY <1>2, <1>3
<1>6. IsNumeral(text, 0, b)
  BY <1>3, <1>4, <1>5, Zenon DEF IsNumeral, Digits
<1> QED
  BY <1>3, <1>6 DEF text

LEMMA NumeralOfBuf ==
  ASSUME NEW b \in Bases, NEW n \in Nat, n > 0
  PROVE  IsNumeral(Reverse(Buf(n, b)), n, b) /\ Reverse(Buf(n, b)) \in Seq(Nat)
<1> DEFINE text == Reverse(Buf(n, b))
<1>1. Spells(text, n, b)
  BY BufSpells
<1> HIDE DEF text
<1>2. /\ text \in Seq(Nat) /\ Len(text) > 0 /\ ValueOf(text, b) = n /\ text[1] # zero
      /\ \A k \in 1 .. Len(text) : text[k] \in Digits(b)
  BY <1>1, Zenon DEF Spells
<1>3. text # << >> /\ DOMAIN text = 1 .. Len(text)
  BY <1>2
<1>4. IsNumeral(text, n, b)
  BY <1>2, <1>3, Zenon DEF IsNumeral, Digits
<1> QED
  BY <1>2, <1>4 DEF text

LEMMA UnsignedPrinted ==
  ASSUME NEW n \in Nat
  PROVE  /\ IsNumeral(print_uint(n), n, 10) /\ print_uint(n) \in Seq(Nat)
         /\ IsNumeral(print_hex(n), n, 16) /\ print_hex(n) \in Seq(Nat)
<1>1. 10 \in Bases /\ 16 \in Bases
  BY DEF Bases
<1>2. CASE n = 0
  BY <1>1, <1>2, NumeralOfZero DEF print_uint, print_hex
<1>3. CASE n # 0
  <2>1. n > 0
    BY <1>3
  <2>2. /\ IsNumeral(Reverse(Buf(n, 10)), n, 10) /\ Reverse(Buf(n, 10)) \in Seq(Nat)
        /\ IsNumeral(Reverse(Buf(n, 16)), n, 16) /\ Reverse(Buf(n, 16)) \in Seq(Nat)
    BY <1>1, <2>1, NumeralOfBuf
  <2> QED
    BY <1>3, <2>2, Zenon DEF print_uint, print_hex
<1> QED
  BY <1>2, <1>3

\* What stands behind a sign.
LEMMA AfterOne ==
  ASSUME NEW text \in Seq(Nat), NEW c \in Nat
  PROVE  /\ <<c>> \o text \in Seq(Nat) /\ <<c>> \o text # << >>
         /\ (<<c>> \o text)[1] = c /\ Tail(<<c>> \o text) = text
<1>1. /\ <<c>> \o text \in Seq(Nat) /\ <<c>> \o text # << >>
      /\ (<<c>> \o text)[1] = c
  OBVIOUS
<1>2. Tail(<<c>> \o text) = text
  <2> DEFINE all == <<c>> \o text
  <2>1. /\ all \in Seq(Nat) /\ Len(all) = Len(text) + 1
        /\ \A k \in 1 .. Len(text) : all[k + 1] = text[k]
    OBVIOUS
  <2> HIDE DEF all
  <2>2. /\ Tail(all) \in Seq(Nat) /\ Len(Tail(all)) = Len(text)
        /\ \A k \in 1 .. Len(text) : Tail(all)[k] = text[k]
    BY <2>1
  <2>3. Tail(all) = text
    BY <2>2, SeqEqual
  <2> QED
    BY <2>3 DEF all
<1> QED
  BY <1>1, <1>2

Words == 0 .. WordMod - 1

LEMMA PointerPrinted ==
  ASSUME NEW v \in Nat
  PROVE  /\ print_pointer(v) \in Seq(Nat)
         /\ SubSeq(print_pointer(v), 1, 2) = <<zero, Specifier.x>>
         /\ IsNumeral(SubSeq(print_pointer(v), 3, Len(print_pointer(v))), v, 16)
<1> DEFINE digits == print_hex(v)
           n == Len(digits)
           x == Specifier.x
           text == <<zero, x>> \o digits
<1>1. /\ IsNumeral(digits, v, 16) /\ digits \in Seq(Nat)
      /\ zero \in Nat /\ x \in Nat
  BY UnsignedPrinted DEF zero, Specifier
<1>2. print_pointer(v) = text
  BY DEF print_pointer
<1> HIDE DEF digits, x
<1>3. /\ text \in Seq(Nat) /\ Len(text) = n + 2 /\ text[1] = zero /\ text[2] = x
      /\ n \in Nat /\ \A k \in 1 .. n : text[k + 2] = digits[k]
  BY <1>1
<1> HIDE DEF text, n
<1>4. SubSeq(text, 1, 2) = <<zero, x>>
  <2> DEFINE part == SubSeq(text, 1, 2)
  <2>1. part \in Seq(Nat) /\ Len(part) = 2 /\ part[1] = zero /\ part[2] = x
    BY <1>3
  <2> HIDE DEF part
  <2>2. part = <<zero, x>>
    BY <2>1
  <2> QED
    BY <2>2 DEF part
<1>5. SubSeq(text, 3, Len(text)) = digits
  <2> DEFINE part == SubSeq(text, 3, n + 2)
  <2>1. part \in Seq(Nat) /\ Len(part) = n
    BY <1>3
  <2>2. \A k \in 1 .. n : part[k] = digits[k]
    <3>1. TAKE k \in 1 .. n
    <3>2. part[k] = text[k + 2]
      BY <1>3
    <3> QED
      BY <1>3, <3>2
  <2> HIDE DEF part
  <2>3. part = digits
    BY <1>1, <2>1, <2>2, SeqEqual DEF n
  <2> QED
    BY <1>3, <2>3 DEF part
<1>6. IsNumeral(SubSeq(text, 3, Len(text)), v, 16)
  BY <1>1, <1>5, Zenon
<1> QED
  BY <1>2, <1>3, <1>4, <1>6, Zenon DEF x

LEMMA SignedIs ==
  ASSUME NEW v \in Words
  PROVE  /\ v < WordMod \div 2 => Signed(v) = v /\ v \in Nat
         /\ v >= WordMod \div 2 => Signed(v) = v - WordMod /\ Signed(v) < 0
         /\ v > WordMod \div 2 => Signed((- (v - WordMod)) % WordMod) = WordMod - v
         /\ v = WordMod \div 2 => Signed((- (v - WordMod)) % WordMod) < 0
<1>1. PICK h \in Nat : WordMod = 2 * h /\ h > 128 /\ WordMod \div 2 = h
  <2>1. WordMod = 2 * (WordMod \div 2) /\ WordMod \div 2 \in Nat /\ WordMod \div 2 > 128
    BY PrintfAssumption
  <2> QED
    BY <2>1
<1>2. v \in Nat /\ v < 2 * h /\ 2 * h \in Nat
  BY <1>1 DEF Words
<1>3. v >= h => (- (v - 2 * h)) % (2 * h) = 2 * h - v
  <2>1. v >= h => - (v - 2 * h) \in 0 .. 2 * h - 1 /\ - (v - 2 * h) = 2 * h - v
    BY <1>1, <1>2
  <2>2. \A m \in Nat : \A x \in 0 .. m - 1 : x % m = x
    OBVIOUS
  <2> QED
    BY <1>2, <2>1, <2>2
<1>4. \A w : Signed(w) = IF w < h THEN w ELSE w - 2 * h
  BY <1>1, Zenon DEF Signed
<1>5. v >= h => Signed((- (v - WordMod)) % WordMod) = IF 2 * h - v < h THEN 2 * h - v ELSE (2 * h - v) - 2 * h
  BY <1>1, <1>3, <1>4, Zenon
<1>6. v < h => Signed(v) = v
  BY <1>4
<1>7. v >= h => Signed(v) = v - WordMod /\ Signed(v) < 0
  <2>1. v >= h => Signed(v) = v - 2 * h
    BY <1>1, <1>2, <1>4
  <2> QED
    BY <1>1, <1>2, <2>1
<1> DEFINE neg == Signed((- (v - WordMod)) % WordMod)
<1>8. v >= h => neg = IF 2 * h - v < h THEN 2 * h - v ELSE (2 * h - v) - 2 * h
  BY <1>5
<1> HIDE DEF neg
<1>9. (v > h => neg = WordMod - v) /\ (v = h => neg < 0)
  BY <1>1, <1>2, <1>8
<1> QED
  BY <1>1, <1>2, <1>6, <1>7, <1>9 DEF neg

LEMMA SignedPrinted ==
  ASSUME NEW v \in Words
  PROVE  LET text == print_int(Signed(v))
         IN  /\ text \in Seq(Nat)
             /\ v # WordMod \div 2 =>
                  IF Signed(v) < 0
                  THEN text # << >> /\ text[1] = minus /\ IsNumeral(Tail(text), WordMod - v, 10)
                  ELSE IsNumeral(text, v, 10)
<1> DEFINE text == print_int(Signed(v))
<1>1. 10 \in Bases /\ minus \in Nat
  BY DEF Bases, minus
<1>2. v \in Nat /\ v < WordMod /\ WordMod \in Nat /\ WordMod \div 2 \in Nat
  BY PrintfAssumption DEF Words
<1>3. CASE v = 0
  <2>1. Signed(v) = 0
    <3>1. 0 < WordMod \div 2
      BY PrintfAssumption
    <3> QED
      BY <1>3, <3>1, SignedIs
  <2>2. text = <<zero>>
    BY <2>1 DEF print_int
  <2>3. IsNumeral(text, v, 10) /\ text \in Seq(Nat)
    BY <1>1, <1>3, <2>2, NumeralOfZero
  <2>4. ~ (Signed(v) < 0)
    BY <2>1
  <2> QED
    BY <2>3, <2>4, Zenon
<1>4. CASE v > 0 /\ v < WordMod \div 2
  <2>1. Signed(v) = v /\ ~ (v < 0) /\ v # 0
    BY <1>2, <1>4, SignedIs
  <2>2. IsNumeral(Reverse(Buf(v, 10)), v, 10) /\ Reverse(Buf(v, 10)) \in Seq(Nat)
    BY <1>1, <1>2, <1>4, NumeralOfBuf
  <2>3. text = << >> \o Reverse(Buf(v, 10))
    BY <1>4, <2>1, Zenon DEF print_int
  <2> DEFINE digits == Reverse(Buf(v, 10))
  <2> HIDE DEF digits
  <2>4. << >> \o digits = digits
    BY <2>2 DEF digits
  <2>5. text = digits
    BY <2>3, <2>4, Zenon DEF digits
  <2> QED
    BY <2>1, <2>2, <2>5, Zenon DEF digits
<1>5. CASE v > WordMod \div 2
  <2> DEFINE n == WordMod - v
             digits == Reverse(Buf(n, 10))
  <2>1. Signed(v) = v - WordMod /\ Signed(v) < 0 /\ Signed(v) # 0
        /\ Signed((- (v - WordMod)) % WordMod) = n
    <3>1. v >= WordMod \div 2
      BY <1>2, <1>5
    <3>2. Signed(v) = v - WordMod /\ Signed(v) < 0
      BY <3>1, SignedIs
    <3>3. Signed((- (v - WordMod)) % WordMod) = n
      BY <1>5, SignedIs
    <3> QED
      BY <3>2, <3>3
  <2>2. n \in Nat /\ n > 0
    BY <1>2
  <2>3. IsNumeral(digits, n, 10) /\ digits \in Seq(Nat)
    BY <1>1, <2>2, NumeralOfBuf
  <2> HIDE DEF n
  <2>4. text = <<minus>> \o digits
    BY <2>1, <2>2, Zenon DEF print_int
  <2> HIDE DEF digits
  <2>5. /\ text \in Seq(Nat) /\ text # << >> /\ text[1] = minus
        /\ Tail(text) = digits
    BY <1>1, <2>3, <2>4, AfterOne, Zenon
  <2> QED
    BY <2>1, <2>3, <2>5, Zenon DEF n
<1>6. CASE v = WordMod \div 2
  <2> DEFINE neg == Signed((- (v - WordMod)) % WordMod)
  <2>1. Signed(v) = v - WordMod /\ Signed(v) < 0 /\ Signed(v) # 0 /\ ~ (neg > 0)
    <3>1. v >= WordMod \div 2
      BY <1>2, <1>6
    <3>2. Signed(v) = v - WordMod /\ Signed(v) < 0
      BY <3>1, SignedIs
    <3>3. neg < 0
      BY <1>6, SignedIs
    <3>4. neg \in Int
      <4>1. (- (v - WordMod)) % WordMod \in Int
        BY <1>2, PrintfAssumption
      <4> QED
        BY <1>2, <4>1 DEF Signed
    <3> HIDE DEF neg
    <3> QED
      BY <1>2, <3>2, <3>3, <3>4
  <2>2. text = <<minus>> \o << >>
    BY <2>1, Zenon DEF print_int
  <2>3. << >> \in Seq(Nat)
    OBVIOUS
  <2>4. text \in Seq(Nat)
    BY <1>1, <2>2, <2>3, AfterOne, Zenon
  <2> QED
    BY <1>6, <2>4
<1> QED
  BY <1>2, <1>3, <1>4, <1>5, <1>6

-----------------------------------------------------------------------------
\* In the row all, x stands behind part, and makes it next.
Continues(part, next, all, x) ==
  /\ part \in Seq(Nat) /\ all \in Seq(Nat) /\ x \in Seq(Nat)
  /\ Len(next) = Len(part) + Len(x) /\ Len(part) + Len(x) <= Len(all)
  /\ \A j \in 1 .. Len(x) : all[Len(part) + j] = x[j]

\* The next sequence of a row, in what the row is flattened to.
LEMMA FlattenNext ==
  ASSUME NEW seqs \in Texts, NEW n \in Nat, n < Len(seqs)
  PROVE  Continues(FlattenSeq(SubSeq(seqs, 1, n)), FlattenSeq(SubSeq(seqs, 1, n + 1)),
                   FlattenSeq(seqs), seqs[n + 1])
<1> DEFINE part == FlattenSeq(SubSeq(seqs, 1, n))
           all == FlattenSeq(seqs)
           x == seqs[n + 1]
           both == FlattenSeq(SubSeq(seqs, 1, n + 1))
<1>1. n \in 0 .. Len(seqs) /\ n + 1 \in 0 .. Len(seqs) /\ n + 1 \in 1 .. Len(seqs)
  BY DEF Texts
<1>2. x \in Seq(Nat) /\ SubSeq(seqs, 1, n) \in Texts
      /\ SubSeq(seqs, 1, n + 1) = Append(SubSeq(seqs, 1, n), x)
  BY <1>1 DEF Texts
<1>3. part \in Seq(Nat) /\ all \in Seq(Nat)
  BY <1>2, FlattenType
<1>4. both = part \o x
  BY <1>2, FlattenMore
<1>5. /\ both \in Seq(Nat) /\ Len(both) <= Len(all)
      /\ \A j \in 1 .. Len(both) : all[j] = both[j]
  BY <1>1, FlattenBegins
<1> HIDE DEF part, all, x, both
<1>6. Len(both) = Len(part) + Len(x) /\ Len(part) \in Nat /\ Len(x) \in Nat
  BY <1>2, <1>3, <1>4
<1>7. \A j \in 1 .. Len(x) : all[Len(part) + j] = x[j]
  <2>1. TAKE j \in 1 .. Len(x)
  <2>2. Len(part) + j \in 1 .. Len(both)
    BY <1>6
  <2>3. both[Len(part) + j] = x[j]
    BY <1>2, <1>3, <1>4
  <2> QED
    BY <1>5, <2>2, <2>3
<1> QED
  BY <1>2, <1>3, <1>5, <1>6, <1>7 DEF Continues, part, all, x, both

\* The characters of each directive, and the words of each.
Marks(directives) == [k \in DOMAIN directives |-> Written(directives[k])]
Gifts(directives) == [k \in DOMAIN directives |-> Passed(directives[k])]

LEMMA SpecifierIs ==
  /\ DOMAIN Specifier = {"c", "d", "i", "p", "s", "u", "x"}
  /\ Specifier["c"] = 99 /\ Specifier["d"] = 100 /\ Specifier["i"] = 105
  /\ Specifier["p"] = 112 /\ Specifier["s"] = 115 /\ Specifier["u"] = 117
  /\ Specifier["x"] = 120
BY DEF Specifier

LEMMA DirectiveIs ==
  ASSUME NEW d \in Directives
  PROVE  \/ d.kind \in DOMAIN Specifier /\ d.value \in Words
            /\ (d.kind = "s" => d.value \in DOMAIN Strings)
         \/ d.kind = "text" /\ d.value = 100
         \/ d.kind = "percent" /\ d.value = percent
         \/ d.kind = "unknown" /\ d.value = 88
<1>1. CASE d \in [kind : {"d", "i", "u", "x", "p", "c"}, value : Values]
  <2>1. d.kind \in {"d", "i", "u", "x", "p", "c"} /\ d.value \in Values
    BY <1>1
  <2>2. d.value \in Words
    BY <2>1, PrintfAssumption DEF Words
  <2> QED
    BY <2>1, <2>2, SpecifierIs
<1>2. CASE d \in [kind : {"s"}, value : DOMAIN Strings]
  <2>1. d.kind = "s" /\ d.value \in DOMAIN Strings
    BY <1>2
  <2>2. d.value \in Words
    BY <2>1, PrintfAssumption DEF Words
  <2> QED
    BY <2>1, <2>2, SpecifierIs
<1>3. CASE d \in {[kind |-> "text", value |-> Specifier.d],
                  [kind |-> "percent", value |-> percent], [kind |-> "unknown", value |-> 88]}
  BY <1>3, SpecifierIs
<1> QED
  BY <1>1, <1>2, <1>3 DEF Directives

\* What stands for a directive in the format and among the words.
LEMMA WrittenIs ==
  ASSUME NEW d \in Directives
  PROVE  LET w == Written(d)
         IN  /\ w \in Seq(Nat) /\ Passed(d) \in Seq(Nat)
             /\ d.kind \in DOMAIN Specifier =>
                  /\ Len(w) = 2 /\ w[1] = percent /\ w[2] = Specifier[d.kind]
                  /\ Len(Passed(d)) = 1 /\ Passed(d)[1] = d.value
             /\ d.kind = "text" => Len(w) = 1 /\ w[1] = 100 /\ Len(Passed(d)) = 0
             /\ d.kind = "percent" =>
                  Len(w) = 2 /\ w[1] = percent /\ w[2] = percent /\ Len(Passed(d)) = 0
             /\ d.kind = "unknown" =>
                  Len(w) = 2 /\ w[1] = percent /\ w[2] = 88 /\ Len(Passed(d)) = 0
<1> DEFINE w == Written(d)
<1>1. CASE d.kind \in DOMAIN Specifier /\ d.value \in Words
  <2>1. Specifier[d.kind] \in Nat /\ percent \in Nat
    BY <1>1, SpecifierIs DEF percent
  <2>2. ~ (d.kind \in {"text", "percent", "unknown"})
    BY <1>1, SpecifierIs
  <2>3. w = <<percent, Specifier[d.kind]>>
    BY <2>2 DEF Written
  <2>4. Passed(d) = <<d.value>>
    BY <1>1 DEF Passed
  <2>5. d.value \in Nat
    BY <1>1, PrintfAssumption DEF Words
  <2> DEFINE c == Specifier[d.kind]
             v == d.value
  <2> HIDE DEF c, v
  <2>6. /\ <<percent, c>> \in Seq(Nat) /\ Len(<<percent, c>>) = 2
        /\ <<percent, c>>[1] = percent /\ <<percent, c>>[2] = c
    BY <2>1 DEF c
  <2>7. <<v>> \in Seq(Nat) /\ Len(<<v>>) = 1 /\ <<v>>[1] = v
    BY <2>5 DEF v
  <2> QED
    BY <2>2, <2>3, <2>4, <2>6, <2>7 DEF c, v
<1>2. ~ (d.kind \in DOMAIN Specifier) => Passed(d) = << >> /\ << >> \in Seq(Nat) /\ Len(<< >>) = 0
  BY DEF Passed
<1>3. CASE d.kind = "text" /\ d.value = 100
  <2>1. w = <<100>>
    BY <1>3 DEF Written
  <2>2. ~ (d.kind \in DOMAIN Specifier) /\ d.kind # "percent" /\ d.kind # "unknown"
    BY <1>3, SpecifierIs
  <2>3. <<100>> \in Seq(Nat) /\ Len(<<100>>) = 1 /\ <<100>>[1] = 100
    OBVIOUS
  <2> QED
    BY <1>2, <2>1, <2>2, <2>3
<1>4. CASE d.kind = "percent" /\ d.value = percent
  <2>1. w = <<37, 37>>
    BY <1>4 DEF Written, percent
  <2>2. ~ (d.kind \in DOMAIN Specifier) /\ d.kind # "text" /\ d.kind # "unknown"
    BY <1>4, SpecifierIs
  <2>3. /\ <<37, 37>> \in Seq(Nat) /\ Len(<<37, 37>>) = 2
        /\ <<37, 37>>[1] = 37 /\ <<37, 37>>[2] = 37
    OBVIOUS
  <2> QED
    BY <1>2, <2>1, <2>2, <2>3 DEF percent
<1>5. CASE d.kind = "unknown" /\ d.value = 88
  <2>1. w = <<37, 88>>
    BY <1>5 DEF Written, percent
  <2>2. ~ (d.kind \in DOMAIN Specifier) /\ d.kind # "text" /\ d.kind # "percent"
    BY <1>5, SpecifierIs
  <2>3. /\ <<37, 88>> \in Seq(Nat) /\ Len(<<37, 88>>) = 2
        /\ <<37, 88>>[1] = 37 /\ <<37, 88>>[2] = 88
    OBVIOUS
  <2> QED
    BY <1>2, <2>1, <2>2, <2>3 DEF percent
<1> QED
  BY <1>1, <1>3, <1>4, <1>5, DirectiveIs

LEMMA MarksType ==
  ASSUME NEW directives \in Seq(Directives)
  PROVE  /\ Marks(directives) \in Texts /\ Len(Marks(directives)) = Len(directives)
         /\ Gifts(directives) \in Texts /\ Len(Gifts(directives)) = Len(directives)
         /\ FormatOf(directives) = FlattenSeq(Marks(directives))
         /\ WordsOf(directives) = FlattenSeq(Gifts(directives))
         /\ \A k \in 1 .. Len(directives) :
              /\ Marks(directives)[k] = Written(directives[k])
              /\ Gifts(directives)[k] = Passed(directives[k])
<1> DEFINE n == Len(directives)
<1>1. n \in Nat /\ DOMAIN directives = 1 .. n /\ \A k \in 1 .. n : directives[k] \in Directives
  OBVIOUS
<1> HIDE DEF n
<1>2. /\ Marks(directives) = [k \in 1 .. n |-> Written(directives[k])]
      /\ Gifts(directives) = [k \in 1 .. n |-> Passed(directives[k])]
  BY <1>1 DEF Marks, Gifts
<1>3. \A k \in 1 .. n : Written(directives[k]) \in Seq(Nat) /\ Passed(directives[k]) \in Seq(Nat)
  BY <1>1, WrittenIs
<1>4. Marks(directives) \in [1 .. n -> Seq(Nat)] /\ Gifts(directives) \in [1 .. n -> Seq(Nat)]
  BY <1>2, <1>3
<1> DEFINE m == Marks(directives)
           g == Gifts(directives)
<1>5. FormatOf(directives) = FlattenSeq(m) /\ WordsOf(directives) = FlattenSeq(g)
  BY DEF FormatOf, WordsOf, Marks, Gifts
<1>6. \A k \in 1 .. n : m[k] = Written(directives[k]) /\ g[k] = Passed(directives[k])
  BY <1>2
<1> HIDE DEF m, g
<1>7. m \in Texts /\ Len(m) = n /\ g \in Texts /\ Len(g) = n
  <2>1. m \in [1 .. n -> Seq(Nat)] /\ g \in [1 .. n -> Seq(Nat)]
    BY <1>4 DEF m, g
  <2>2. n \in Nat
    BY <1>1
  <2> QED
    BY <2>1, <2>2 DEF Texts
<1> QED
  BY <1>5, <1>6, <1>7 DEF m, g, n

LEMMA MarksBegin ==
  ASSUME NEW directives \in Seq(Directives), NEW n \in Nat, n <= Len(directives)
  PROVE  /\ SubSeq(directives, 1, n) \in Seq(Directives)
         /\ Marks(SubSeq(directives, 1, n)) = SubSeq(Marks(directives), 1, n)
         /\ Gifts(SubSeq(directives, 1, n)) = SubSeq(Gifts(directives), 1, n)
<1> DEFINE part == SubSeq(directives, 1, n)
<1>1. /\ part \in Seq(Directives) /\ Len(part) = n
      /\ \A k \in 1 .. n : part[k] = directives[k] /\ k \in 1 .. Len(directives)
  OBVIOUS
<1> HIDE DEF part
<1> DEFINE mp == Marks(part)
           m == Marks(directives)
           gp == Gifts(part)
           g == Gifts(directives)
<1>2. /\ mp \in Texts /\ Len(mp) = n /\ m \in Texts /\ Len(m) = Len(directives)
      /\ gp \in Texts /\ Len(gp) = n /\ g \in Texts /\ Len(g) = Len(directives)
      /\ \A k \in 1 .. n : mp[k] = m[k] /\ gp[k] = g[k]
  BY <1>1, MarksType
<1> HIDE DEF mp, m, gp, g
<1>3. /\ SubSeq(m, 1, n) \in Texts /\ Len(SubSeq(m, 1, n)) = n
      /\ \A k \in 1 .. n : SubSeq(m, 1, n)[k] = m[k]
  BY <1>2 DEF Texts
<1>4. /\ SubSeq(g, 1, n) \in Texts /\ Len(SubSeq(g, 1, n)) = n
      /\ \A k \in 1 .. n : SubSeq(g, 1, n)[k] = g[k]
  BY <1>2 DEF Texts
<1>5. mp = SubSeq(m, 1, n)
  BY <1>2, <1>3, SeqEqual DEF Texts
<1>6. gp = SubSeq(g, 1, n)
  BY <1>2, <1>4, SeqEqual DEF Texts
<1> QED
  BY <1>1, <1>5, <1>6 DEF mp, m, gp, g, part

-----------------------------------------------------------------------------
\* After each iteration one more directive has been read, and printed.
Printable == Seq(Nat) \union {Strings[a] : a \in DOMAIN Strings}

PrintfInv ==
  /\ call \in Seq(Directives)
  /\ out \in Seq(Printable) /\ Len(out) <= Len(call)
  /\ pos = Len(FormatOf(SubSeq(call, 1, Len(out)))) + 1
  /\ ap = Len(WordsOf(SubSeq(call, 1, Len(out)))) + 1
  /\ \A k \in 1 .. Len(out) : Means(call[k], out[k]) \/ IsLeastInt(call[k])

\* The directive that the next iteration reads.
Upcoming == call[Len(out) + 1]

LEMMA AtEnd ==
  ASSUME PrintfInv
  PROVE  /\ pos \in Nat /\ pos >= 1 /\ ap \in Nat /\ ap >= 1
         /\ Len(format) \in Nat
         /\ Len(out) = Len(call) => pos = Len(format) + 1
<1> DEFINE n == Len(out)
<1>1. call \in Seq(Directives) /\ n \in Nat /\ n <= Len(call)
  BY DEF PrintfInv
<1>2. /\ SubSeq(call, 1, n) \in Seq(Directives)
      /\ n = Len(call) => SubSeq(call, 1, n) = call
  BY <1>1
<1> HIDE DEF n
<1>3. \A directives \in Seq(Directives) :
        FormatOf(directives) \in Seq(Nat) /\ WordsOf(directives) \in Seq(Nat)
  <2>1. TAKE directives \in Seq(Directives)
  <2> QED
    BY MarksType, FlattenType
<1>4. /\ Len(FormatOf(SubSeq(call, 1, n))) \in Nat /\ Len(WordsOf(SubSeq(call, 1, n))) \in Nat
      /\ Len(FormatOf(call)) \in Nat
  BY <1>1, <1>2, <1>3
<1>5. pos = Len(FormatOf(SubSeq(call, 1, n))) + 1 /\ ap = Len(WordsOf(SubSeq(call, 1, n))) + 1
  BY DEF PrintfInv, n
<1>6. pos \in Nat /\ pos >= 1 /\ ap \in Nat /\ ap >= 1
  BY <1>4, <1>5
<1>7. n = Len(call) => pos = Len(FormatOf(call)) + 1
  BY <1>2, <1>5
<1> QED
  BY <1>4, <1>6, <1>7 DEF n, format

LEMMA AtDirective ==
  ASSUME PrintfInv, Len(out) < Len(call)
  PROVE  /\ Upcoming \in Directives
         /\ pos <= Len(format) /\ format[pos] = Written(Upcoming)[1]
         /\ Len(Written(Upcoming)) = 2 =>
              pos + 1 <= Len(format) /\ format[pos + 1] = Written(Upcoming)[2]
         /\ Len(Passed(Upcoming)) = 1 => va_arg = Passed(Upcoming)[1]
         /\ Len(FormatOf(SubSeq(call, 1, Len(out) + 1))) + 1 = pos + Len(Written(Upcoming))
         /\ Len(WordsOf(SubSeq(call, 1, Len(out) + 1))) + 1 = ap + Len(Passed(Upcoming))
<1> DEFINE n == Len(out)
           d == Upcoming
           m == Marks(call)
           g == Gifts(call)
<1>1. /\ call \in Seq(Directives) /\ n \in Nat /\ n < Len(call) /\ Len(call) \in Nat
      /\ n + 1 \in 1 .. Len(call) /\ d \in Directives
  BY DEF PrintfInv, Upcoming
<1>2. /\ m \in Texts /\ Len(m) = Len(call) /\ g \in Texts /\ Len(g) = Len(call)
      /\ format = FlattenSeq(m) /\ parameters = FlattenSeq(g)
      /\ m[n + 1] = Written(d) /\ g[n + 1] = Passed(d)
  BY <1>1, MarksType DEF format, parameters, Upcoming
<1>3. \A k \in Nat : k <= Len(call) =>
        /\ FormatOf(SubSeq(call, 1, k)) = FlattenSeq(SubSeq(m, 1, k))
        /\ WordsOf(SubSeq(call, 1, k)) = FlattenSeq(SubSeq(g, 1, k))
  <2>1. TAKE k \in Nat
  <2>2. HAVE k <= Len(call)
  <2>3. /\ SubSeq(call, 1, k) \in Seq(Directives)
        /\ Marks(SubSeq(call, 1, k)) = SubSeq(m, 1, k)
        /\ Gifts(SubSeq(call, 1, k)) = SubSeq(g, 1, k)
    BY <1>1, <2>2, MarksBegin
  <2> QED
    BY <2>3, MarksType
<1>4. /\ pos = Len(FormatOf(SubSeq(call, 1, n))) + 1
      /\ ap = Len(WordsOf(SubSeq(call, 1, n))) + 1
  BY DEF PrintfInv
<1> HIDE DEF n, d, m, g
<1> DEFINE fpart == FlattenSeq(SubSeq(m, 1, n))
           wpart == FlattenSeq(SubSeq(g, 1, n))
           fnext == FlattenSeq(SubSeq(m, 1, n + 1))
           wnext == FlattenSeq(SubSeq(g, 1, n + 1))
           w == Written(d)
           p == Passed(d)
<1>5. /\ pos = Len(fpart) + 1 /\ ap = Len(wpart) + 1
      /\ FormatOf(SubSeq(call, 1, n + 1)) = fnext /\ WordsOf(SubSeq(call, 1, n + 1)) = wnext
  BY <1>1, <1>3, <1>4
<1>6. Continues(fpart, fnext, format, w)
  <2>1. m \in Texts /\ n \in Nat /\ n < Len(m)
    BY <1>1, <1>2
  <2>2. Continues(fpart, fnext, FlattenSeq(m), m[n + 1])
    BY <2>1, FlattenNext, Zenon
  <2> QED
    BY <1>2, <2>2, Zenon
<1>7. Continues(wpart, wnext, parameters, p)
  <2>1. g \in Texts /\ n \in Nat /\ n < Len(g)
    BY <1>1, <1>2
  <2>2. Continues(wpart, wnext, FlattenSeq(g), g[n + 1])
    BY <2>1, FlattenNext, Zenon
  <2> QED
    BY <1>2, <2>2, Zenon
<1>8. Len(w) = 1 \/ Len(w) = 2
  BY <1>1, WrittenIs, DirectiveIs
<1> HIDE DEF fpart, wpart, fnext, wnext, w, p
<1> DEFINE lf == Len(fpart)
           lp == Len(wpart)
           cf == Len(w)
           cp == Len(p)
           all == Len(format)
           words == Len(parameters)
<1>9. /\ lf \in Nat /\ lp \in Nat /\ cf \in Nat /\ cp \in Nat
      /\ all \in Nat /\ words \in Nat
  BY <1>6, <1>7, LenProperties, Zenon DEF Continues
<1>10. pos = lf + 1 /\ ap = lp + 1
  BY <1>5
<1>11. /\ Len(fnext) = lf + cf /\ lf + cf <= all
       /\ Len(wnext) = lp + cp /\ lp + cp <= words
  BY <1>6, <1>7, Zenon DEF Continues
<1>12. /\ \A j \in 1 .. cf : format[lf + j] = w[j]
       /\ \A j \in 1 .. cp : parameters[lp + j] = p[j]
  BY <1>6, <1>7, Zenon DEF Continues
<1> HIDE DEF lf, lp, cf, cp, all, words
<1>13. pos <= all /\ format[pos] = w[1]
  <2>1. 1 \in 1 .. cf /\ pos <= all
    <3>1. cf = 1 \/ cf = 2
      BY <1>8 DEF cf
    <3> QED
      BY <1>9, <1>10, <1>11, <3>1
  <2>2. format[lf + 1] = w[1]
    BY <1>12, <2>1, Zenon
  <2> QED
    BY <1>10, <2>1, <2>2, Zenon
<1>14. cf = 2 => pos + 1 <= all /\ format[pos + 1] = w[2]
  <2>1. SUFFICES ASSUME cf = 2 PROVE pos + 1 <= all /\ format[pos + 1] = w[2]
    OBVIOUS
  <2>2. 2 \in 1 .. cf /\ pos + 1 = lf + 2 /\ pos + 1 <= all
    BY <1>9, <1>10, <1>11, <2>1
  <2>3. format[lf + 2] = w[2]
    BY <1>12, <2>2, Zenon
  <2> QED
    BY <2>2, <2>3, Zenon
<1>15. cp = 1 => va_arg = p[1]
  <2>1. SUFFICES ASSUME cp = 1 PROVE va_arg = p[1]
    OBVIOUS
  <2>2. 1 \in 1 .. cp /\ ap <= words
    BY <1>9, <1>10, <1>11, <2>1
  <2>3. parameters[lp + 1] = p[1]
    BY <1>12, <2>2, Zenon
  <2> QED
    BY <1>10, <2>2, <2>3, Zenon DEF va_arg, words
<1>16. Len(fnext) + 1 = pos + cf /\ Len(wnext) + 1 = ap + cp
  <2>1. lf + cf + 1 = pos + cf /\ lp + cp + 1 = ap + cp
    BY <1>9, <1>10
  <2> QED
    BY <1>11, <2>1
<1>17. /\ FormatOf(SubSeq(call, 1, n + 1)) = fnext
       /\ WordsOf(SubSeq(call, 1, n + 1)) = wnext
  BY <1>5
<1> QED
  BY <1>1, <1>13, <1>14, <1>15, <1>16, <1>17, Zenon DEF cf, cp, all, w, p, d, n

\* One iteration, if it prints the directive and moves behind it.
LEMMA IterationKeeps ==
  ASSUME PrintfInv, Len(out) < Len(call), NEW text \in Printable, NEW words, NEW chars,
         words = Len(Passed(Upcoming)), chars = Len(Written(Upcoming)),
         Means(Upcoming, text) \/ IsLeastInt(Upcoming),
         Iteration(text, words, chars)
  PROVE  PrintfInv'
<1> DEFINE n == Len(out)
<1>1. /\ call \in Seq(Directives) /\ n \in Nat /\ n < Len(call)
      /\ out \in Seq(Printable)
      /\ \A k \in 1 .. n : Means(call[k], out[k]) \/ IsLeastInt(call[k])
  BY DEF PrintfInv
<1>2. call' = call /\ out' = Append(out, text) /\ pos' = pos + chars /\ ap' = ap + words
  BY DEF Iteration
<1>3. /\ out' \in Seq(Printable) /\ Len(out') = n + 1 /\ out'[n + 1] = text
      /\ \A k \in 1 .. n : out'[k] = out[k]
  BY <1>1, <1>2
<1>4. /\ Len(FormatOf(SubSeq(call, 1, n + 1))) + 1 = pos + chars
      /\ Len(WordsOf(SubSeq(call, 1, n + 1))) + 1 = ap + words
  BY AtDirective
<1>5. Means(call[n + 1], text) \/ IsLeastInt(call[n + 1])
  BY DEF Upcoming
<1> HIDE DEF n
<1>6. pos' = Len(FormatOf(SubSeq(call', 1, Len(out')))) + 1
      /\ ap' = Len(WordsOf(SubSeq(call', 1, Len(out')))) + 1
  BY <1>2, <1>3, <1>4
<1>7. \A k \in 1 .. Len(out') : Means(call'[k], out'[k]) \/ IsLeastInt(call'[k])
  <2>1. TAKE k \in 1 .. Len(out')
  <2>2. CASE k = n + 1
    BY <1>2, <1>3, <1>5, <2>2
  <2>3. CASE k # n + 1
    <3>1. k \in 1 .. n
      BY <1>1, <1>3, <2>3
    <3> QED
      BY <1>1, <1>2, <1>3, <3>1
  <2> QED
    BY <2>2, <2>3
<1>8. call' \in Seq(Directives) /\ Len(out') <= Len(call')
  BY <1>1, <1>2, <1>3
<1>9. /\ (pos = Len(FormatOf(SubSeq(call, 1, Len(out)))) + 1)'
      /\ (ap = Len(WordsOf(SubSeq(call, 1, Len(out)))) + 1)'
  BY <1>6 DEF FormatOf, WordsOf, Written, Passed
<1>10. (\A k \in 1 .. Len(out) : Means(call[k], out[k]) \/ IsLeastInt(call[k]))'
  BY <1>7 DEF Means, IsLeastInt
<1> QED
  BY <1>3, <1>8, <1>9, <1>10 DEF PrintfInv

\* At a percent sign: what the directive must be, by the specifier behind it.
LEMMA AtPercent ==
  ASSUME PrintfInv, NEW c, AtSpecifier(c)
  PROVE  /\ Len(out) < Len(call) /\ Upcoming \in Directives
         /\ Len(Written(Upcoming)) = 2
         /\ \/ /\ Upcoming.kind \in DOMAIN Specifier /\ c = Specifier[Upcoming.kind]
               /\ Len(Passed(Upcoming)) = 1 /\ va_arg = Upcoming.value
               /\ Upcoming.value \in Words
               /\ Upcoming.kind = "s" => Upcoming.value \in DOMAIN Strings
            \/ /\ Upcoming.kind = "percent" /\ Upcoming.value = percent
               /\ c = percent /\ Len(Passed(Upcoming)) = 0
            \/ /\ Upcoming.kind = "unknown" /\ Upcoming.value = 88
               /\ c = 88 /\ Len(Passed(Upcoming)) = 0
<1>1. pos < Len(format) /\ format[pos] = percent /\ format[pos + 1] = c
  BY DEF AtSpecifier
<1>2. Len(out) < Len(call)
  <2>1. Len(out) \in Nat /\ Len(call) \in Nat /\ Len(out) <= Len(call)
    BY LenProperties DEF PrintfInv
  <2>2. Len(out) # Len(call)
    <3>1. Len(format) \in Nat
      BY AtEnd
    <3>2. Len(out) = Len(call) => pos = Len(format) + 1
      BY AtEnd
    <3> QED
      BY <1>1, <3>1, <3>2
  <2> QED
    BY <2>1, <2>2
<1> DEFINE d == Upcoming
           w == Written(d)
           p == Passed(d)
<1>3. /\ d \in Directives /\ format[pos] = w[1]
      /\ Len(w) = 2 => format[pos + 1] = w[2]
      /\ Len(p) = 1 => va_arg = p[1]
  BY <1>2, AtDirective, Zenon
<1> HIDE DEF d
<1>4. CASE d.kind \in DOMAIN Specifier /\ d.value \in Words
           /\ (d.kind = "s" => d.value \in DOMAIN Strings)
  <2>1. Len(w) = 2 /\ w[2] = Specifier[d.kind] /\ Len(p) = 1 /\ p[1] = d.value
    BY <1>3, <1>4, WrittenIs, Zenon
  <2> QED
    BY <1>1, <1>2, <1>3, <1>4, <2>1, Zenon DEF d
<1>5. CASE d.kind = "text" /\ d.value = 100
  <2>1. w[1] = 100
    BY <1>3, <1>5, WrittenIs, Zenon
  <2> QED
    BY <1>1, <1>3, <2>1 DEF percent
<1>6. CASE d.kind = "percent" /\ d.value = percent
  <2>1. Len(w) = 2 /\ w[2] = percent /\ Len(p) = 0
    BY <1>3, <1>6, WrittenIs, Zenon
  <2> QED
    BY <1>1, <1>2, <1>3, <1>6, <2>1, Zenon DEF d
<1>7. CASE d.kind = "unknown" /\ d.value = 88
  <2>1. Len(w) = 2 /\ w[2] = 88 /\ Len(p) = 0
    BY <1>3, <1>7, WrittenIs, Zenon
  <2> QED
    BY <1>1, <1>2, <1>3, <1>7, <2>1, Zenon DEF d
<1>8. \/ d.kind \in DOMAIN Specifier /\ d.value \in Words
         /\ (d.kind = "s" => d.value \in DOMAIN Strings)
      \/ d.kind = "text" /\ d.value = 100
      \/ d.kind = "percent" /\ d.value = percent
      \/ d.kind = "unknown" /\ d.value = 88
  BY <1>3, DirectiveIs
<1> QED
  BY <1>4, <1>5, <1>6, <1>7, <1>8, Zenon

LEMMA PlainCharKeeps ==
  ASSUME PrintfInv, PlainChar
  PROVE  PrintfInv'
<1>1. /\ pos <= Len(format) /\ format[pos] # percent
      /\ Iteration(<<format[pos]>>, 0, 1)
  BY DEF PlainChar
<1>2. Len(out) < Len(call)
  <2>1. Len(out) \in Nat /\ Len(call) \in Nat /\ Len(out) <= Len(call)
    BY LenProperties DEF PrintfInv
  <2>2. Len(out) # Len(call)
    <3>1. Len(format) \in Nat
      BY AtEnd
    <3>2. Len(out) = Len(call) => pos = Len(format) + 1
      BY AtEnd
    <3> QED
      BY <1>1, <3>1, <3>2
  <2> QED
    BY <2>1, <2>2
<1>3. Upcoming \in Directives /\ format[pos] = Written(Upcoming)[1]
  BY <1>2, AtDirective, Zenon
<1>4. Upcoming.kind = "text" /\ Upcoming.value = 100
  <2>1. ~ (Upcoming.kind \in DOMAIN Specifier)
    BY <1>1, <1>3, WrittenIs, Zenon
  <2>2. Upcoming.kind # "percent" /\ Upcoming.kind # "unknown"
    BY <1>1, <1>3, WrittenIs, Zenon
  <2> QED
    BY <1>3, <2>1, <2>2, DirectiveIs, Zenon
<1>5. Len(Written(Upcoming)) = 1 /\ format[pos] = 100 /\ Len(Passed(Upcoming)) = 0
  BY <1>3, <1>4, WrittenIs, Zenon
<1>6. Means(Upcoming, <<100>>)
  BY <1>4 DEF Means
<1>7. <<100>> \in Printable
  BY DEF Printable
<1> QED
  BY <1>1, <1>2, <1>5, <1>6, <1>7, IterationKeeps, Zenon

\* Each conversion is that of the directive's kind, and prints what it means.
LEMMA ConversionMeans ==
  ASSUME NEW d, d.value \in Words
  PROVE  /\ d.kind = "c" => /\ Means(d, <<d.value % 256>>)
                            /\ <<d.value % 256>> \in Printable
         /\ d.kind = "s" /\ d.value \in DOMAIN Strings =>
              /\ Means(d, terminal_writestring(d.value))
              /\ terminal_writestring(d.value) \in Printable
         /\ d.kind \in {"d", "i"} =>
              /\ Means(d, print_int(Signed(d.value))) \/ IsLeastInt(d)
              /\ print_int(Signed(d.value)) \in Printable
         /\ d.kind = "u" => /\ Means(d, print_uint(d.value))
                            /\ print_uint(d.value) \in Printable
         /\ d.kind = "x" => /\ Means(d, print_hex(d.value))
                            /\ print_hex(d.value) \in Printable
         /\ d.kind = "p" => /\ Means(d, print_pointer(d.value))
                            /\ print_pointer(d.value) \in Printable
<1> DEFINE v == d.value
<1>1. v \in Words /\ v \in Nat /\ v % 256 \in Nat
  BY PrintfAssumption DEF Words
<1> HIDE DEF v
<1>2. d.kind = "c" => Means(d, <<v % 256>>) /\ <<v % 256>> \in Printable
  <2>1. <<v % 256>> \in Seq(Nat)
    BY <1>1
  <2> QED
    BY <2>1, Zenon DEF Means, Printable, v
<1>3. d.kind = "s" /\ v \in DOMAIN Strings =>
        Means(d, terminal_writestring(v)) /\ terminal_writestring(v) \in Printable
  BY Zenon DEF Means, Printable, terminal_writestring, v
<1>4. d.kind \in {"d", "i"} =>
        /\ Means(d, print_int(Signed(v))) \/ IsLeastInt(d)
        /\ print_int(Signed(v)) \in Printable
  <2> DEFINE text == print_int(Signed(v))
  <2>1. /\ text \in Seq(Nat)
        /\ v # WordMod \div 2 =>
             IF Signed(v) < 0
             THEN text # << >> /\ text[1] = minus /\ IsNumeral(Tail(text), WordMod - v, 10)
             ELSE IsNumeral(text, v, 10)
    BY <1>1, SignedPrinted, Zenon
  <2> HIDE DEF text
  <2>2. d.kind \in {"d", "i"} /\ v # WordMod \div 2 => Means(d, text)
    BY <2>1, Zenon DEF Means, v
  <2>3. d.kind \in {"d", "i"} /\ v = WordMod \div 2 => IsLeastInt(d)
    BY DEF IsLeastInt, v
  <2> QED
    BY <2>1, <2>2, <2>3, Zenon DEF Printable, text
<1>5. d.kind = "u" => Means(d, print_uint(v)) /\ print_uint(v) \in Printable
  <2>1. IsNumeral(print_uint(v), v, 10) /\ print_uint(v) \in Seq(Nat)
    BY <1>1, UnsignedPrinted
  <2> QED
    BY <2>1, Zenon DEF Means, Printable, v
<1>6. d.kind = "x" => Means(d, print_hex(v)) /\ print_hex(v) \in Printable
  <2>1. IsNumeral(print_hex(v), v, 16) /\ print_hex(v) \in Seq(Nat)
    BY <1>1, UnsignedPrinted
  <2> QED
    BY <2>1, Zenon DEF Means, Printable, v
<1>7. d.kind = "p" => Means(d, print_pointer(v)) /\ print_pointer(v) \in Printable
  <2>1. /\ print_pointer(v) \in Seq(Nat)
        /\ SubSeq(print_pointer(v), 1, 2) = <<zero, Specifier.x>>
        /\ IsNumeral(SubSeq(print_pointer(v), 3, Len(print_pointer(v))), v, 16)
    BY <1>1, PointerPrinted
  <2> QED
    BY <2>1, Zenon DEF Means, Printable, v
<1> QED
  BY <1>2, <1>3, <1>4, <1>5, <1>6, <1>7, Zenon DEF v

LEMMA AtConversion ==
  ASSUME PrintfInv, NEW kind \in DOMAIN Specifier, NEW c, c = Specifier[kind], AtSpecifier(c)
  PROVE  /\ Len(out) < Len(call) /\ Len(Written(Upcoming)) = 2 /\ Len(Passed(Upcoming)) = 1
         /\ va_arg = Upcoming.value /\ Upcoming.value \in Words /\ Upcoming.kind = kind
         /\ kind = "s" => Upcoming.value \in DOMAIN Strings
<1>1. c # percent /\ c # 88
  BY SpecifierIs DEF percent
<1> DEFINE d == Upcoming
<1>2. \/ /\ d.kind \in DOMAIN Specifier /\ c = Specifier[d.kind]
         /\ Len(Passed(d)) = 1 /\ va_arg = d.value
         /\ d.value \in Words
         /\ d.kind = "s" => d.value \in DOMAIN Strings
      \/ c = percent \/ c = 88
  BY AtPercent
<1>3. Len(out) < Len(call) /\ Len(Written(d)) = 2
  BY AtPercent
<1> HIDE DEF d
<1>4. /\ d.kind \in DOMAIN Specifier /\ Specifier[kind] = Specifier[d.kind]
      /\ Len(Passed(d)) = 1 /\ va_arg = d.value
      /\ d.value \in Words
      /\ d.kind = "s" => d.value \in DOMAIN Strings
  BY <1>1, <1>2, Zenon
<1>5. d.kind = kind
  BY <1>4, SpecifierIs
<1> QED
  BY <1>3, <1>4, <1>5, Zenon DEF d

LEMMA ConversionKeeps ==
  ASSUME PrintfInv, Conversion
  PROVE  PrintfInv'
<1> DEFINE d == Upcoming
<1>1. ASSUME NEW kind \in DOMAIN Specifier, NEW c, c = Specifier[kind], AtSpecifier(c),
             NEW text \in Printable, Means(d, text) \/ IsLeastInt(d), Iteration(text, 1, 2)
      PROVE  PrintfInv'
  <2>1. Len(out) < Len(call) /\ Len(Written(d)) = 2 /\ Len(Passed(d)) = 1
    BY <1>1, AtConversion
  <2> QED
    BY <1>1, <2>1, IterationKeeps, Zenon
<1>2. CASE AtSpecifier(Specifier.c) /\ Iteration(<<va_arg % 256>>, 1, 2)
  <2> DEFINE text == <<va_arg % 256>>
  <2>1. "c" \in DOMAIN Specifier /\ Specifier.c = Specifier["c"]
    BY SpecifierIs
  <2>2. /\ d.kind = "c" /\ d.value \in Words /\ va_arg = d.value
        /\ d.kind = "s" => d.value \in DOMAIN Strings
    BY <1>2, <2>1, AtConversion
  <2>3. text = <<d.value % 256>>
    BY <2>2
  <2>4. Means(d, text) \/ IsLeastInt(d)
    BY <2>2, <2>3, ConversionMeans
  <2>5. text \in Printable
    BY <2>2, <2>3, ConversionMeans
  <2> QED
    BY <1>1, <1>2, <2>1, <2>4, <2>5, Zenon
<1>3. CASE AtSpecifier(Specifier.s) /\ Iteration(terminal_writestring(va_arg), 1, 2)
  <2> DEFINE text == terminal_writestring(va_arg)
  <2>1. "s" \in DOMAIN Specifier /\ Specifier.s = Specifier["s"]
    BY SpecifierIs
  <2>2. /\ d.kind = "s" /\ d.value \in Words /\ va_arg = d.value
        /\ d.kind = "s" => d.value \in DOMAIN Strings
    BY <1>3, <2>1, AtConversion
  <2>3. text = terminal_writestring(d.value)
    BY <2>2
  <2>4. Means(d, text) \/ IsLeastInt(d)
    BY <2>2, <2>3, ConversionMeans
  <2>5. text \in Printable
    BY <2>2, <2>3, ConversionMeans
  <2> QED
    BY <1>1, <1>3, <2>1, <2>4, <2>5, Zenon
<1>4. CASE AtSpecifier(Specifier.d) /\ Iteration(print_int(Signed(va_arg)), 1, 2)
  <2> DEFINE text == print_int(Signed(va_arg))
  <2>1. "d" \in DOMAIN Specifier /\ Specifier.d = Specifier["d"]
    BY SpecifierIs
  <2>2. /\ d.kind = "d" /\ d.value \in Words /\ va_arg = d.value
        /\ d.kind = "s" => d.value \in DOMAIN Strings
    BY <1>4, <2>1, AtConversion
  <2>3. text = print_int(Signed(d.value))
    BY <2>2
  <2>4. Means(d, text) \/ IsLeastInt(d)
    BY <2>2, <2>3, ConversionMeans
  <2>5. text \in Printable
    BY <2>2, <2>3, ConversionMeans
  <2> QED
    BY <1>1, <1>4, <2>1, <2>4, <2>5, Zenon
<1>5. CASE AtSpecifier(Specifier.i) /\ Iteration(print_int(Signed(va_arg)), 1, 2)
  <2> DEFINE text == print_int(Signed(va_arg))
  <2>1. "i" \in DOMAIN Specifier /\ Specifier.i = Specifier["i"]
    BY SpecifierIs
  <2>2. /\ d.kind = "i" /\ d.value \in Words /\ va_arg = d.value
        /\ d.kind = "s" => d.value \in DOMAIN Strings
    BY <1>5, <2>1, AtConversion
  <2>3. text = print_int(Signed(d.value))
    BY <2>2
  <2>4. Means(d, text) \/ IsLeastInt(d)
    BY <2>2, <2>3, ConversionMeans
  <2>5. text \in Printable
    BY <2>2, <2>3, ConversionMeans
  <2> QED
    BY <1>1, <1>5, <2>1, <2>4, <2>5, Zenon
<1>6. CASE AtSpecifier(Specifier.u) /\ Iteration(print_uint(va_arg), 1, 2)
  <2> DEFINE text == print_uint(va_arg)
  <2>1. "u" \in DOMAIN Specifier /\ Specifier.u = Specifier["u"]
    BY SpecifierIs
  <2>2. /\ d.kind = "u" /\ d.value \in Words /\ va_arg = d.value
        /\ d.kind = "s" => d.value \in DOMAIN Strings
    BY <1>6, <2>1, AtConversion
  <2>3. text = print_uint(d.value)
    BY <2>2
  <2>4. Means(d, text) \/ IsLeastInt(d)
    BY <2>2, <2>3, ConversionMeans
  <2>5. text \in Printable
    BY <2>2, <2>3, ConversionMeans
  <2> QED
    BY <1>1, <1>6, <2>1, <2>4, <2>5, Zenon
<1>7. CASE AtSpecifier(Specifier.x) /\ Iteration(print_hex(va_arg), 1, 2)
  <2> DEFINE text == print_hex(va_arg)
  <2>1. "x" \in DOMAIN Specifier /\ Specifier.x = Specifier["x"]
    BY SpecifierIs
  <2>2. /\ d.kind = "x" /\ d.value \in Words /\ va_arg = d.value
        /\ d.kind = "s" => d.value \in DOMAIN Strings
    BY <1>7, <2>1, AtConversion
  <2>3. text = print_hex(d.value)
    BY <2>2
  <2>4. Means(d, text) \/ IsLeastInt(d)
    BY <2>2, <2>3, ConversionMeans
  <2>5. text \in Printable
    BY <2>2, <2>3, ConversionMeans
  <2> QED
    BY <1>1, <1>7, <2>1, <2>4, <2>5, Zenon
<1>8. CASE AtSpecifier(Specifier.p) /\ Iteration(print_pointer(va_arg), 1, 2)
  <2> DEFINE text == print_pointer(va_arg)
  <2>1. "p" \in DOMAIN Specifier /\ Specifier.p = Specifier["p"]
    BY SpecifierIs
  <2>2. /\ d.kind = "p" /\ d.value \in Words /\ va_arg = d.value
        /\ d.kind = "s" => d.value \in DOMAIN Strings
    BY <1>8, <2>1, AtConversion
  <2>3. text = print_pointer(d.value)
    BY <2>2
  <2>4. Means(d, text) \/ IsLeastInt(d)
    BY <2>2, <2>3, ConversionMeans
  <2>5. text \in Printable
    BY <2>2, <2>3, ConversionMeans
  <2> QED
    BY <1>1, <1>8, <2>1, <2>4, <2>5, Zenon
<1> QED
  BY <1>2, <1>3, <1>4, <1>5, <1>6, <1>7, <1>8, Zenon DEF Conversion

LEMMA NoConversionKeeps ==
  ASSUME PrintfInv, NoConversion
  PROVE  PrintfInv'
<1> DEFINE d == Upcoming
<1>1. CASE AtSpecifier(percent) /\ Iteration(<<percent>>, 0, 2)
  <2>1. /\ Len(out) < Len(call) /\ Len(Written(d)) = 2 /\ Len(Passed(d)) = 0
        /\ d.kind = "percent" /\ d.value = percent
    <3>1. ~ (d.kind \in DOMAIN Specifier /\ percent = Specifier[d.kind])
      BY SpecifierIs DEF percent
    <3>2. percent # 88
      BY DEF percent
    <3> QED
      BY <1>1, <3>1, <3>2, AtPercent, Zenon
  <2>2. Means(d, <<percent>>)
    BY <2>1 DEF Means
  <2>3. <<percent>> \in Printable
    BY DEF Printable, percent
  <2> QED
    BY <1>1, <2>1, <2>2, <2>3, IterationKeeps, Zenon
<1>2. ASSUME NEW c, ~ (c \in Range(Specifier)), c # percent,
             AtSpecifier(c), Iteration(<<percent, c>>, 0, 2)
      PROVE  PrintfInv'
  <2>1. \A kind \in DOMAIN Specifier : c # Specifier[kind]
    BY <1>2 DEF Range
  <2>2. /\ Len(out) < Len(call) /\ Len(Written(d)) = 2 /\ Len(Passed(d)) = 0
        /\ d.kind = "unknown" /\ d.value = 88 /\ c = 88
    <3>1. \/ d.kind \in DOMAIN Specifier /\ c = Specifier[d.kind]
          \/ c = percent
          \/ d.kind = "unknown" /\ d.value = 88 /\ c = 88 /\ Len(Passed(d)) = 0
      BY <1>2, AtPercent
    <3>2. Len(out) < Len(call) /\ Len(Written(d)) = 2
      BY <1>2, AtPercent
    <3> HIDE DEF d
    <3> QED
      BY <1>2, <2>1, <3>1, <3>2, Zenon
  <2>3. Means(d, <<percent, 88>>)
    BY <2>2 DEF Means
  <2>4. <<percent, 88>> \in Printable
    BY DEF Printable, percent
  <2> QED
    BY <1>2, <2>2, <2>3, <2>4, IterationKeeps, Zenon
<1> QED
  BY <1>1, <1>2 DEF NoConversion

-----------------------------------------------------------------------------
\* Between calls, and at the start of one.
LEMMA EmptyCall ==
  ASSUME NEW directives \in Seq(Directives)
  PROVE  /\ Len(FormatOf(SubSeq(directives, 1, 0))) = 0
         /\ Len(WordsOf(SubSeq(directives, 1, 0))) = 0
<1> DEFINE none == SubSeq(directives, 1, 0)
<1>1. none = << >> /\ none \in Seq(Directives) /\ Len(none) = 0
  OBVIOUS
<1> HIDE DEF none
<1>2. Marks(none) \in Texts /\ Len(Marks(none)) = 0 /\ Gifts(none) \in Texts
      /\ Len(Gifts(none)) = 0
      /\ FormatOf(none) = FlattenSeq(Marks(none)) /\ WordsOf(none) = FlattenSeq(Gifts(none))
  BY <1>1, MarksType
<1>3. \A s \in Texts : Len(s) = 0 => s = << >>
  BY DEF Texts
<1>4. Marks(none) = << >> /\ Gifts(none) = << >>
  BY <1>2, <1>3
<1>5. Len(<< >>) = 0
  OBVIOUS
<1> QED
  BY <1>2, <1>4, <1>5, FlattenNone DEF none

LEMMA CallBegins ==
  ASSUME NEW directives \in Seq(Directives)
  PROVE  /\ call = directives /\ pos = 1 /\ ap = 1 /\ out = << >> => PrintfInv
         /\ call' = directives /\ pos' = 1 /\ ap' = 1 /\ out' = << >> => PrintfInv'
<1>1. /\ Len(FormatOf(SubSeq(directives, 1, 0))) = 0
      /\ Len(WordsOf(SubSeq(directives, 1, 0))) = 0
  BY EmptyCall
<1>2. << >> \in Seq(Printable) /\ Len(<< >>) = 0 /\ Len(directives) \in Nat
  OBVIOUS
<1>3. call = directives /\ pos = 1 /\ ap = 1 /\ out = << >> => PrintfInv
  BY <1>1, <1>2 DEF PrintfInv
<1>4. call' = directives /\ pos' = 1 /\ ap' = 1 /\ out' = << >> => PrintfInv'
  BY <1>1, <1>2 DEF PrintfInv
<1> QED
  BY <1>3, <1>4

LEMMA NextKeeps ==
  ASSUME PrintfInv, [PrintfNext]_printf_vars
  PROVE  PrintfInv'
<1>1. << >> \in Seq(Directives)
  OBVIOUS
<1>2. ASSUME NEW n \in 1 .. MaxDirectives, NEW directives \in [1 .. n -> Directives],
             Start(directives)
      PROVE  PrintfInv'
  <2>1. n \in Nat
    OBVIOUS
  <2>2. directives \in Seq(Directives)
    BY <2>1
  <2> QED
    BY <1>2, <2>2, CallBegins, Zenon DEF Start
<1>3. CASE Return
  BY <1>1, <1>3, CallBegins, Zenon DEF Return
<1>4. CASE UNCHANGED printf_vars
  <2>1. UNCHANGED <<call, pos, ap, out>>
    BY <1>4 DEF printf_vars
  <2> QED
    BY <2>1 DEF PrintfInv, FormatOf, WordsOf, Written, Passed, Means, IsLeastInt
<1> QED
  BY <1>2, <1>3, <1>4, PlainCharKeeps, ConversionKeeps, NoConversionKeeps DEF PrintfNext

\* The walks over the format and over the words stay in step with the directives
\* read, and each iteration prints what its directive asks for.
THEOREM PrintfInvariant == PrintfSpec => []PrintfInv
<1>1. PrintfInit => PrintfInv
  <2>1. << >> \in Seq(Directives)
    OBVIOUS
  <2> QED
    BY <2>1, CallBegins, Zenon DEF PrintfInit
<1> QED
  BY <1>1, NextKeeps, PTL DEF PrintfSpec

\* Each call of printf prints its directives, in order and no other, each as it is
\* defined: for every format, every word and every width of a word.
THEOREM DirectivesPrinted == PrintfSpec => []PrintsDirectives
<1>1. PrintfInv => PrintsDirectives
  <2>1. SUFFICES ASSUME PrintfInv
                 PROVE  /\ \A k \in DOMAIN out : Means(call[k], out[k]) \/ IsLeastInt(call[k])
                        /\ pos > Len(format) => Len(out) = Len(call)
    BY DEF PrintsDirectives
  <2>2. DOMAIN out = 1 .. Len(out) /\ Len(out) \in Nat /\ Len(call) \in Nat /\ Len(out) <= Len(call)
    BY <2>1, LenProperties DEF PrintfInv
  <2>3. \A k \in DOMAIN out : Means(call[k], out[k]) \/ IsLeastInt(call[k])
    BY <2>1, <2>2, Zenon DEF PrintfInv
  <2>4. pos > Len(format) => Len(out) = Len(call)
    <3>1. SUFFICES ASSUME pos > Len(format), Len(out) # Len(call) PROVE FALSE
      OBVIOUS
    <3>2. pos <= Len(format)
      <4>1. Len(out) < Len(call)
        BY <2>2, <3>1
      <4> QED
        BY <2>1, <4>1, AtDirective, Zenon
    <3>3. pos \in Nat /\ Len(format) \in Nat
      BY <2>1, AtEnd, Zenon
    <3> QED
      BY <3>1, <3>2, <3>3
  <2> QED
    BY <2>3, <2>4
<1> QED
  BY <1>1, PrintfInvariant, PTL

\* No directive takes a word that was passed for another, none is left over at the
\* end of a call, and none behind the arguments is taken.
THEOREM ArgumentsStay == PrintfSpec => []ArgumentsInStep
<1>1. PrintfInv => ArgumentsInStep
  BY Zenon DEF PrintfInv, ArgumentsInStep
<1> QED
  BY <1>1, PrintfInvariant, PTL
=============================================================================
