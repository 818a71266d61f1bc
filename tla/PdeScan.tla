------------------------------ MODULE PdeScan ------------------------------
(***************************************************************************)
(* The survey of the page directory in memory/memory.h: the number of free *)
(* entries, the first free one, and, step by step, the ranges of free      *)
(* entries, on every directory that can arise from boot.nasm's by          *)
(* setup_recursive_pd and alloc_new_pt, which only make entries present.   *)
(***************************************************************************)
EXTENDS Integers, FiniteSets, Sequences

CONSTANTS PDE_COUNT,   \* 1024
          KernelPde,   \* 768
          MaxRanges    \* the length of the buffer in print_pde_summary, 512

ASSUME PdeScanAssumption ==
  /\ PDE_COUNT \in Nat \ {0, 1}
  /\ KernelPde \in 1 .. PDE_COUNT - 1
  /\ MaxRanges \in Nat
  /\ 2 * MaxRanges >= PDE_COUNT

VARIABLES
  present,      \* the directory entries whose present bit is set
  survey,       \* "idle", or where collect_free_pde_ranges is: "scan", "done"
  max_ranges,   \* its argument: the room in the buffer
  pde,          \* the variable i of its loop
  start,        \* the start of the range the loop is in, or -1
  ranges        \* the ranges stored

pde_vars == <<present, survey, max_ranges, pde, start, ranges>>

Index == 0 .. PDE_COUNT - 1

is_pde_free(i) == i \notin present

count_free_pdes == Cardinality({i \in Index : is_pde_free(i)})

find_first_free_pde ==
  IF \E i \in Index : is_pde_free(i)
  THEN CHOOSE i \in Index : is_pde_free(i) /\ \A j \in 0 .. i - 1 : ~ is_pde_free(j)
  ELSE -1

\* No call: its argument and variables do not exist.
NoSurvey ==
  survey = "idle" /\ max_ranges = 0 /\ pde = 0 /\ start = -1 /\ ranges = << >>

PdeInit == present = {0, KernelPde} /\ NoSurvey

-----------------------------------------------------------------------------
\* The entries that become present between two surveys.

Unsurveyed == survey = "idle" /\ UNCHANGED <<survey, max_ranges, pde, start, ranges>>

setup_recursive_pd == Unsurveyed /\ present' = present \union {PDE_COUNT - 1}

alloc_new_pt(i) == Unsurveyed /\ is_pde_free(i) /\ present' = present \union {i}

-----------------------------------------------------------------------------
\* Mutant of Store: the last place of the buffer stays empty.
Store_OneShort(last) ==
  ranges' = IF Len(ranges) < max_ranges - 1
            THEN Append(ranges, [start |-> start, end |-> last]) ELSE ranges

\* The range from start to last is stored if the buffer has room.
Store(last) ==
  ranges' = IF Len(ranges) < max_ranges
            THEN Append(ranges, [start |-> start, end |-> last]) ELSE ranges

\* collect_free_pde_ranges is called; without room it returns at once.
Collect(room) ==
  /\ survey = "idle"
  /\ survey' = IF room = 0 THEN "done" ELSE "scan"
  /\ max_ranges' = room
  /\ pde' = 0
  /\ start' = -1
  /\ ranges' = << >>
  /\ UNCHANGED present

InLoop == survey = "scan" /\ pde < PDE_COUNT /\ UNCHANGED <<present, survey, max_ranges>>

FreeEntry ==
  /\ InLoop
  /\ is_pde_free(pde)
  /\ start' = IF start = -1 THEN pde ELSE start
  /\ pde' = pde + 1
  /\ UNCHANGED ranges

\* Mutant of UsedEntry: the start of a finished range is kept.
UsedEntry_StartKept ==
  /\ InLoop
  /\ ~ is_pde_free(pde)
  /\ IF start = -1 THEN UNCHANGED ranges ELSE Store(pde - 1)
  /\ pde' = pde + 1
  /\ UNCHANGED start

UsedEntry ==
  /\ InLoop
  /\ ~ is_pde_free(pde)
  /\ IF start = -1 THEN UNCHANGED ranges ELSE Store(pde - 1)
  /\ start' = -1
  /\ pde' = pde + 1

TrailingRange ==
  /\ survey = "scan"
  /\ pde = PDE_COUNT
  /\ IF start = -1 THEN UNCHANGED ranges ELSE Store(PDE_COUNT - 1)
  /\ survey' = "done"
  /\ UNCHANGED <<present, max_ranges, pde, start>>

SurveyReturns ==
  /\ survey = "done"
  /\ survey' = "idle" /\ max_ranges' = 0 /\ pde' = 0 /\ start' = -1 /\ ranges' = << >>
  /\ UNCHANGED present

PdeNext ==
  \/ setup_recursive_pd
  \/ \E i \in Index : alloc_new_pt(i)
  \/ \E room \in 0 .. PDE_COUNT : Collect(room)
  \/ FreeEntry \/ UsedEntry \/ TrailingRange \/ SurveyReturns

PdeSpec == PdeInit /\ [][PdeNext]_pde_vars

-----------------------------------------------------------------------------
\* The maximal ranges of free entries, by definition.
FreeRuns ==
  {r \in [start : Index, end : Index] :
     /\ r.start <= r.end
     /\ \A i \in r.start .. r.end : is_pde_free(i)
     /\ r.start = 0 \/ ~ is_pde_free(r.start - 1)
     /\ r.end = PDE_COUNT - 1 \/ ~ is_pde_free(r.end + 1)}

Stored == {ranges[k] : k \in DOMAIN ranges}

(***************************************************************************)
(* Whatever the room in the buffer, collect_free_pde_ranges returns the    *)
(* lowest maximal ranges of free entries, each once and in ascending       *)
(* order, and all of them unless the buffer is full.                       *)
(***************************************************************************)
RangesAreFreeRuns ==
  survey = "done" =>
    /\ \A k \in 1 .. Len(ranges) - 1 : ranges[k].end < ranges[k + 1].start
    /\ Stored \subseteq FreeRuns
    /\ Stored = FreeRuns \/ Len(ranges) = max_ranges
    /\ \A r \in FreeRuns \ Stored, q \in Stored : q.end < r.start

(***************************************************************************)
(* print_pde_summary's buffer is "Enough for worst-case fragmentation      *)
(* (every other PDE free)" (memory.h:125): the ranges it prints contain    *)
(* every free entry it has counted, and the first one starts at the entry  *)
(* scan_pde_for_free returns.                                              *)
(***************************************************************************)
SummaryIsComplete ==
  survey = "done" /\ max_ranges = MaxRanges =>
    /\ Cardinality(UNION {r.start .. r.end : r \in Stored}) = count_free_pdes
    /\ find_first_free_pde = IF ranges = << >> THEN -1 ELSE ranges[1].start
=============================================================================
