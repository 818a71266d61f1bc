SPECIFICATION Spec
CONSTANTS
  TotalPages = 8
  PDE_COUNT = 10
  KernelPde = 8
  MaxRanges = 5
  WordMod = 1024
  Strings <- MCStrings
  Values <- MCValues
  MaxDirectives = 2
INVARIANTS ScanIsFirstFit RangesAreFreeRuns SummaryIsComplete PrintsDirectives ArgumentsInStep
