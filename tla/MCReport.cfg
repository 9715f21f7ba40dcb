CONSTANTS
  ThreadCount = 3
  Base = 2
  Word = 64
  Intervals = {1, 3}
  Sizes = {1, 3}
  MaxBytes = 5
SPECIFICATION ReportSpec
INVARIANTS RateIsExact SharesAddUp
