CONSTANTS
  ThreadCount = 2
  Ticker = 1
  Sizes = {3}
  MaxPackets = 2
SPECIFICATION FairSpec
INVARIANTS UnracedExact NeverInvented
PROPERTIES RowsDrained
