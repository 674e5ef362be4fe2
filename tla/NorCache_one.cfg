SPECIFICATION FairSpec
CONSTANTS
  Threads = {t1}
  NumPages = 2
  SectorsPerPage = 2
  TotalSectors = 6
  UsedSectors = {1, 2, 4}
  MaxTransfer = 2
  Values = {v1, v2}
  Torn = Torn
  Faults = FALSE
  MaxCrashes = 1
  NoThread = NoThread
INVARIANTS TypeOK CleanPagesMatchDisc
PROPERTIES ImplementsStore FlushMakesDurable SwapOutKeepsData CallsReturn
