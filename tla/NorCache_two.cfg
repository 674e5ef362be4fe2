SPECIFICATION FairSpec
CONSTANTS
  Threads = {t1, t2}
  NumPages = 2
  SectorsPerPage = 2
  TotalSectors = 6
  UsedSectors = {1, 2, 4}
  MaxTransfer = 1
  Values = {v1}
  Torn = Torn
  Faults = TRUE
  MaxCrashes = 0
  NoThread = NoThread
INVARIANTS NoAliasing
