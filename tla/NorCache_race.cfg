SPECIFICATION FairSpec
CONSTANTS
  Threads = {t1, t2}
  NumPages = 2
  SectorsPerPage = 2
  TotalSectors = 6
  UsedSectors = {1, 2, 4}
  MaxTransfer = 2
  Values = {v1, v2}
  Torn = Torn
  Faults = FALSE
  MaxCrashes = 0
  NoThread = NoThread
PROPERTY SwapOutKeepsData
