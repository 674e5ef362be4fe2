SPECIFICATION FairSpec
CONSTANTS
  Tasks = {k1}
  Main = Main
  MaxVersion = 2
  MaxCrashes = 0
  Boards <- BusyBoard
  Partial = Partial
  Torn = Torn
  Missing = Missing
  None = None
CHECK_DEADLOCK FALSE
PROPERTIES SavesReachFile
