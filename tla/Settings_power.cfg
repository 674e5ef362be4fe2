SPECIFICATION FairSpec
CONSTANTS
  Tasks = {k1, k2}
  Main = Main
  MaxVersion = 2
  MaxCrashes = 2
  Boards <- AllBoards
  Partial = Partial
  Torn = Torn
  Missing = Missing
  None = None
CHECK_DEADLOCK FALSE
INVARIANTS TypeOK OneCopySolid Recovers
PROPERTIES BootEnds LoneSavesReachFile SettingsKept
