CONSTANTS
  Sd = sd
  Msc = {m1, m2}
  Letters = 3
  QueueLen = 3
  MaxPlugs = 4
  None = none
CHECK_DEADLOCK FALSE
SPECIFICATION FairSpec
PROPERTY RemovalTold
