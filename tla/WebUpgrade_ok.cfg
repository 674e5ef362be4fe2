CONSTANTS
  Conns = {c1, c2}
  Buffers = {b1, b2}
  Packages = {p1, p2}
  Damaged = damaged
  Torn = torn
  None = none
  MaxRestarts = 1
CHECK_DEADLOCK FALSE
SPECIFICATION FairSpec
INVARIANTS TypeOK StreamInMemory OkSurvives
PROPERTIES StreamKept UpgradeAnswered ServerBack
