SPECIFICATION FairSpec
CONSTANTS
  Wrap = 8
  Second = 2
  TimeOut = 4
  MaxLag = 2
INVARIANTS TypeOK LitAtEnd
PROPERTIES OffOnlyIdle Wakes Sleeps
CHECK_DEADLOCK FALSE
