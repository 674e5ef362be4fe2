SPECIFICATION FairSpec
CONSTANTS
  Languages = {"eng", "cht", "chs"}
  QueueSize = 3
  Delay = 2
INVARIANTS TypeOK SafeScene
PROPERTIES LanguageShown QuitEnds
CHECK_DEADLOCK FALSE
