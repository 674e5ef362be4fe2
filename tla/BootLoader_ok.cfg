SPECIFICATION FairSpec
CONSTANTS
  ini = ini
  bin = bin
  Files = {ini, bin}
  Package <- ImageAndFiles
  Builds <- AllBuilds
  Fragile = TRUE
  MaxLosses = 2
  MaxFaults = 1
  MaxSwaps = 1
CHECK_DEADLOCK FALSE
INVARIANTS TypeOK Resumable NoMixedBoot FinishedMeansProgrammed
PROPERTIES OnlyGoodProgrammed Settles Installs
