SPECIFICATION FairSpec
CONSTANTS
  Workers = {"w1", "w2"}
  UrbAlloc = 2
  UrbMcc = 1
  MaxSche = 0
  RxqThreshold = 2
  Setups <- AllSetups
  MaxBufs = 3
  MaxErrs = 2
  MaySleep = TRUE
INVARIANTS TypeOK UrbConserved HandedInOrder RxNeverDry AsleepQuiet
PROPERTIES CompletionHandled
CHECK_DEADLOCK FALSE
