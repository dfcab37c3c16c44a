SPECIFICATION FairSpec
CONSTANTS
  Workers = {w1, w2}
  Main = main
  NoProc = noproc
  MaxFaults = 1
  MaxCrashes = 0
  Holders = {h1}
  Operator = FALSE
  FuserInstalled = TRUE
PROPERTIES EveryRequestEnds
