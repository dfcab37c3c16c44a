SPECIFICATION Spec
CONSTANTS
  Workers = {w1, w2}
  Main = main
  NoProc = noproc
  MaxFaults = 1
  MaxCrashes = 1
  Holders = {h1}
  Operator = TRUE
  FuserInstalled = TRUE
SYMMETRY Symmetry
INVARIANTS TypeOK Exclusive
PROPERTIES OutcomeSound RollbackClean UnsealedAnswerSound
