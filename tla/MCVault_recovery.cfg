SPECIFICATION Spec
CONSTANTS
  Workers = {w1, w2}
  Main = main
  NoProc = noproc
  MaxFaults = 1
  MaxCrashes = 2
  Holders = {h1}
  Operator = FALSE
  FuserInstalled = FALSE
SYMMETRY Symmetry
INVARIANTS StubProtected QuietIsWhole
PROPERTIES StartupConverges Implements
