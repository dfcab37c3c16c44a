SPECIFICATION Spec
CONSTANTS
  Workers = {w1, w2}
  Main = main
  NoProc = noproc
  Requests = {"create", "unseal", "seal"}
  NumImages = 3
  NumLoops = 2
  MaxFaults = 1
  MaxCrashes = 0
SYMMETRY Symmetry
INVARIANTS OneTransitionAtATime
PROPERTIES ReadyStaysReady
