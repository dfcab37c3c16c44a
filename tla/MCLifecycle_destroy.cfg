SPECIFICATION Spec
CONSTANTS
  Workers = {w1, w2}
  Main = main
  NoProc = noproc
  Requests = {"destroy", "unseal"}
  NumImages = 3
  NumLoops = 2
  MaxFaults = 0
  MaxCrashes = 0
PROPERTIES OpenImageKept
