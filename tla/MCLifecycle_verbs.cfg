SPECIFICATION Spec
CONSTANTS
  Workers = {w1}
  Main = main
  NoProc = noproc
  Requests = {"create", "destroy", "unseal", "seal"}
  NumImages = 3
  NumLoops = 2
  MaxFaults = 2
  MaxCrashes = 2
INVARIANTS TypeOK NoOrphanLoop BetweenRequestsWhole StubImmutable
PROPERTIES VerbsReachGoals LeftoversGo
