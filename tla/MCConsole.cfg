SPECIFICATION Spec
CONSTANTS
  Conns = {c1, c2}
  Services = {s1, s2}
  MaxTabs = 2
  MaxLost = 1
  MaxFaults = 2
SYMMETRY Symmetry
INVARIANTS TypeOK LinksGo
PROPERTIES UnsealServes SealStops
