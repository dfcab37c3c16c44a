SPECIFICATION Spec
CONSTANTS
  Pairs = {p1, p2, p3}
  NoFile = nofile
  Settings = {"off", "own", "supplied"}
  Tabs = {t1, t2}
  Tokens = {s1, s2}
  None = none
  Keep = keep
SYMMETRY Symmetry
INVARIANTS WebTypeOK OwnPairMatches FormsStayInTheirLogin FreshPageWorks
PROPERTIES LoginReaches LoginKept
