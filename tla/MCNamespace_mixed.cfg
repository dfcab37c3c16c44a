SPECIFICATION Spec
CONSTANTS
  Sorted <- Mixed
  Host = host
  None = none
INVARIANTS TypeOK EveryImageKnown
PROPERTIES Isolated OthersStayMounted
