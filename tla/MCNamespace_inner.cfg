SPECIFICATION Spec
CONSTANTS
  Sorted <- Inner
  Host = host
  None = none
PROPERTIES DestroyKeepsOthers
