CONSTANTS
  Size = 4
  MaxDist = 16
  Graphs <- SmallGraphs
SPECIFICATION Spec
INVARIANTS
  TypeOK
  NeverTooShort
  ExhaustedOnlyIfUnreachable
  RightUnlessFallen
CHECK_DEADLOCK FALSE
