CONSTANTS
  Size = 5
  MaxDist = 100
  Graphs <- Detours
SPECIFICATION Spec
INVARIANT FoundIsShortest
CHECK_DEADLOCK FALSE
