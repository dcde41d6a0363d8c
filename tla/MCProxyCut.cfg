CONSTANTS
  c1 = c1
  c2 = c2
  c3 = c3
  NONE = NONE
  Conns <- TwoConns
  MaxFd = 4
  Rates <- OneRate
  Faults <- OnlyCut
SPECIFICATION Spec
INVARIANT FinishedSending
CHECK_DEADLOCK FALSE
