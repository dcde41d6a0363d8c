CONSTANTS
  c1 = c1
  c2 = c2
  c3 = c3
  NONE = NONE
  Conns <- TwoConns
  MaxFd = 3
  Rates <- TwoRates
  Faults <- AllFaults
SPECIFICATION Spec
INVARIANTS
  TypeOK
  StatusMatchesInterest
  LogFaithful
  Inv
 
CHECK_DEADLOCK FALSE
