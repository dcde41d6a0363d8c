CONSTANTS
  d1 = d1
  d2 = d2
  d3 = d3
  NoAddr = NoAddr
  Calls <- TwoCalls
  MaxCopies = 1
  NetFaults <- OnlyLoss
  Files <- OneFile
  Modes <- WithR
  ServerFaults <- NoServer
SPECIFICATION FairSpec
PROPERTY ResolveReturns
CHECK_DEADLOCK FALSE
