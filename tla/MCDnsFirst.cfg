CONSTANTS
  d1 = d1
  d2 = d2
  d3 = d3
  NoAddr = NoAddr
  Calls <- TwoCalls
  MaxCopies = 1
  NetFaults <- NoLoss
  Files <- OneFile
  Modes <- WithR
  ServerFaults <- OnlyUninit
SPECIFICATION FairSpec
PROPERTY FirstAnsweredToo
CHECK_DEADLOCK FALSE
