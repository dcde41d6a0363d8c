CONSTANTS
  d1 = d1
  d2 = d2
  d3 = d3
  NoAddr = NoAddr
  Calls <- TwoCalls
  MaxCopies = 2
  NetFaults <- AllNet
  Files <- SomeFiles
  Modes <- BothModes
  ServerFaults <- AllServer
SPECIFICATION FairSpec
INVARIANTS
  TypeOK
  RoundRobinBalanced
  AnswersAreServers
PROPERTY AnsweredUnlessLost
CHECK_DEADLOCK FALSE
