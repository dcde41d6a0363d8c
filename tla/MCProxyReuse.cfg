CONSTANTS
  c1 = c1
  c2 = c2
  c3 = c3
  NONE = NONE
  Conns <- ThreeConns
  MaxFd = 5
  Rates <- OneRate
  Faults <- Hangups
SPECIFICATION Spec
INVARIANTS
  WatchedExactlyWhileOpen
  ReplyRouting
  NoRequestForgotten
SYMMETRY Symmetry
CHECK_DEADLOCK FALSE
