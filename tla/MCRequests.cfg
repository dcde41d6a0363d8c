CONSTANTS
  c1 = c1
  c2 = c2
  c3 = c3
  NONE = NONE
  Conns = {c1, c2, c3}
  Streams <- MCStreams
  Manifests <- MCManifests
  MaxNum = 4
  AlphaNum = 1
  AlphaDen = 2
  BUF_SIZE = 8
  Tputs = {10, 30, 90}
SPECIFICATION Spec
SYMMETRY Exchange
INVARIANTS
  TypeOK
  PartsJoined
  CountInStep
  HandedWhenWhole
  QueuedInOrder
  RefusedOnlyTooLong
  SentIsAsked
  LoggedIsSent
  DiesOnlyOfOddText
  RatesTerminated
  RateIsBestOffer
  AverageWithinMeasured
  ChunksCountOnce
PROPERTY RatesAreListed
CHECK_DEADLOCK FALSE
