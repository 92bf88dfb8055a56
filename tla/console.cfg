SPECIFICATION LiveSpec
CONSTANTS
  Orders = {o1}
  Found = {"reserved"}
  QueueSize = 1
  WireSize = 1
  MaxLoads = 2
  MaxPipe = 2
  MaxTroubles = 1
  MaxExpiries = 1
  Requests <- Slots
  MaxPairs = 5
CHECK_DEADLOCK FALSE
INVARIANTS TypeOK QuietMeansCurrent OneLivePair SignedOutOnlyByMishap
PROPERTY CatchesUp
