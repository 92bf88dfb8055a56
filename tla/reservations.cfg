SPECIFICATION LiveSpec
CONSTANTS
  o1 = o1
  o2 = o2
  s1 = s1
  s2 = s2
  s3 = s3
  Orders = {o1, o2}
  LastProduct = 2
  InitialStock <- ShortStock
  Sessions = {s1, s2, s3}
  Asks <- Overlapping
CHECK_DEADLOCK FALSE
INVARIANTS TypeOK NoDeadlock DecisionsHold
PROPERTIES ImplementsStock SessionsEnd
