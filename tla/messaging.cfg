SPECIFICATION ConnectedSpec
CONSTANTS
  m1 = m1
  m2 = m2
  f1 = f1
  c1 = c1
  c2 = c2
  r1 = r1
  r2 = r2
  Messages = {m1, m2}
  Poison = {m2}
  Retries = 1
  PeekLimit = 2
  Consumers = {c1}
  MaxLosses = 1
  FeedRows = {f1}
  Transactions <- TwoTransactions
  Relays = {r1, r2}
  BatchSize = 2
  Instants = 1
CHECK_DEADLOCK FALSE
INVARIANTS TypeOK NothingLost ParkedAfterAllTries OnceUnlessLoss
PROPERTIES EveryEventSettles
