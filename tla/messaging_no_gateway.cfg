SPECIFICATION LiveSpec
CONSTANTS
  m1 = m1
  m2 = m2
  f1 = f1
  c1 = c1
  c2 = c2
  r1 = r1
  r2 = r2
  Messages = {m1, m2}
  Poison = {m2}
  Retries = 1
  PeekLimit = 2
  Consumers = {c1}
  MaxLosses = 0
  FeedRows = {f1}
  Transactions <- TwoTransactions
  Relays = {r1}
  BatchSize = 1
  Instants = 2
CHECK_DEADLOCK FALSE
PROPERTIES CommittedIsPublished
