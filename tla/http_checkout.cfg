SPECIFICATION LiveSpec
CONSTANTS
  r1 = r1
  r2 = r2
  r3 = r3
  r4 = r4
  p1 = p1
  Requests = {r1, r2, r3, r4}
  KeyOf <- Keys
  ItemsOf <- Wanted
  Products = {p1}
  InitialStock <- OneUnit
CHECK_DEADLOCK FALSE
INVARIANTS TypeOK AnswersAgree PaidForGoods CapturedKeepsGoods
PROPERTIES NobodyLeftWaiting
