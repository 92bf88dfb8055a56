SPECIFICATION Spec
CONSTANTS
  o1 = o1
  o2 = o2
  o3 = o3
  o4 = o4
  Token = 4
  Full = 8
  Second = 3
  MaxWindow = 10
  MaxStep = 2
  Purchases = {o1, o2, o3, o4}
  BasketOf <- Baskets
  Recorders = {c1, c2}
  MaxReruns = 2
  n1 = n1
  n2 = n2
  n3 = n3
  Notices = {n1, n2, n3}
  KeyFor <- Keys
  OrderFor <- Abouts
  Notifiers = {c1, c2}
  MaxResends = 2
  Ids = {1, 2, 3}
  PageSize = 1
  MaxTime = 1
  MaxFlips = 2
CHECK_DEADLOCK FALSE
INVARIANTS TypeOK BurstBounded PromiseKept CountsFollowOrders NoCircularWait ConfirmedOnce PagesComplete
