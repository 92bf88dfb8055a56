SPECIFICATION LiveSpec
CONSTANTS
  o1 = o1
  o2 = o2
  p1 = p1
  Orders = {o1}
  Products = {p1}
  Demand <- OneEach
  InitialStock <- OneUnit
  MaxMishaps = 1
  Scripts <- AnsweringScripts
  PopulateExisting = FALSE
  SharedGateway = FALSE
CHECK_DEADLOCK FALSE
INVARIANTS TypeOK IInv PaidIsBacked SettledTheRightWay HeldStockIsOwed ReturnedOnlyWhenCancelled FailureMeansNoCapture LateChargeIsOwed
PROPERTIES ImplementsPurchase EveryOrderTerminates ReplayedStockReturns AnsweredChargeReturns
