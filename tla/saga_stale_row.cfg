SPECIFICATION AttendedSpec
CONSTANTS
  o1 = o1
  o2 = o2
  p1 = p1
  Orders = {o1}
  Products = {p1}
  Demand <- OneEach
  InitialStock <- OneUnit
  MaxMishaps = 0
  Scripts <- SlowChargeScripts
  PopulateExisting = FALSE
  SharedGateway = FALSE
CHECK_DEADLOCK FALSE
PROPERTY LateChargeReturns
