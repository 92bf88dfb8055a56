------------------------------- MODULE MCSaga -------------------------------
EXTENDS SagaInvariant, TLC

CONSTANTS o1, o2, p1

OneEach == [o \in Orders |-> [p \in Products |-> 1]]
OneUnit == [p \in Products |-> 1]

S(charge, resolution, back, backResolution) ==
  [charge |-> charge, chargeResolution |-> resolution,
   refund |-> back, refundResolution |-> backResolution]

\* Every provider that answers in the end.
AnsweringScripts ==
  {S("success", "unknown", "success", "unknown"),
   S("failure", "unknown", "success", "unknown"),
   S("timeout", "success", "timeout", "success"),
   S("timeout", "failure", "success", "unknown"),
   S("timeout", "success", "timeout", "failure"),
   S("success", "unknown", "failure", "unknown")}

\* Charges time out on the client but go through; refunds are answered.
SlowChargeScripts == {S("timeout", "success", "success", "unknown")}

DecliningScripts == {S("failure", "unknown", "success", "unknown")}

Symmetry == Permutations(Orders)
=============================================================================
