--------------------------- MODULE SagaInvariant ---------------------------
(***************************************************************************)
(* The inductive invariant behind the saga's safety properties.  None of   *)
(* the properties is inductive: what keeps them true is what each message  *)
(* in flight proves about the databases of the other services, and which   *)
(* message is owed while stock is held for an order nobody has accepted.   *)
(***************************************************************************)
EXTENDS Saga

\* What a message proves about the rows it was sent from, however late it comes.
Evidence(o) ==
  /\ InFlight("order.created", o) => status[o] # "none"
  /\ InFlight("order.cancelled", o) => status[o] = "cancelled"
  /\ InFlight("order.paid", o) => status[o] \in {"paid", "fulfilled"}
  /\ InFlight("inventory.reserved", o) => reservation[o] # "none"
  /\ InFlight("inventory.committed", o) => reservation[o] = "committed"
  /\ InFlight("charge.requested", o) => status[o] \notin {"none", "pending"}
  /\ InFlight("payment.succeeded", o) => Captured(o)
  /\ InFlight("payment.failed", o) => LookupAnswer(o) = "failure"
  /\ InFlight("refund.requested", o) => status[o] = "cancelled" /\ Captured(o)

\* The reservations an order of each status may have.
StockFollowsOrder(o) ==
  /\ status[o] = "none" => reservation[o] = "none"
  /\ status[o] = "pending" => reservation[o] \in {"none", "held"}
  /\ status[o] = "reserved" => reservation[o] = "held"
  /\ status[o] = "paid" => reservation[o] \in {"held", "committed"}
  /\ status[o] = "fulfilled" => reservation[o] = "committed"
  /\ status[o] = "cancelled" => reservation[o] \in {"none", "held", "released"}

\* Held stock the Order service has not accepted is on its way to be accepted
\* or released.
StockIsOwed(o) ==
  reservation[o] = "held" /\ status[o] \in {"pending", "cancelled"} =>
    \/ InFlight("order.created", o)
    \/ InFlight("inventory.reserved", o)
    \/ status[o] = "cancelled" /\ InFlight("order.cancelled", o)

\* Nothing is charged before the stock was accepted, the payment row and the
\* ledger agree with the provider, and money moves on only in the direction the
\* order went.
MoneyFollowsProvider(o) ==
  /\ o \in charging \/ listed[o] # "none" => payment[o] # "none"
  /\ payment[o] # "none" => status[o] \notin {"none", "pending"}
  /\ payment[o] \in {"succeeded", "refunded"} => Captured(o)
  /\ payment[o] = "failed" => LookupAnswer(o) = "failure"
  /\ Captured(o) => LookupAnswer(o) = "success"
  /\ status[o] \in {"paid", "fulfilled"} => Captured(o)

RefundFollowsCancel(o) ==
  /\ refund[o] # "none" => status[o] = "cancelled" /\ Captured(o)
  /\ o \in refunding \/ refundListed[o] # "none" \/ Returned(o) => refund[o] # "none"

OrderInv(o) ==
  /\ Evidence(o)
  /\ StockFollowsOrder(o)
  /\ StockIsOwed(o)
  /\ MoneyFollowsProvider(o)
  /\ RefundFollowsCancel(o)

IInv == TypeOK /\ \A o \in Orders : OrderInv(o)
=============================================================================
