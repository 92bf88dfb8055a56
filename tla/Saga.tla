-------------------------------- MODULE Saga --------------------------------
(***************************************************************************)
(* The checkout saga: the Order, Inventory and Payment services joined by  *)
(* the message bus.  Each service changes its own database and the bus,    *)
(* and the only thing they share is the messages.                          *)
(***************************************************************************)
EXTENDS OrderService, InventoryService, PaymentService, FiniteSets

vars == <<busVars, orderVars, inventoryVars, paymentVars>>

TypeOK ==
  /\ BusTypeOK
  /\ OrderTypeOK
  /\ InventoryTypeOK
  /\ PaymentTypeOK

Init ==
  /\ BusInit
  /\ OrderInit
  /\ InventoryInit
  /\ PaymentInit

BusStep ==
  \E m \in SagaMessage, acked \in BOOLEAN : DeadLetter(m, acked) \/ Replay(m, acked)

\* A step of one service: the other databases stay as they are.
ByOrder(step) == step /\ UNCHANGED <<inventoryVars, paymentVars>>
ByInventory(step) == step /\ UNCHANGED <<orderVars, paymentVars>>
ByPayment(step) == step /\ UNCHANGED <<orderVars, inventoryVars>>
ByBus(step) == step /\ UNCHANGED <<orderVars, inventoryVars, paymentVars>>

Next ==
  \/ ByOrder(OrderStep)
  \/ ByInventory(InventoryStep)
  \/ ByPayment(PaymentStep)
  \/ ByBus(BusStep)

Spec == Init /\ [][Next]_vars

-----------------------------------------------------------------------------
(* Fairness.  The services run their consumers and pollers forever, so a   *)
(* message that stays queued is handled and acknowledged, an outbox that   *)
(* stays full is relayed, and the pollers reach every row that stays       *)
(* eligible. Nothing is assumed of shoppers, of mishaps, or of the order   *)
(* of deliveries.                                                          *)

OrderFairness ==
  /\ WF_vars(ByOrder(RelayOnce))
  /\ \A o \in Orders :
       /\ WF_vars(ByOrder(OnInventoryReserved(o, "acked")))
       /\ WF_vars(ByOrder(OnInventoryFailed(o, "acked")))
       /\ WF_vars(ByOrder(OnPaymentSucceeded(o, "acked")))
       /\ WF_vars(ByOrder(OnPaymentFailed(o, "acked")))
       /\ WF_vars(ByOrder(OnInventoryCommitted(o, "acked")))
       /\ WF_vars(ByOrder(Reconcile({o})))

InventoryFairness ==
  \A o \in Orders :
    /\ WF_vars(ByInventory(HandleOrderCreated(o, "acked")))
    /\ WF_vars(ByInventory(HandleOrderCancelled(o, "acked")))
    /\ WF_vars(ByInventory(HandleOrderPaid(o, "acked")))

PaymentFairness ==
  \A o \in Orders :
    /\ WF_vars(ByPayment(ChargeBegin(o)))
    /\ WF_vars(ByPayment(ChargeFinish(o, "acked")))
    /\ WF_vars(ByPayment(ChargeReplay(o, "acked")))
    /\ WF_vars(ByPayment(ListPayment(o)))
    /\ WF_vars(ByPayment(ResolvePayment(o)))
    /\ WF_vars(ByPayment(ReportPayment(o, "acked")))
    /\ WF_vars(ByPayment(RefundBegin(o)))
    /\ WF_vars(ByPayment(RefundSkip(o, "acked")))
    /\ WF_vars(ByPayment(RefundFinish(o, "acked") \/ RefundClash(o)))
    /\ WF_vars(ByPayment(ListRefund(o)))
    /\ WF_vars(ByPayment(ResolveRefund(o)))
    /\ WF_vars(ByPayment(ReportRefund(o)))

\* An operator replays what ends up on the dead-letter queues.
OperatorFairness ==
  \A m \in SagaMessage : WF_vars(ByBus(Replay(m, TRUE)))

\* The services run, and nobody looks at the dead-letter queues...
LiveSpec == Spec /\ OrderFairness /\ InventoryFairness /\ PaymentFairness

\* ...or somebody does.
AttendedSpec == LiveSpec /\ OperatorFairness

-----------------------------------------------------------------------------
(* Safety. *)

\* The messages still to be delivered, or that an operator can replay.
Pool == queued \cup outbox \cup dead
InFlight(type, o) == Event(type, o) \in Pool

Captured(o) == Debit(o) \in ledger
Returned(o) == Credit(o) \in ledger

\* An order the Order service calls paid has captured money and stock that is
\* still its own, and one it calls fulfilled has its stock committed, although
\* the three facts are in three databases and every message may be late,
\* repeated or overtaken.
PaidIsBacked ==
  \A o \in Orders :
    /\ status[o] \in {"paid", "fulfilled"} =>
         Captured(o) /\ reservation[o] \in {"held", "committed"}
    /\ status[o] = "fulfilled" => reservation[o] = "committed"

\* Stock is committed only for an order that is paid, and released only for one
\* that is cancelled: no late order.paid or order.cancelled reaches the
\* reservation of an order that went the other way.
SettledTheRightWay ==
  \A o \in Orders :
    /\ reservation[o] = "committed" => status[o] \in {"paid", "fulfilled"}
    /\ reservation[o] = "released" => status[o] = "cancelled"

\* A cancelled order whose stock is still held has a message in flight that
\* leads to its release: order.cancelled itself, or the delivery whose reply
\* makes the Order service send it again (FR-4, order_service.py on late
\* reservations).
HeldStockIsOwed ==
  \A o \in Orders :
    status[o] = "cancelled" /\ reservation[o] = "held" =>
      \/ InFlight("order.cancelled", o)
      \/ InFlight("inventory.reserved", o)
      \/ InFlight("order.created", o)

\* No session can write over what another found out about the charge: the provider
\* answers before its client gives up, or the locking read refreshes the row.
ChargeAnswered(o) == PopulateExisting \/ provider[o].charge # "timeout"

\* Money captured for an order that is cancelled is not forgotten: a refund was
\* attempted, or asked for, or the outcome that triggers the request has still
\* to be told.  A charge that times out may be forgotten (README, finding 2).
LateChargeIsOwed ==
  \A o \in Orders :
    ChargeAnswered(o) /\ status[o] = "cancelled" /\ Captured(o) =>
      \/ refund[o] # "none"
      \/ InFlight("refund.requested", o)
      \/ InFlight("payment.succeeded", o)
      \/ payment[o] \in Unresolved \cup {"succeeded"} /\ o \notin reported

\* Money goes back only for an order that is cancelled and was captured first.
ReturnedOnlyWhenCancelled ==
  \A o \in Orders : Returned(o) => Captured(o) /\ status[o] = "cancelled"

\* payment.failed, on which the Order service gives the order up, is never told
\* about money that was captured.
FailureMeansNoCapture ==
  \A o \in Orders : InFlight("payment.failed", o) => ~Captured(o)

\* Every unit of a product that is set aside for an order or sold to it, one by one.
Holders == {o \in Orders : reservation[o] \in {"held", "committed"}}
TakenUnits(p) == UNION {{o} \X (1 .. Demand[o][p]) : o \in Holders}

\* Units on the shelf and units set aside or sold add up to what there was:
\* nothing is deducted or handed back twice, however often a delivery is
\* repeated and whichever order gets the last unit (FR-2).
StockConserved ==
  \A p \in Products : stock[p] + Cardinality(TakenUnits(p)) = InitialStock[p]

\* A refund whose outcome is unknown is looked up, not submitted again: a
\* timeout may hide a refund that went through.  (While a consumer is still
\* waiting for the provider the call counted here is that consumer's own.)
UnknownRefundIsLookedUp ==
  [][\A o \in Orders :
       refund[o] = "unknown" /\ o \notin refunding => refundCalls'[o] = refundCalls[o]]_vars

\* Whatever is placed, held, captured, told, given up and given back, in three
\* databases and across redelivery, happens in an order the abstract purchase
\* allows: goods are committed only for a paid order, a paid order had both,
\* and nothing moves back except for a cancelled order.
Money(o) == IF Returned(o) THEN "returned" ELSE IF Captured(o) THEN "captured" ELSE "kept"

Abstract == INSTANCE Purchase WITH
  goods <- reservation,
  money <- [o \in Orders |-> Money(o)]

ImplementsPurchase == Abstract!Spec

-----------------------------------------------------------------------------
(* Liveness. *)

\* FR-5: no order stays in the middle of the saga, even when a message it waits
\* for was dead-lettered.
EveryOrderTerminates ==
  \A o \in Orders : status[o] = "pending" ~> status[o] \in Terminal

\* FR-4: stock held for an order that is cancelled is put back, by itself.
CancelledStockReturns ==
  \A o \in Orders :
    status[o] = "cancelled" /\ reservation[o] = "held" ~> reservation[o] = "released"

\* FR-4, where somebody looks at the dead-letter queues: order.cancelled, or the
\* delivery that makes the Order service send it again, always gets there.
ReplayedStockReturns == OperatorFairness => CancelledStockReturns

\* Money captured for a cancelled order is given back, unless the provider
\* definitively refuses the refund.
LateChargeReturns ==
  \A o \in Orders :
    status[o] = "cancelled" /\ Captured(o) ~> Returned(o) \/ refund[o] = "failed"

\* The provider answers every call about the order before the client gives up.
AnsweredInTime(o) == "timeout" \notin {provider[o].charge, provider[o].refund}

\* The same where dead letters are replayed, for a provider that answers in time:
\* the outcome of a charge that lost the race against the order's cancellation
\* reaches the Order service, its request the Payment service, and the refund
\* the provider, whatever dies in between.
AnsweredChargeReturns ==
  OperatorFairness =>
    \A o \in Orders :
      AnsweredInTime(o) /\ status[o] = "cancelled" /\ Captured(o) ~>
        Returned(o) \/ refund[o] = "failed"
=============================================================================
