----------------------------- MODULE SagaProofs -----------------------------
(***************************************************************************)
(* Proofs about the saga for any set of orders and products, any stock,    *)
(* any provider scripts, any number of mishaps, and with or without        *)
(* refreshing locked reads.                                                *)
(***************************************************************************)
EXTENDS SagaInvariant, TLAPS

-----------------------------------------------------------------------------
(* Type correctness, one lemma per service. *)

LEMMA EventType ==
  ASSUME NEW o \in Orders
  PROVE  /\ \A type \in SagaEvents : Event(type, o) \in SagaMessage
         /\ \A type \in SagaEvents \cup ReadSideEvents : Event(type, o) \in Message
BY DEF Event, SagaMessage, Message

LEMMA RoutedType ==
  ASSUME NEW msgs, msgs \subseteq Message
  PROVE  Routed(msgs) \subseteq SagaMessage
BY DEF Routed, Message, SagaMessage

LEMMA ConsumeType ==
  ASSUME BusTypeOK, NEW m, NEW replies, replies \subseteq SagaMessage, NEW fate,
         Consume(m, replies, fate)
  PROVE  BusTypeOK'
BY MishapsAssumption DEF BusTypeOK, Consume, Mishap

LEMMA OrderStepType ==
  ASSUME BusTypeOK, OrderTypeOK, OrderStep
  PROVE  BusTypeOK' /\ OrderTypeOK'
<1> USE DEF OrderTypeOK, OrderStatus
<1>1. ASSUME NEW o \in Orders, NEW new \in OrderStatus, NEW msgs, msgs \subseteq Message,
             SetStatus(o, new, msgs)
      PROVE  OrderTypeOK'
  <2>1. Event("order.status_changed", o) \in Message
    BY EventType DEF ReadSideEvents
  <2> QED BY <1>1, <2>1 DEF SetStatus, Enqueue
<1>2. ASSUME NEW o \in Orders, CreateOrder(o)
      PROVE  BusTypeOK' /\ OrderTypeOK'
  <2>1. {Event("order.created", o)} \subseteq Message
    BY EventType DEF SagaEvents, InventoryEvents
  <2> QED BY <1>1, <1>2, <2>1 DEF CreateOrder, BusTypeOK, busVars
<1>3. ASSUME NEW o \in Orders, NEW fate,
             \/ OnInventoryReserved(o, fate) \/ OnInventoryFailed(o, fate)
             \/ OnPaymentSucceeded(o, fate)  \/ OnPaymentFailed(o, fate)
             \/ OnInventoryCommitted(o, fate)
      PROVE  BusTypeOK' /\ OrderTypeOK'
  <2>1. PICK type : Receive(type, o, fate)
    BY <1>3 DEF OnInventoryReserved, OnInventoryFailed, OnPaymentSucceeded,
                OnPaymentFailed, OnInventoryCommitted
  <2>2. BusTypeOK'
    BY <2>1, ConsumeType DEF Receive
  <2>3. /\ {Event("order.cancelled", o)} \subseteq Message
        /\ {Event("order.paid", o)} \subseteq Message
        /\ {Event("charge.requested", o)} \subseteq Message
        /\ {Event("refund.requested", o)} \subseteq Message
        /\ {Event("order.fulfilled", o)} \subseteq Message
    BY EventType DEF SagaEvents, InventoryEvents, PaymentEvents, ReadSideEvents
  <2>4. CASE OnInventoryReserved(o, fate)
    BY <1>1, <2>2, <2>3, <2>4 DEF OnInventoryReserved, Enqueue, orderVars
  <2>5. CASE OnInventoryFailed(o, fate)
    BY <1>1, <2>2, <2>3, <2>5 DEF OnInventoryFailed, orderVars
  <2>6. CASE OnPaymentSucceeded(o, fate)
    BY <1>1, <2>2, <2>3, <2>6 DEF OnPaymentSucceeded, Enqueue, orderVars
  <2>7. CASE OnPaymentFailed(o, fate)
    BY <1>1, <2>2, <2>3, <2>7 DEF OnPaymentFailed, orderVars
  <2>8. CASE OnInventoryCommitted(o, fate)
    BY <1>1, <2>2, <2>3, <2>8 DEF OnInventoryCommitted, orderVars
  <2> QED BY <1>3, <2>2, <2>4, <2>5, <2>6, <2>7, <2>8
<1>4. ASSUME NEW stuck \in SUBSET Orders, Reconcile(stuck)
      PROVE  BusTypeOK' /\ OrderTypeOK'
  <2>1. \A o \in Orders : /\ Event("order.status_changed", o) \in Message
                          /\ Event("order.cancelled", o) \in Message
                          /\ Event("order.paid", o) \in Message
    BY EventType DEF SagaEvents, InventoryEvents, ReadSideEvents
  <2> QED BY <1>4, <2>1 DEF Reconcile, GivenUp, Enqueue, BusTypeOK, busVars
<1>5. ASSUME RelayOnce
      PROVE  BusTypeOK' /\ OrderTypeOK'
  BY <1>5, RoutedType DEF RelayOnce, BusTypeOK
<1>6. ASSUME NEW sent \in SUBSET outbox, RelayInterrupted(sent)
      PROVE  BusTypeOK' /\ OrderTypeOK'
  <2>1. Routed(sent) \subseteq SagaMessage
    BY RoutedType
  <2> QED BY <1>6, <2>1, MishapsAssumption DEF RelayInterrupted, Mishap, BusTypeOK
<1> QED BY <1>2, <1>3, <1>4, <1>5, <1>6 DEF OrderStep

LEMMA InventoryStepType ==
  ASSUME BusTypeOK, InventoryTypeOK, InventoryStep
  PROVE  BusTypeOK' /\ InventoryTypeOK'
<1> USE DEF InventoryTypeOK, ReservationStatus
<1>1. ASSUME NEW o \in Orders, NEW fate, HandleOrderCreated(o, fate)
      PROVE  BusTypeOK' /\ InventoryTypeOK'
  <2>1. /\ {Event("inventory.reserved", o)} \subseteq SagaMessage
        /\ {Event("inventory.failed", o)} \subseteq SagaMessage
    BY EventType DEF SagaEvents, OrderEvents
  <2>2. BusTypeOK'
    BY <1>1, <2>1, ConsumeType DEF HandleOrderCreated
  <2>3. ASSUME InStock(o), stock' = [p \in Products |-> stock[p] - Demand[o][p]]
        PROVE  stock' \in [Products -> Nat]
    BY <2>3, StockAssumption DEF InStock
  <2> QED BY <1>1, <2>2, <2>3 DEF HandleOrderCreated, inventoryVars
<1>2. ASSUME NEW o \in Orders, NEW fate, HandleOrderCancelled(o, fate)
      PROVE  BusTypeOK' /\ InventoryTypeOK'
  <2>1. BusTypeOK'
    BY <1>2, ConsumeType DEF HandleOrderCancelled
  <2>2. ASSUME stock' = [p \in Products |-> stock[p] + Demand[o][p]]
        PROVE  stock' \in [Products -> Nat]
    BY <2>2, StockAssumption
  <2> QED BY <1>2, <2>1, <2>2 DEF HandleOrderCancelled, inventoryVars
<1>3. ASSUME NEW o \in Orders, NEW fate, HandleOrderPaid(o, fate)
      PROVE  BusTypeOK' /\ InventoryTypeOK'
  <2>1. {Event("inventory.committed", o)} \subseteq SagaMessage
    BY EventType DEF SagaEvents, OrderEvents
  <2>2. BusTypeOK'
    BY <1>3, <2>1, ConsumeType DEF HandleOrderPaid
  <2> QED BY <1>3, <2>2 DEF HandleOrderPaid
<1> QED BY <1>1, <1>2, <1>3 DEF InventoryStep

LEMMA StatusTypes ==
  ASSUME PaymentTypeOK, NEW o \in Orders, NEW held, NEW answer
  PROVE  /\ ChargedStatus(o, held, answer) \in PaymentStatus \cup {"none"}
         /\ RefundedStatus(o, held, answer) \in RefundStatus \cup {"none"}
BY DEF PaymentTypeOK, ChargedStatus, RefundedStatus, PaymentStatus, RefundStatus, Unresolved

LEMMA OutcomeType ==
  ASSUME NEW o \in Orders, NEW st
  PROVE  Outcome(o, st) \subseteq SagaMessage
<1>1. /\ {Event("payment.succeeded", o)} \subseteq SagaMessage
      /\ {Event("payment.failed", o)} \subseteq SagaMessage
  BY EventType DEF SagaEvents, OrderEvents
<1> QED BY <1>1 DEF Outcome

LEMMA WriteTypes ==
  ASSUME PaymentTypeOK, NEW o \in Orders, NEW held, NEW answer
  PROVE  /\ WritePayment(o, held, answer) =>
              /\ payment' \in [Orders -> PaymentStatus \cup {"none"}]
              /\ ledger' \subseteq Orders \X {"debit", "credit"}
         /\ WriteRefund(o, held, answer) =>
              /\ refund' \in [Orders -> RefundStatus \cup {"none"}]
              /\ payment' \in [Orders -> PaymentStatus \cup {"none"}]
              /\ ledger' \subseteq Orders \X {"debit", "credit"}
<1>1. /\ payment \in [Orders -> PaymentStatus \cup {"none"}]
      /\ refund \in [Orders -> RefundStatus \cup {"none"}]
      /\ ledger \subseteq Orders \X {"debit", "credit"}
      /\ Debit(o) \in Orders \X {"debit", "credit"}
      /\ Credit(o) \in Orders \X {"debit", "credit"}
      /\ "refunded" \in PaymentStatus
  BY DEF PaymentTypeOK, Debit, Credit, PaymentStatus
<1> QED BY <1>1, StatusTypes DEF WritePayment, WriteRefund

LEMMA CallRefundType ==
  ASSUME PaymentTypeOK, NEW o \in Orders, CallRefund(o)
  PROVE  refundCalls' \in [Orders -> 0 .. 2]
BY DEF PaymentTypeOK, CallRefund

LEMMA PaymentStepType ==
  ASSUME BusTypeOK, PaymentTypeOK, PaymentStep
  PROVE  BusTypeOK' /\ PaymentTypeOK'
<1>1. PICK o \in Orders :
        \/ ChargeBegin(o)
        \/ ChargeCrash(o)
        \/ \E fate \in Fates : ChargeFinish(o, fate) \/ ChargeReplay(o, fate)
        \/ ListPayment(o)
        \/ ResolvePayment(o)
        \/ \E fate \in {"acked", "unmarked"} : ReportPayment(o, fate)
        \/ RefundBegin(o)
        \/ \E fate \in {"acked", "unacked"} : RefundSkip(o, fate)
        \/ \E fate \in Fates : RefundFinish(o, fate)
        \/ RefundClash(o)
        \/ \E called \in BOOLEAN : RefundCrash(o, called)
        \/ ListRefund(o)
        \/ ResolveRefund(o)
        \/ ReportRefund(o)
  BY DEF PaymentStep
<1> USE DEF chargeVars, refundVars, busVars
<1>2. CASE ChargeBegin(o)
  BY <1>2 DEF ChargeBegin, BusTypeOK, PaymentTypeOK, PaymentStatus, Unresolved
<1>3. CASE ChargeCrash(o)
  BY <1>3, MishapsAssumption DEF ChargeCrash, Mishap, BusTypeOK, PaymentTypeOK
<1>4. ASSUME NEW fate, ChargeFinish(o, fate)
      PROVE  BusTypeOK' /\ PaymentTypeOK'
  <2>1. BusTypeOK'
    BY <1>4, ConsumeType, OutcomeType DEF ChargeFinish
  <2>2. WritePayment(o, "pending", ChargeAnswer(o))
    BY <1>4 DEF ChargeFinish
  <2>3. reported' \subseteq Orders
    BY <1>4 DEF ChargeFinish, MarkReported, PaymentTypeOK
  <2> QED BY <1>4, <2>1, <2>2, <2>3, WriteTypes DEF ChargeFinish, PaymentTypeOK
<1>5. ASSUME NEW fate, ChargeReplay(o, fate)
      PROVE  BusTypeOK' /\ PaymentTypeOK'
  <2>1. BusTypeOK'
    BY <1>5, ConsumeType, OutcomeType DEF ChargeReplay
  <2>2. reported' \subseteq Orders
    BY <1>5 DEF ChargeReplay, MarkReported, PaymentTypeOK
  <2> QED BY <1>5, <2>1, <2>2 DEF ChargeReplay, PaymentTypeOK
<1>6. CASE ListPayment(o)
  BY <1>6 DEF ListPayment, BusTypeOK, PaymentTypeOK
<1>7. CASE ResolvePayment(o)
  <2>1. listed' \in [Orders -> Unresolved \cup {"none"}]
    BY <1>7 DEF ResolvePayment, PaymentTypeOK
  <2> QED BY <1>7, <2>1, WriteTypes DEF ResolvePayment, BusTypeOK, PaymentTypeOK
<1>8. ASSUME NEW fate, ReportPayment(o, fate)
      PROVE  BusTypeOK' /\ PaymentTypeOK'
  <2>1. reported' \subseteq Orders
    BY <1>8 DEF ReportPayment, MarkReported, PaymentTypeOK
  <2> QED BY <1>8, <2>1, OutcomeType, MishapsAssumption
          DEF ReportPayment, Mishap, BusTypeOK, PaymentTypeOK
<1>9. CASE RefundBegin(o)
  BY <1>9 DEF RefundBegin, BusTypeOK, PaymentTypeOK, RefundStatus, Unresolved
<1>10. ASSUME NEW fate, RefundSkip(o, fate)
       PROVE  BusTypeOK' /\ PaymentTypeOK'
  BY <1>10, ConsumeType DEF RefundSkip, paymentVars, PaymentTypeOK
<1>11. ASSUME NEW fate, RefundFinish(o, fate)
       PROVE  BusTypeOK' /\ PaymentTypeOK'
  <2>1. BusTypeOK'
    BY <1>11, ConsumeType DEF RefundFinish
  <2>2. /\ refundCalls' \in [Orders -> 0 .. 2]
        /\ WriteRefund(o, "pending", provider[o].refund)
    BY <1>11, CallRefundType DEF RefundFinish
  <2>3. refundReported' \subseteq Orders /\ refunding' \subseteq Orders
    BY <1>11 DEF RefundFinish, PaymentTypeOK
  <2> QED BY <1>11, <2>1, <2>2, <2>3, WriteTypes DEF RefundFinish, PaymentTypeOK
<1>12. CASE RefundClash(o)
  BY <1>12, CallRefundType DEF RefundClash, BusTypeOK, PaymentTypeOK
<1>13. ASSUME NEW called, RefundCrash(o, called)
       PROVE  BusTypeOK' /\ PaymentTypeOK'
  BY <1>13, CallRefundType, MishapsAssumption
     DEF RefundCrash, Mishap, BusTypeOK, PaymentTypeOK
<1>14. CASE ListRefund(o)
  BY <1>14 DEF ListRefund, BusTypeOK, PaymentTypeOK
<1>15. CASE ResolveRefund(o)
  <2>1. refundCalls' \in [Orders -> 0 .. 2]
    BY <1>15, CallRefundType DEF ResolveRefund, PaymentTypeOK
  <2>2. refundListed' \in [Orders -> Unresolved \cup {"none"}]
    BY <1>15 DEF ResolveRefund, PaymentTypeOK
  <2>3. \E answer : WriteRefund(o, refundListed[o], answer)
    BY <1>15 DEF ResolveRefund
  <2> QED BY <1>15, <2>1, <2>2, <2>3, WriteTypes DEF ResolveRefund, BusTypeOK, PaymentTypeOK
<1>16. CASE ReportRefund(o)
  BY <1>16 DEF ReportRefund, BusTypeOK, PaymentTypeOK
<1> QED BY <1>1, <1>2, <1>3, <1>4, <1>5, <1>6, <1>7, <1>8, <1>9, <1>10, <1>11,
           <1>12, <1>13, <1>14, <1>15, <1>16

LEMMA BusStepType ==
  ASSUME BusTypeOK, BusStep
  PROVE  BusTypeOK'
BY MishapsAssumption DEF BusTypeOK, BusStep, DeadLetter, Replay, Mishap

LEMMA InitType == Init => TypeOK
<1> SUFFICES ASSUME Init PROVE TypeOK
  OBVIOUS
<1>1. BusTypeOK /\ OrderTypeOK /\ InventoryTypeOK
  BY MishapsAssumption, StockAssumption
     DEF Init, BusInit, OrderInit, InventoryInit, BusTypeOK, OrderTypeOK, InventoryTypeOK
<1>2. PaymentTypeOK
  BY PaymentAssumption DEF Init, PaymentInit, PaymentTypeOK
<1> QED BY <1>1, <1>2 DEF TypeOK

LEMMA NextType == TypeOK /\ [Next]_vars => TypeOK'
<1> SUFFICES ASSUME TypeOK, [Next]_vars PROVE TypeOK'
  OBVIOUS
<1> USE DEF TypeOK
<1>1. UNCHANGED busVars => BusTypeOK'
  BY DEF busVars, BusTypeOK
<1>2. UNCHANGED orderVars => OrderTypeOK'
  BY DEF orderVars, OrderTypeOK
<1>3. UNCHANGED inventoryVars => InventoryTypeOK'
  BY DEF inventoryVars, InventoryTypeOK
<1>4. UNCHANGED paymentVars => PaymentTypeOK'
  BY DEF paymentVars, PaymentTypeOK
<1>5. CASE ByOrder(OrderStep)
  BY <1>3, <1>4, <1>5, OrderStepType DEF ByOrder
<1>6. CASE ByInventory(InventoryStep)
  BY <1>2, <1>4, <1>6, InventoryStepType DEF ByInventory
<1>7. CASE ByPayment(PaymentStep)
  BY <1>2, <1>3, <1>7, PaymentStepType DEF ByPayment
<1>8. CASE ByBus(BusStep)
  BY <1>2, <1>3, <1>4, <1>8, BusStepType DEF ByBus
<1>9. CASE UNCHANGED vars
  BY <1>1, <1>2, <1>3, <1>4, <1>9 DEF vars
<1> QED BY <1>5, <1>6, <1>7, <1>8, <1>9 DEF Next

\* Every variable of the four parts keeps its type; for stock that says that no
\* interleaving of reservations ever drives a quantity below zero (the CHECK
\* constraint on products.stock_qty never fires).
THEOREM SagaTypeOK == Spec => []TypeOK
BY InitType, NextType, PTL DEF Spec

-----------------------------------------------------------------------------
(* The inductive invariant.  A step about one order changes the messages   *)
(* in flight only as Tells says, and leaves the rows of the other orders   *)
(* alone: so OrderInv is preserved for those by Frame, and the rest of     *)
(* each proof is about the order the step is about.                        *)

\* Only messages about o of a type in new appear, and only the message about o
\* of type gone may disappear.
Told(o, types) == {Event(type, o) : type \in types}
Tells(o, gone, new) ==
  \A type \in SagaEvents, q \in Orders :
    /\ InFlight(type, q)' => InFlight(type, q) \/ (q = o /\ type \in new)
    /\ InFlight(type, q) => InFlight(type, q)' \/ (q = o /\ type = gone)
OnlyAbout(o) ==
  \A type \in SagaEvents, q \in Orders \ {o} : InFlight(type, q)' <=> InFlight(type, q)

SameOrder(q) == status'[q] = status[q]
SameStock(q) == reservation'[q] = reservation[q]
SameCharge(q) ==
  /\ provider'[q] = provider[q]
  /\ payment'[q] = payment[q]
  /\ q \in charging' <=> q \in charging
  /\ listed'[q] = listed[q]
  /\ Captured(q)' <=> Captured(q)
SameRefund(q) ==
  /\ refund'[q] = refund[q]
  /\ Returned(q)' <=> Returned(q)
  /\ q \in refunding' <=> q \in refunding
  /\ refundListed'[q] = refundListed[q]

LEMMA EventInjective ==
  ASSUME NEW t1, NEW t2, NEW a, NEW b, Event(t1, a) = Event(t2, b)
  PROVE  t1 = t2 /\ a = b
BY DEF Event

LEMMA SagaTypes ==
  /\ "order.created" \in SagaEvents
  /\ "order.cancelled" \in SagaEvents
  /\ "order.paid" \in SagaEvents
  /\ "inventory.reserved" \in SagaEvents
  /\ "inventory.failed" \in SagaEvents
  /\ "inventory.committed" \in SagaEvents
  /\ "payment.succeeded" \in SagaEvents
  /\ "payment.failed" \in SagaEvents
  /\ "charge.requested" \in SagaEvents
  /\ "refund.requested" \in SagaEvents
  /\ "order.status_changed" \notin SagaEvents
  /\ "order.fulfilled" \notin SagaEvents
BY DEF SagaEvents, OrderEvents, InventoryEvents, PaymentEvents

LEMMA ToldTypes ==
  ASSUME NEW o
  PROVE  /\ Told(o, {}) = {}
         /\ \A s : Told(o, {s}) = {Event(s, o)}
         /\ \A s, t : Told(o, {s, t}) = {Event(s, o), Event(t, o)}
         /\ \A S, T : Told(o, S \cup T) = Told(o, S) \cup Told(o, T)
BY DEF Told

\* A delivery: its replies and what the handler enqueued appear, and only the
\* message itself may leave, when it is acknowledged.
LEMMA ConsumeTells ==
  ASSUME NEW o \in Orders, NEW type, NEW fate, NEW replies, NEW enqueued,
         Consume(Event(type, o), Told(o, replies), fate),
         outbox' = outbox \cup Told(o, enqueued)
  PROVE  /\ Tells(o, type, replies \cup enqueued)
         /\ OnlyAbout(o)
         /\ \A t \in enqueued : InFlight(t, o)'
         /\ fate = "acked" => \A t \in replies : InFlight(t, o)'
         /\ Event(type, o) \in queued =>
              InFlight(type, o) /\ (fate # "acked" => InFlight(type, o)')
<1>1. /\ Pool' \subseteq Pool \cup Told(o, replies) \cup Told(o, enqueued)
      /\ Pool \ {Event(type, o)} \subseteq Pool'
      /\ Told(o, enqueued) \subseteq Pool'
      /\ fate = "acked" => Told(o, replies) \subseteq Pool'
      /\ Event(type, o) \in queued =>
           Event(type, o) \in Pool /\ (fate # "acked" => Event(type, o) \in Pool')
  BY DEF Consume, Pool
<1>2. ASSUME NEW t \in SagaEvents, NEW q \in Orders, InFlight(t, q)'
      PROVE  InFlight(t, q) \/ (q = o /\ t \in replies \cup enqueued)
  BY <1>1, <1>2, EventInjective DEF InFlight, Told
<1>3. ASSUME NEW t \in SagaEvents, NEW q \in Orders, InFlight(t, q)
      PROVE  InFlight(t, q)' \/ (q = o /\ t = type)
  BY <1>1, <1>3, EventInjective DEF InFlight
<1>4. Tells(o, type, replies \cup enqueued)
  BY <1>2, <1>3 DEF Tells
<1>5. OnlyAbout(o)
  BY <1>2, <1>3 DEF OnlyAbout
<1> QED BY <1>1, <1>4, <1>5 DEF InFlight, Told

\* A step that only adds messages about o.
LEMMA AddTells ==
  ASSUME NEW o \in Orders, NEW new, Pool' = Pool \cup Told(o, new)
  PROVE  Tells(o, "", new) /\ OnlyAbout(o) /\ \A t \in new : InFlight(t, o)'
<1>1. ASSUME NEW t \in SagaEvents, NEW q \in Orders, InFlight(t, q)'
      PROVE  InFlight(t, q) \/ (q = o /\ t \in new)
  BY <1>1, EventInjective DEF InFlight, Told
<1>2. ASSUME NEW t \in SagaEvents, NEW q \in Orders, InFlight(t, q)
      PROVE  InFlight(t, q)'
  BY <1>2 DEF InFlight
<1>3. Tells(o, "", new) /\ OnlyAbout(o)
  BY <1>1, <1>2 DEF Tells, OnlyAbout
<1> QED BY <1>3 DEF InFlight, Told

\* The order a step is not about keeps its invariant.
LEMMA Frame ==
  ASSUME NEW o, OnlyAbout(o), NEW q \in Orders \ {o}, OrderInv(q),
         SameOrder(q), SameStock(q), SameCharge(q), SameRefund(q)
  PROVE  OrderInv(q)'
<1>1. \A type \in SagaEvents : InFlight(type, q)' <=> InFlight(type, q)
  BY DEF OnlyAbout
<1> QED
  BY <1>1, SagaTypes
     DEF OrderInv, Evidence, StockFollowsOrder, StockIsOwed, MoneyFollowsProvider,
         RefundFollowsCancel, SameOrder, SameStock, SameCharge, SameRefund, LookupAnswer

-----------------------------------------------------------------------------
(* Steps of the Order service. *)

\* A handler answers nothing; what it enqueues appears.
LEMMA ReceiveTells ==
  ASSUME NEW o \in Orders, NEW type, NEW fate, NEW enqueued,
         Receive(type, o, fate),
         outbox' = outbox \cup Told(o, enqueued)
  PROVE  /\ Tells(o, type, enqueued)
         /\ OnlyAbout(o)
         /\ InFlight(type, o)
         /\ \A t \in enqueued : InFlight(t, o)'
<1>1. Consume(Event(type, o), Told(o, {}), fate) /\ Event(type, o) \in queued
  BY ToldTypes DEF Receive
<1>2. {} \cup enqueued = enqueued
  OBVIOUS
<1> QED BY <1>1, <1>2, ConsumeTells

\* What SetStatus does to the two variables.
LEMMA SetStatusEffect ==
  ASSUME TypeOK, NEW o \in Orders, NEW new, NEW type, SetStatus(o, new, {Event(type, o)})
  PROVE  /\ status'[o] = new
         /\ \A q \in Orders \ {o} : SameOrder(q)
         /\ outbox' = outbox \cup Told(o, {"order.status_changed", type})
BY ToldTypes DEF SetStatus, Enqueue, SameOrder, TypeOK, OrderTypeOK

\* The order a step is about, when only the Order service moved it.
OrderRow(o) == SameStock(o) /\ SameCharge(o) /\ SameRefund(o)

Preserved(o) ==
  /\ OrderInv(o)'
  /\ OnlyAbout(o)
  /\ \A q \in Orders \ {o} : SameOrder(q)

\* A late or repeated message is dropped.  The only drop that could lose stock,
\* that of inventory.reserved, needs a status at which no stock is owed.
LEMMA Dropped ==
  ASSUME NEW o \in Orders, NEW type, NEW fate, OrderInv(o), OrderRow(o),
         Receive(type, o, fate), UNCHANGED orderVars,
         \/ type \notin {"order.created", "order.cancelled", "inventory.reserved"}
         \/ status[o] \notin {"pending", "cancelled"}
  PROVE  Preserved(o)
<1> USE DEF OrderRow, SameStock, SameCharge, SameRefund
<1>1. outbox' = outbox \cup Told(o, {}) /\ status' = status
  BY ToldTypes DEF orderVars
<1>2. Tells(o, type, {}) /\ OnlyAbout(o)
  BY <1>1, ReceiveTells
<1>3. Evidence(o)'
  BY <1>1, <1>2, SagaTypes DEF Tells, OrderInv, Evidence, LookupAnswer
<1>4. StockFollowsOrder(o)' /\ StockIsOwed(o)'
  BY <1>1, <1>2, SagaTypes DEF Tells, OrderInv, StockFollowsOrder, StockIsOwed
<1>5. MoneyFollowsProvider(o)' /\ RefundFollowsCancel(o)'
  BY <1>1 DEF OrderInv, MoneyFollowsProvider, RefundFollowsCancel, LookupAnswer
<1> QED BY <1>1, <1>2, <1>3, <1>4, <1>5 DEF OrderInv, SameOrder, Preserved

\* A cancelled order stays cancelled and sends the compensation again.
LEMMA Compensates ==
  ASSUME NEW o \in Orders, NEW type, NEW fate, NEW sent, OrderInv(o), OrderRow(o),
         Receive(type, o, fate), status[o] = "cancelled",
         Enqueue({Event(sent, o)}), UNCHANGED status,
         \/ type = "inventory.reserved" /\ sent = "order.cancelled"
         \/ type = "payment.succeeded" /\ sent = "refund.requested"
  PROVE  Preserved(o)
<1> USE DEF OrderRow, SameStock, SameCharge, SameRefund
<1>1. outbox' = outbox \cup Told(o, {sent})
  BY ToldTypes DEF Enqueue
<1>2. /\ Tells(o, type, {sent}) /\ OnlyAbout(o)
      /\ InFlight(type, o)
      /\ InFlight(sent, o)'
  BY <1>1, ReceiveTells
<1>3. Evidence(o)'
  BY <1>2, SagaTypes DEF Tells, OrderInv, Evidence, LookupAnswer
<1>4. StockFollowsOrder(o)' /\ StockIsOwed(o)'
  BY <1>2, SagaTypes DEF Tells, OrderInv, StockFollowsOrder, StockIsOwed
<1>5. MoneyFollowsProvider(o)' /\ RefundFollowsCancel(o)'
  BY DEF OrderInv, MoneyFollowsProvider, RefundFollowsCancel, LookupAnswer
<1> QED BY <1>2, <1>3, <1>4, <1>5 DEF OrderInv, SameOrder, Preserved

\* The order moves forward: each message is the evidence the next status needs.
LEMMA Advances ==
  ASSUME NEW o \in Orders, NEW type, NEW fate, NEW new, NEW sent,
         TypeOK, OrderInv(o), OrderRow(o),
         Receive(type, o, fate), SetStatus(o, new, {Event(sent, o)}),
         \/ /\ type = "inventory.reserved" /\ status[o] = "pending"
            /\ new = "reserved" /\ sent = "charge.requested"
         \/ /\ type = "payment.succeeded" /\ status[o] = "reserved"
            /\ new = "paid" /\ sent = "order.paid"
         \/ /\ type = "inventory.committed" /\ status[o] = "paid"
            /\ new = "fulfilled" /\ sent = "order.fulfilled"
  PROVE  Preserved(o)
<1> USE DEF OrderRow, SameStock, SameCharge, SameRefund
<1>1. /\ status'[o] = new
      /\ \A q \in Orders \ {o} : SameOrder(q)
      /\ outbox' = outbox \cup Told(o, {"order.status_changed", sent})
  BY SetStatusEffect
<1>2. /\ Tells(o, type, {"order.status_changed", sent})
      /\ OnlyAbout(o)
      /\ InFlight(type, o)
  BY <1>1, ReceiveTells
<1>3. Evidence(o)'
  BY <1>1, <1>2, SagaTypes DEF Tells, OrderInv, Evidence, LookupAnswer
<1>4. StockFollowsOrder(o)' /\ StockIsOwed(o)'
  BY <1>1, <1>2 DEF OrderInv, Evidence, StockFollowsOrder, StockIsOwed
<1>5. MoneyFollowsProvider(o)' /\ RefundFollowsCancel(o)'
  BY <1>1, <1>2 DEF OrderInv, Evidence, MoneyFollowsProvider, RefundFollowsCancel, LookupAnswer
<1> QED BY <1>1, <1>2, <1>3, <1>4, <1>5 DEF OrderInv, Preserved

\* A failed charge gives up a reserved order and owes its stock back.
LEMMA DeclinesPayment ==
  ASSUME NEW o \in Orders, NEW fate, TypeOK, OrderInv(o), OrderRow(o),
         status[o] = "reserved", Receive("payment.failed", o, fate),
         SetStatus(o, "cancelled", {Event("order.cancelled", o)})
  PROVE  Preserved(o)
<1> USE DEF OrderRow, SameStock, SameCharge, SameRefund
<1>1. /\ status'[o] = "cancelled"
      /\ \A q \in Orders \ {o} : SameOrder(q)
      /\ outbox' = outbox \cup Told(o, {"order.status_changed", "order.cancelled"})
  BY SetStatusEffect
<1>2. /\ Tells(o, "payment.failed", {"order.status_changed", "order.cancelled"})
      /\ OnlyAbout(o)
      /\ InFlight("order.cancelled", o)'
  BY <1>1, ReceiveTells
<1>3. Evidence(o)'
  BY <1>1, <1>2, SagaTypes DEF Tells, OrderInv, Evidence, LookupAnswer
<1>4. StockFollowsOrder(o)' /\ StockIsOwed(o)'
  BY <1>1, <1>2 DEF OrderInv, StockFollowsOrder, StockIsOwed
<1>5. MoneyFollowsProvider(o)' /\ RefundFollowsCancel(o)'
  BY <1>1 DEF OrderInv, MoneyFollowsProvider, RefundFollowsCancel, LookupAnswer
<1> QED BY <1>1, <1>2, <1>3, <1>4, <1>5 DEF OrderInv, Preserved

\* A failed reservation gives up a pending order without telling Inventory: if
\* a repeated order.created did reserve meanwhile, its reply is still owed.
LEMMA DeclinesStock ==
  ASSUME NEW o \in Orders, NEW fate, TypeOK, OrderInv(o), OrderRow(o),
         status[o] = "pending", Receive("inventory.failed", o, fate),
         SetStatus(o, "cancelled", {})
  PROVE  Preserved(o)
<1> USE DEF OrderRow, SameStock, SameCharge, SameRefund
<1>1. /\ status'[o] = "cancelled"
      /\ \A q \in Orders \ {o} : SameOrder(q)
      /\ outbox' = outbox \cup Told(o, {"order.status_changed"})
  BY ToldTypes DEF SetStatus, Enqueue, SameOrder, TypeOK, OrderTypeOK
<1>2. Tells(o, "inventory.failed", {"order.status_changed"}) /\ OnlyAbout(o)
  BY <1>1, ReceiveTells
<1>3. Evidence(o)'
  BY <1>1, <1>2, SagaTypes DEF Tells, OrderInv, Evidence, LookupAnswer
<1>4. StockFollowsOrder(o)' /\ StockIsOwed(o)'
  BY <1>1, <1>2, SagaTypes DEF Tells, OrderInv, StockFollowsOrder, StockIsOwed
<1>5. MoneyFollowsProvider(o)' /\ RefundFollowsCancel(o)'
  BY <1>1 DEF OrderInv, MoneyFollowsProvider, RefundFollowsCancel, LookupAnswer
<1> QED BY <1>1, <1>2, <1>3, <1>4, <1>5 DEF OrderInv, Preserved

LEMMA HandlersPreserve ==
  ASSUME NEW o \in Orders, NEW fate, TypeOK, OrderInv(o), OrderRow(o),
         \/ OnInventoryReserved(o, fate) \/ OnInventoryFailed(o, fate)
         \/ OnPaymentSucceeded(o, fate)  \/ OnPaymentFailed(o, fate)
         \/ OnInventoryCommitted(o, fate)
  PROVE  Preserved(o)
<1>1. CASE OnInventoryReserved(o, fate)
  BY <1>1, Compensates, Advances, Dropped DEF OnInventoryReserved
<1>2. CASE OnInventoryFailed(o, fate)
  BY <1>2, DeclinesStock, Dropped DEF OnInventoryFailed
<1>3. CASE OnPaymentSucceeded(o, fate)
  BY <1>3, Compensates, Advances, Dropped DEF OnPaymentSucceeded
<1>4. CASE OnPaymentFailed(o, fate)
  BY <1>4, DeclinesPayment, Dropped DEF OnPaymentFailed
<1>5. CASE OnInventoryCommitted(o, fate)
  BY <1>5, Advances, Dropped DEF OnInventoryCommitted
<1> QED BY <1>1, <1>2, <1>3, <1>4, <1>5

LEMMA CreatePreserves ==
  ASSUME NEW o \in Orders, TypeOK, OrderInv(o), OrderRow(o), CreateOrder(o)
  PROVE  Preserved(o)
<1> USE DEF OrderRow, SameStock, SameCharge, SameRefund
<1>1. /\ status[o] = "none" /\ status'[o] = "pending"
      /\ \A q \in Orders \ {o} : SameOrder(q)
      /\ outbox' = outbox \cup Told(o, {"order.status_changed", "order.created"})
  BY SetStatusEffect DEF CreateOrder
<1>2. Pool' = Pool \cup Told(o, {"order.status_changed", "order.created"})
  BY <1>1 DEF CreateOrder, busVars, Pool
<1>3. Tells(o, "", {"order.status_changed", "order.created"}) /\ OnlyAbout(o)
  BY <1>2, AddTells
<1>4. Evidence(o)'
  BY <1>1, <1>3, SagaTypes DEF Tells, OrderInv, Evidence, LookupAnswer
<1>5. StockFollowsOrder(o)' /\ StockIsOwed(o)'
  BY <1>1 DEF OrderInv, StockFollowsOrder, StockIsOwed
<1>6. MoneyFollowsProvider(o)' /\ RefundFollowsCancel(o)'
  BY <1>1 DEF OrderInv, MoneyFollowsProvider, RefundFollowsCancel, LookupAnswer
<1> QED BY <1>1, <1>3, <1>4, <1>5, <1>6 DEF OrderInv, Preserved

\* The reconciler gives orders up, several at a time, but never a paid one.
LEMMA ReconcilePreserves ==
  ASSUME NEW stuck \in SUBSET Orders, TypeOK, Reconcile(stuck),
         NEW q \in Orders, OrderInv(q), OrderRow(q)
  PROVE  OrderInv(q)'
<1> USE DEF OrderRow, SameStock, SameCharge, SameRefund
<1> DEFINE given_up == GivenUp(stuck)
           sent == {Event("order.status_changed", o) : o \in given_up}
                   \cup {Event("order.cancelled", o) : o \in given_up}
                   \cup {Event("order.paid", o) : o \in stuck \ given_up}
<1>1. /\ status'[q] = IF q \in given_up THEN "cancelled" ELSE status[q]
      /\ Pool' = Pool \cup sent
  <2>1. /\ status' = [o \in Orders |-> IF o \in given_up THEN "cancelled" ELSE status[o]]
        /\ outbox' = outbox \cup sent
        /\ queued' = queued /\ dead' = dead
    BY Zenon DEF Reconcile, Enqueue, busVars
  <2> HIDE DEF given_up, sent
  <2> QED BY <2>1 DEF Pool
<1>2. /\ q \in given_up => status[q] \in {"pending", "reserved"}
      /\ q \in stuck \ given_up => status[q] = "paid"
  BY DEF Reconcile, GivenUp, OrderStatus, Terminal
<1> HIDE DEF given_up
<1>3. \A t \in SagaEvents :
        InFlight(t, q)' <=> \/ InFlight(t, q)
                            \/ q \in given_up /\ t = "order.cancelled"
                            \/ q \in stuck \ given_up /\ t = "order.paid"
  <2>1. ASSUME NEW t \in SagaEvents
        PROVE  Event(t, q) \in sent <=> \/ q \in given_up /\ t = "order.cancelled"
                                        \/ q \in stuck \ given_up /\ t = "order.paid"
    <3>1. ASSUME Event(t, q) \in sent
          PROVE  \/ q \in given_up /\ t = "order.cancelled"
                 \/ q \in stuck \ given_up /\ t = "order.paid"
      BY <3>1, SagaTypes DEF Event
    <3>2. /\ q \in given_up => Event("order.cancelled", q) \in sent
          /\ q \in stuck \ given_up => Event("order.paid", q) \in sent
      OBVIOUS
    <3> QED BY <3>1, <3>2
  <2> HIDE DEF sent
  <2> QED BY <1>1, <2>1 DEF InFlight
<1>4. Evidence(q)'
  BY <1>1, <1>2, <1>3, SagaTypes DEF OrderInv, Evidence, LookupAnswer
<1>5. StockFollowsOrder(q)' /\ StockIsOwed(q)'
  BY <1>1, <1>2, <1>3, SagaTypes DEF OrderInv, StockFollowsOrder, StockIsOwed
<1>6. MoneyFollowsProvider(q)' /\ RefundFollowsCancel(q)'
  BY <1>1, <1>2 DEF OrderInv, MoneyFollowsProvider, RefundFollowsCancel, LookupAnswer
<1> QED BY <1>4, <1>5, <1>6 DEF OrderInv

\* A step that changes no row and no saga message in flight.
LEMMA Unmoved ==
  ASSUME NEW q \in Orders, OrderInv(q), SameOrder(q), OrderRow(q),
         \A t \in SagaEvents : InFlight(t, q)' <=> InFlight(t, q)
  PROVE  OrderInv(q)'
BY SagaTypes
   DEF OrderInv, Evidence, StockFollowsOrder, StockIsOwed, MoneyFollowsProvider,
       RefundFollowsCancel, SameOrder, OrderRow, SameStock, SameCharge, SameRefund,
       LookupAnswer

\* The relay moves messages from the outbox to the queues; what it drops is
\* bound to no saga queue.
LEMMA RelayPreserves ==
  ASSUME NEW q \in Orders, OrderInv(q), OrderRow(q),
         RelayOnce \/ \E sent \in SUBSET outbox : RelayInterrupted(sent)
  PROVE  OrderInv(q)'
<1>1. SameOrder(q)
  BY DEF RelayOnce, RelayInterrupted, SameOrder
<1>2. CASE RelayOnce
  <2>1. \A t \in SagaEvents : InFlight(t, q)' <=> InFlight(t, q)
    BY <1>2 DEF RelayOnce, InFlight, Pool, Routed, Event
  <2> QED BY <1>1, <2>1, Unmoved
<1>3. ASSUME NEW sent \in SUBSET outbox, RelayInterrupted(sent)
      PROVE  OrderInv(q)'
  <2>1. \A t \in SagaEvents : InFlight(t, q)' <=> InFlight(t, q)
    BY <1>3 DEF RelayInterrupted, InFlight, Pool, Routed
  <2> QED BY <1>1, <2>1, Unmoved
<1> QED BY <1>2, <1>3

LEMMA OrderStepPreserves ==
  ASSUME IInv, ByOrder(OrderStep), NEW q \in Orders
  PROVE  OrderInv(q)'
<1>1. TypeOK /\ \A o \in Orders : OrderInv(o)
  BY DEF IInv
<1>2. \A o \in Orders : OrderRow(o)
  BY DEF ByOrder, inventoryVars, paymentVars, OrderRow, SameStock, SameCharge, SameRefund,
         Captured, Returned
<1>3. ASSUME NEW o \in Orders, Preserved(o)
      PROVE  OrderInv(q)'
  <2>1. CASE q = o
    BY <1>3, <2>1 DEF Preserved
  <2>2. CASE q # o
    BY <1>1, <1>2, <1>3, <2>2, Frame DEF Preserved, OrderRow
  <2> QED BY <2>1, <2>2
<1>4. ASSUME NEW o \in Orders, CreateOrder(o)
      PROVE  OrderInv(q)'
  BY <1>1, <1>2, <1>3, <1>4, CreatePreserves
<1>5. ASSUME NEW o \in Orders, NEW fate,
             \/ OnInventoryReserved(o, fate) \/ OnInventoryFailed(o, fate)
             \/ OnPaymentSucceeded(o, fate)  \/ OnPaymentFailed(o, fate)
             \/ OnInventoryCommitted(o, fate)
      PROVE  OrderInv(q)'
  BY <1>1, <1>2, <1>3, <1>5, HandlersPreserve
<1>6. ASSUME NEW stuck \in SUBSET Orders, Reconcile(stuck)
      PROVE  OrderInv(q)'
  BY <1>1, <1>2, <1>6, ReconcilePreserves
<1>7. CASE RelayOnce \/ \E sent \in SUBSET outbox : RelayInterrupted(sent)
  BY <1>1, <1>2, <1>7, RelayPreserves
<1> QED BY <1>4, <1>5, <1>6, <1>7 DEF ByOrder, OrderStep

-----------------------------------------------------------------------------
(* Steps of the Inventory service. *)

StockRow(o) == SameOrder(o) /\ SameCharge(o) /\ SameRefund(o)

PreservedStock(o) ==
  /\ OrderInv(o)'
  /\ OnlyAbout(o)
  /\ \A q \in Orders \ {o} : SameStock(q)

LEMMA CreatedPreserves ==
  ASSUME NEW o \in Orders, NEW fate, TypeOK, OrderInv(o), StockRow(o), UNCHANGED outbox,
         HandleOrderCreated(o, fate)
  PROVE  PreservedStock(o)
<1> USE DEF StockRow, SameOrder, SameCharge, SameRefund
<1>1. outbox' = outbox \cup Told(o, {}) /\ Event("order.created", o) \in queued
  BY ToldTypes DEF HandleOrderCreated
<1>2. ASSUME NEW type, Consume(Event("order.created", o), {Event(type, o)}, fate)
      PROVE  /\ Tells(o, "order.created", {type}) /\ OnlyAbout(o)
             /\ InFlight("order.created", o)
             /\ InFlight("order.created", o)' \/ InFlight(type, o)'
  <2>1. Consume(Event("order.created", o), Told(o, {type}), fate)
    BY <1>2, ToldTypes
  <2>2. /\ Tells(o, "order.created", {type} \cup {}) /\ OnlyAbout(o)
        /\ InFlight("order.created", o)
        /\ IF fate = "acked" THEN \A t \in {type} : InFlight(t, o)'
                             ELSE InFlight("order.created", o)'
    BY <1>1, <2>1, ConsumeTells
  <2>3. {type} \cup {} = {type}
    OBVIOUS
  <2> QED BY <2>2, <2>3
<1>3. ASSUME Consume(Event("order.created", o), {Event("inventory.reserved", o)}, fate),
             \/ reservation[o] # "none" /\ reservation'[o] = reservation[o]
             \/ reservation[o] = "none" /\ reservation'[o] = "held",
             \A q \in Orders \ {o} : SameStock(q)
      PROVE  PreservedStock(o)
  <2>1. /\ Tells(o, "order.created", {"inventory.reserved"}) /\ OnlyAbout(o)
        /\ InFlight("order.created", o)
        /\ InFlight("order.created", o)' \/ InFlight("inventory.reserved", o)'
    BY <1>2, <1>3
  <2>2. Evidence(o)'
    BY <1>3, <2>1, SagaTypes DEF Tells, OrderInv, Evidence, LookupAnswer
  <2>3. status[o] \in OrderStatus
    BY <2>1 DEF OrderInv, Evidence, TypeOK, OrderTypeOK
  <2>4. StockFollowsOrder(o)' /\ StockIsOwed(o)'
    BY <1>3, <2>1, <2>3 DEF OrderInv, StockFollowsOrder, StockIsOwed, OrderStatus
  <2>5. MoneyFollowsProvider(o)' /\ RefundFollowsCancel(o)'
    BY DEF OrderInv, MoneyFollowsProvider, RefundFollowsCancel, LookupAnswer
  <2> QED BY <1>3, <2>1, <2>2, <2>4, <2>5 DEF OrderInv, PreservedStock
<1>4. CASE UNCHANGED inventoryVars
           /\ Consume(Event("order.created", o), {Event("inventory.failed", o)}, fate)
           /\ reservation[o] = "none"
  <2>1. Tells(o, "order.created", {"inventory.failed"}) /\ OnlyAbout(o)
    BY <1>2, <1>4
  <2>2. Evidence(o)'
    BY <1>4, <2>1, SagaTypes DEF Tells, OrderInv, Evidence, LookupAnswer, inventoryVars
  <2>3. StockFollowsOrder(o)' /\ StockIsOwed(o)'
    BY <1>4 DEF OrderInv, StockFollowsOrder, StockIsOwed, inventoryVars
  <2>4. MoneyFollowsProvider(o)' /\ RefundFollowsCancel(o)'
    BY DEF OrderInv, MoneyFollowsProvider, RefundFollowsCancel, LookupAnswer
  <2> QED BY <1>4, <2>1, <2>2, <2>3, <2>4
          DEF OrderInv, PreservedStock, SameStock, inventoryVars
<1>5. CASE reservation[o] # "none"
  <2>1. /\ UNCHANGED inventoryVars
        /\ Consume(Event("order.created", o), {Event("inventory.reserved", o)}, fate)
    BY <1>5 DEF HandleOrderCreated
  <2> QED BY <1>3, <1>5, <2>1 DEF inventoryVars, SameStock
<1>6. CASE reservation[o] = "none" /\ InStock(o)
  <2>1. /\ reservation' = [reservation EXCEPT ![o] = "held"]
        /\ Consume(Event("order.created", o), {Event("inventory.reserved", o)}, fate)
    BY <1>6 DEF HandleOrderCreated
  <2>2. reservation'[o] = "held" /\ \A q \in Orders \ {o} : SameStock(q)
    BY <2>1 DEF SameStock, TypeOK, InventoryTypeOK
  <2> QED BY <1>3, <1>6, <2>1, <2>2
<1>7. CASE reservation[o] = "none" /\ ~InStock(o)
  BY <1>4, <1>7 DEF HandleOrderCreated
<1> QED BY <1>5, <1>6, <1>7

LEMMA CancelledPreserves ==
  ASSUME NEW o \in Orders, NEW fate, TypeOK, OrderInv(o), StockRow(o), UNCHANGED outbox,
         HandleOrderCancelled(o, fate)
  PROVE  PreservedStock(o)
<1> USE DEF StockRow, SameOrder, SameCharge, SameRefund
<1>1. /\ outbox' = outbox \cup Told(o, {}) /\ Event("order.cancelled", o) \in queued
      /\ Consume(Event("order.cancelled", o), Told(o, {}), fate)
  BY ToldTypes DEF HandleOrderCancelled
<1>2. /\ Tells(o, "order.cancelled", {} \cup {}) /\ OnlyAbout(o)
      /\ InFlight("order.cancelled", o)
  BY <1>1, ConsumeTells
<1>3. /\ reservation'[o] = IF reservation[o] = "held" THEN "released" ELSE reservation[o]
      /\ \A q \in Orders \ {o} : SameStock(q)
  BY DEF HandleOrderCancelled, inventoryVars, SameStock, TypeOK, InventoryTypeOK
<1>4. status[o] = "cancelled"
  BY <1>2 DEF OrderInv, Evidence
<1>5. Evidence(o)'
  BY <1>2, <1>3, <1>4, SagaTypes DEF Tells, OrderInv, Evidence, LookupAnswer
<1>6. StockFollowsOrder(o)' /\ StockIsOwed(o)'
  BY <1>3, <1>4 DEF OrderInv, StockFollowsOrder, StockIsOwed
<1>7. MoneyFollowsProvider(o)' /\ RefundFollowsCancel(o)'
  BY DEF OrderInv, MoneyFollowsProvider, RefundFollowsCancel, LookupAnswer
<1> QED BY <1>2, <1>3, <1>5, <1>6, <1>7 DEF OrderInv, PreservedStock

LEMMA PaidPreserves ==
  ASSUME NEW o \in Orders, NEW fate, TypeOK, OrderInv(o), StockRow(o), UNCHANGED outbox,
         HandleOrderPaid(o, fate)
  PROVE  PreservedStock(o)
<1> USE DEF StockRow, SameOrder, SameCharge, SameRefund
<1>1. /\ outbox' = outbox \cup Told(o, {}) /\ Event("order.paid", o) \in queued
      /\ Consume(Event("order.paid", o), Told(o, {"inventory.committed"}), fate)
  BY ToldTypes DEF HandleOrderPaid
<1>2. /\ Tells(o, "order.paid", {"inventory.committed"} \cup {}) /\ OnlyAbout(o)
      /\ InFlight("order.paid", o)
  BY <1>1, ConsumeTells
<1>3. /\ status[o] \in {"paid", "fulfilled"}
      /\ reservation[o] \in {"held", "committed"}
  BY <1>2 DEF OrderInv, Evidence, StockFollowsOrder
<1>4. reservation'[o] = "committed" /\ \A q \in Orders \ {o} : SameStock(q)
  BY <1>3 DEF HandleOrderPaid, SameStock, TypeOK, InventoryTypeOK
<1>5. Evidence(o)'
  BY <1>2, <1>3, <1>4, SagaTypes DEF Tells, OrderInv, Evidence, LookupAnswer
<1>6. StockFollowsOrder(o)' /\ StockIsOwed(o)'
  BY <1>3, <1>4 DEF StockFollowsOrder, StockIsOwed
<1>7. MoneyFollowsProvider(o)' /\ RefundFollowsCancel(o)'
  BY DEF OrderInv, MoneyFollowsProvider, RefundFollowsCancel, LookupAnswer
<1> QED BY <1>2, <1>4, <1>5, <1>6, <1>7 DEF OrderInv, PreservedStock

LEMMA InventoryStepPreserves ==
  ASSUME IInv, ByInventory(InventoryStep), NEW q \in Orders
  PROVE  OrderInv(q)'
<1>1. TypeOK /\ UNCHANGED outbox /\ \A o \in Orders : OrderInv(o) /\ StockRow(o)
  BY DEF IInv, ByInventory, orderVars, paymentVars, StockRow, SameOrder, SameCharge,
         SameRefund, Captured, Returned
<1>2. ASSUME NEW o \in Orders, PreservedStock(o)
      PROVE  OrderInv(q)'
  <2>1. CASE q = o
    BY <1>2, <2>1 DEF PreservedStock
  <2>2. CASE q # o
    BY <1>1, <1>2, <2>2, Frame DEF PreservedStock, StockRow
  <2> QED BY <2>1, <2>2
<1> QED
  BY <1>1, <1>2, CreatedPreserves, CancelledPreserves, PaidPreserves
     DEF ByInventory, InventoryStep

-----------------------------------------------------------------------------
(* Steps of the Payment service. *)

MoneyRow(o) == SameOrder(o) /\ SameStock(o) /\ provider' = provider

\* The payment row after a step, and what it may tell about it.
MoneyMoves(o) ==
  /\ o \in charging' \/ listed'[o] # "none" => payment'[o] # "none"
  /\ payment'[o] # "none" => status[o] \notin {"none", "pending"}
  /\ Captured(o) => Captured(o)'
  /\ Captured(o)' => LookupAnswer(o) = "success"
  /\ payment'[o] \in {"succeeded", "refunded"} => Captured(o)'
  /\ payment'[o] = "failed" => LookupAnswer(o) = "failure"

OthersKeepMoney(o) == \A q \in Orders \ {o} : SameCharge(q) /\ SameRefund(q)

\* A payment step preserves the invariant if money only comes in, the row says
\* what the provider says, and what is told is what the row says.
LEMMA MoneyPreserves ==
  ASSUME NEW o \in Orders, NEW gone, NEW new, OrderInv(o), MoneyRow(o), MoneyMoves(o),
         Tells(o, gone, new),
         gone \in {"", "charge.requested", "refund.requested"},
         new \subseteq {"payment.succeeded", "payment.failed"},
         "payment.succeeded" \in new => Captured(o)',
         "payment.failed" \in new => LookupAnswer(o) = "failure",
         refund'[o] # "none" => status[o] = "cancelled" /\ Captured(o),
         o \in refunding' \/ refundListed'[o] # "none" \/ Returned(o)' => refund'[o] # "none"
  PROVE  OrderInv(o)'
<1> USE DEF MoneyRow, SameOrder, SameStock, MoneyMoves
<1>1. Evidence(o)'
  <2>1. \A type \in SagaEvents \ {"payment.succeeded", "payment.failed"} :
          InFlight(type, o)' => InFlight(type, o)
    BY DEF Tells
  <2>2. InFlight("payment.succeeded", o)' => Captured(o)'
    BY SagaTypes DEF Tells, OrderInv, Evidence
  <2>3. InFlight("payment.failed", o)' => LookupAnswer(o) = "failure"
    BY SagaTypes DEF Tells, OrderInv, Evidence
  <2>4. LookupAnswer(o)' = LookupAnswer(o)
    BY DEF LookupAnswer
  <2> QED BY <2>1, <2>2, <2>3, <2>4, SagaTypes DEF OrderInv, Evidence
<1>2. StockFollowsOrder(o)' /\ StockIsOwed(o)'
  BY SagaTypes DEF Tells, OrderInv, StockFollowsOrder, StockIsOwed
<1>3. MoneyFollowsProvider(o)'
  BY DEF OrderInv, MoneyFollowsProvider, LookupAnswer
<1>4. RefundFollowsCancel(o)'
  BY DEF RefundFollowsCancel
<1> QED BY <1>1, <1>2, <1>3, <1>4 DEF OrderInv

LEMMA LedgerKeys ==
  ASSUME NEW a, NEW b
  PROVE  Debit(a) # Credit(b) /\ (a # b => Debit(a) # Debit(b) /\ Credit(a) # Credit(b))
BY DEF Debit, Credit

\* Whatever status the session believes in, what it writes agrees with the
\* provider; a stale belief can only make it write "unknown" again.
LEMMA WritePaymentEffect ==
  ASSUME NEW o \in Orders, NEW held, NEW answer, TypeOK, OrderInv(o),
         payment[o] # "none",
         answer \in {"success", "failure"} => answer = LookupAnswer(o),
         WritePayment(o, held, answer)
  PROVE  /\ MoneyMoves(o)
         /\ payment'[o] = ChargedStatus(o, held, answer)
         /\ payment'[o] = "succeeded" => Captured(o)'
         /\ \A q \in Orders : Returned(q)' <=> Returned(q)
         /\ \A q \in Orders \ {o} : payment'[q] = payment[q] /\ (Captured(q)' <=> Captured(q))
<1>1. /\ payment'[o] = ChargedStatus(o, held, answer)
      /\ \A q \in Orders \ {o} : payment'[q] = payment[q]
  BY DEF WritePayment, TypeOK, PaymentTypeOK
<1>2. /\ \A q \in Orders : Returned(q)' <=> Returned(q)
      /\ \A q \in Orders \ {o} : Captured(q)' <=> Captured(q)
      /\ Captured(o)' <=> Captured(o) \/ (answer = "success" /\ SeenPayment(o, held) \in Unresolved)
  BY LedgerKeys DEF WritePayment, Captured, Returned
<1>3. MoneyMoves(o)
  BY <1>1, <1>2 DEF MoneyMoves, OrderInv, MoneyFollowsProvider, ChargedStatus, Unresolved
<1> QED BY <1>1, <1>2, <1>3 DEF MoneyMoves

LEMMA OutcomeTells ==
  ASSUME NEW o, NEW st
  PROVE  \E types : /\ Outcome(o, st) = Told(o, types)
                    /\ types \subseteq {"payment.succeeded", "payment.failed"}
                    /\ "payment.succeeded" \in types => st = "succeeded"
                    /\ "payment.failed" \in types => st = "failed"
<1>1. CASE st = "succeeded"
  <2>1. Outcome(o, st) = Told(o, {"payment.succeeded"})
    BY <1>1, ToldTypes DEF Outcome
  <2> QED BY <1>1, <2>1
<1>2. CASE st = "failed"
  <2>1. Outcome(o, st) = Told(o, {"payment.failed"})
    BY <1>2, ToldTypes DEF Outcome
  <2> QED BY <1>2, <2>1
<1>3. CASE st \notin {"succeeded", "failed"}
  <2>1. Outcome(o, st) = Told(o, {})
    BY <1>3, ToldTypes DEF Outcome
  <2> QED BY <2>1
<1> QED BY <1>1, <1>2, <1>3

\* A delivery answered with the outcome st, whichever it is.
LEMMA Answers ==
  ASSUME NEW o \in Orders, NEW type, NEW st, NEW fate, UNCHANGED outbox,
         Consume(Event(type, o), Outcome(o, st), fate)
  PROVE  /\ OnlyAbout(o)
         /\ \E new : /\ Tells(o, type, new)
                     /\ new \subseteq {"payment.succeeded", "payment.failed"}
                     /\ "payment.succeeded" \in new => st = "succeeded"
                     /\ "payment.failed" \in new => st = "failed"
<1>1. PICK new : /\ Outcome(o, st) = Told(o, new)
                 /\ new \subseteq {"payment.succeeded", "payment.failed"}
                 /\ "payment.succeeded" \in new => st = "succeeded"
                 /\ "payment.failed" \in new => st = "failed"
  BY OutcomeTells
<1>2. Consume(Event(type, o), Told(o, new), fate) /\ outbox' = outbox \cup Told(o, {})
  BY <1>1, ToldTypes
<1>3. Tells(o, type, new \cup {}) /\ OnlyAbout(o)
  BY <1>2, ConsumeTells
<1>4. new \cup {} = new
  OBVIOUS
<1> QED BY <1>1, <1>3, <1>4

LEMMA ChargeFinishPreserves ==
  ASSUME NEW o \in Orders, NEW fate, TypeOK, OrderInv(o), MoneyRow(o), UNCHANGED outbox,
         ChargeFinish(o, fate)
  PROVE  OrderInv(o)' /\ OnlyAbout(o) /\ OthersKeepMoney(o)
<1> DEFINE st == ChargedStatus(o, "pending", ChargeAnswer(o))
<1>1. /\ WritePayment(o, "pending", ChargeAnswer(o))
      /\ Consume(Event("charge.requested", o), Outcome(o, st), fate)
      /\ UNCHANGED <<provider, refundVars>>
  BY DEF ChargeFinish
<1>2. /\ ChargeAnswer(o) \in {"success", "failure"} => ChargeAnswer(o) = LookupAnswer(o)
      /\ payment[o] # "none"
  BY DEF ChargeAnswer, LookupAnswer, ChargeFinish, OrderInv, MoneyFollowsProvider
<1>3. /\ MoneyMoves(o)
      /\ payment'[o] = st
      /\ payment'[o] = "succeeded" => Captured(o)'
      /\ \A q \in Orders : Returned(q)' <=> Returned(q)
      /\ \A q \in Orders \ {o} : payment'[q] = payment[q] /\ (Captured(q)' <=> Captured(q))
  BY <1>1, <1>2, WritePaymentEffect
<1> HIDE DEF st
<1>4. st = "failed" => LookupAnswer(o) = "failure"
  BY <1>3 DEF MoneyMoves
<1>5. OnlyAbout(o)
  BY <1>1, Answers
<1>6. PICK new : /\ Tells(o, "charge.requested", new)
                 /\ new \subseteq {"payment.succeeded", "payment.failed"}
                 /\ "payment.succeeded" \in new => st = "succeeded"
                 /\ "payment.failed" \in new => st = "failed"
  BY <1>1, Answers
<1>7. /\ refund'[o] # "none" => status[o] = "cancelled" /\ Captured(o)
      /\ o \in refunding' \/ refundListed'[o] # "none" \/ Returned(o)' => refund'[o] # "none"
  BY <1>1, <1>3 DEF refundVars, OrderInv, RefundFollowsCancel
<1>8. OrderInv(o)'
  BY <1>3, <1>4, <1>6, <1>7, MoneyPreserves
<1>9. OthersKeepMoney(o)
  BY <1>1, <1>3 DEF OthersKeepMoney, SameCharge, SameRefund, refundVars, ChargeFinish
<1> QED BY <1>5, <1>8, <1>9

\* The outcome of the row as it stands is told again: by a replayed request or by
\* the reconciler.
LEMMA TellsRow ==
  ASSUME NEW o \in Orders, OrderInv(o), MoneyRow(o),
         UNCHANGED <<payment, ledger, charging, listed, refundVars>>,
         NEW gone, gone \in {"", "charge.requested"},
         NEW new, Tells(o, gone, new), OnlyAbout(o),
         new \subseteq {"payment.succeeded", "payment.failed"},
         "payment.succeeded" \in new => payment[o] = "succeeded",
         "payment.failed" \in new => payment[o] = "failed"
  PROVE  OrderInv(o)' /\ OthersKeepMoney(o)
<1>1. MoneyMoves(o)
  BY DEF MoneyMoves, OrderInv, MoneyFollowsProvider, Captured
<1>2. /\ "payment.succeeded" \in new => Captured(o)'
      /\ "payment.failed" \in new => LookupAnswer(o) = "failure"
  BY DEF OrderInv, MoneyFollowsProvider, Captured
<1>3. /\ refund'[o] # "none" => status[o] = "cancelled" /\ Captured(o)
      /\ o \in refunding' \/ refundListed'[o] # "none" \/ Returned(o)' => refund'[o] # "none"
  BY DEF refundVars, OrderInv, RefundFollowsCancel, Returned
<1>4. OthersKeepMoney(o)
  BY DEF OthersKeepMoney, SameCharge, SameRefund, Captured, Returned, refundVars, MoneyRow
<1> QED BY <1>1, <1>2, <1>3, <1>4, MoneyPreserves

LEMMA ChargeReplayPreserves ==
  ASSUME NEW o \in Orders, NEW fate, OrderInv(o), MoneyRow(o), UNCHANGED outbox,
         ChargeReplay(o, fate)
  PROVE  OrderInv(o)' /\ OnlyAbout(o) /\ OthersKeepMoney(o)
<1>1. /\ Consume(Event("charge.requested", o), Outcome(o, payment[o]), fate)
      /\ UNCHANGED <<payment, ledger, charging, listed, refundVars>>
  BY DEF ChargeReplay
<1> QED BY <1>1, Answers, TellsRow

LEMMA ReportPaymentPreserves ==
  ASSUME NEW o \in Orders, NEW fate, OrderInv(o), MoneyRow(o), UNCHANGED outbox,
         ReportPayment(o, fate)
  PROVE  OrderInv(o)' /\ OnlyAbout(o) /\ OthersKeepMoney(o)
<1>1. PICK new : /\ Outcome(o, payment[o]) = Told(o, new)
                 /\ new \subseteq {"payment.succeeded", "payment.failed"}
                 /\ "payment.succeeded" \in new => payment[o] = "succeeded"
                 /\ "payment.failed" \in new => payment[o] = "failed"
  BY OutcomeTells
<1>2. Pool' = Pool \cup Told(o, new)
  BY <1>1 DEF ReportPayment, Pool
<1>3. Tells(o, "", new) /\ OnlyAbout(o)
  BY <1>2, AddTells
<1>4. UNCHANGED <<payment, ledger, charging, listed, refundVars>>
  BY DEF ReportPayment
<1> QED BY <1>1, <1>3, <1>4, TellsRow

\* The claim of a refund: the request proves the order cancelled and captured.
LEMMA RefundBeginPreserves ==
  ASSUME NEW o \in Orders, TypeOK, OrderInv(o), MoneyRow(o), UNCHANGED outbox, RefundBegin(o)
  PROVE  OrderInv(o)' /\ OnlyAbout(o) /\ OthersKeepMoney(o)
<1>1. InFlight("refund.requested", o)
  BY DEF RefundBegin, InFlight, Pool
<1>2. status[o] = "cancelled" /\ Captured(o)
  BY <1>1 DEF OrderInv, Evidence
<1>3. UNCHANGED <<provider, ledger, chargeVars, busVars, refundListed>> /\ refund'[o] = "pending"
  BY DEF RefundBegin, TypeOK, PaymentTypeOK
<1>4. OthersKeepMoney(o)
  BY <1>3 DEF RefundBegin, OthersKeepMoney, SameCharge, SameRefund, Captured, Returned,
              TypeOK, PaymentTypeOK, chargeVars
<1>5. Pool' = Pool \cup Told(o, {})
  BY <1>3, ToldTypes DEF busVars, Pool
<1>6. Tells(o, "", {}) /\ OnlyAbout(o)
  BY <1>5, AddTells
<1>7. MoneyMoves(o)
  BY <1>3 DEF MoneyMoves, OrderInv, MoneyFollowsProvider, Captured, chargeVars
<1> QED BY <1>2, <1>3, <1>4, <1>6, <1>7, MoneyPreserves

LEMMA RefundSkipPreserves ==
  ASSUME NEW o \in Orders, NEW fate, OrderInv(o), MoneyRow(o), UNCHANGED outbox,
         RefundSkip(o, fate)
  PROVE  OrderInv(o)' /\ OnlyAbout(o) /\ OthersKeepMoney(o)
<1>1. /\ Consume(Event("refund.requested", o), Told(o, {}), fate)
      /\ outbox' = outbox \cup Told(o, {})
      /\ UNCHANGED paymentVars
  BY ToldTypes DEF RefundSkip
<1>2. Tells(o, "refund.requested", {} \cup {}) /\ OnlyAbout(o)
  BY <1>1, ConsumeTells
<1>3. MoneyMoves(o)
  BY <1>1 DEF MoneyMoves, OrderInv, MoneyFollowsProvider, Captured, paymentVars
<1>4. /\ refund'[o] # "none" => status[o] = "cancelled" /\ Captured(o)
      /\ o \in refunding' \/ refundListed'[o] # "none" \/ Returned(o)' => refund'[o] # "none"
  BY <1>1 DEF paymentVars, OrderInv, RefundFollowsCancel, Returned
<1>5. OthersKeepMoney(o)
  BY <1>1 DEF OthersKeepMoney, SameCharge, SameRefund, Captured, Returned, paymentVars
<1> QED BY <1>2, <1>3, <1>4, <1>5, MoneyPreserves

\* The answer to a refund that was claimed or listed, whatever the session
\* believes: a credit only for money that came in.
LEMMA WriteRefundEffect ==
  ASSUME NEW o \in Orders, NEW held, NEW answer, TypeOK, OrderInv(o), MoneyRow(o),
         refund[o] # "none", UNCHANGED <<charging, listed>>, WriteRefund(o, held, answer)
  PROVE  /\ MoneyMoves(o)
         /\ refund'[o] # "none"
         /\ status[o] = "cancelled" /\ Captured(o)
         /\ \A q \in Orders \ {o} : /\ payment'[q] = payment[q]
                                    /\ refund'[q] = refund[q]
                                    /\ Captured(q)' <=> Captured(q)
                                    /\ Returned(q)' <=> Returned(q)
<1>1. /\ refund'[o] = RefundedStatus(o, held, answer)
      /\ payment'[o] \in {payment[o], "refunded"}
      /\ \A q \in Orders \ {o} : payment'[q] = payment[q] /\ refund'[q] = refund[q]
  BY DEF WriteRefund, TypeOK, PaymentTypeOK
<1>2. /\ \A q \in Orders : Captured(q)' <=> Captured(q)
      /\ \A q \in Orders \ {o} : Returned(q)' <=> Returned(q)
  BY LedgerKeys DEF WriteRefund, Captured, Returned
<1>3. status[o] = "cancelled" /\ Captured(o)
  BY DEF OrderInv, RefundFollowsCancel
<1>4. MoneyMoves(o)
  BY <1>1, <1>2, <1>3 DEF MoneyMoves, OrderInv, MoneyFollowsProvider
<1>5. refund'[o] # "none"
  BY <1>1 DEF RefundedStatus
<1> QED BY <1>1, <1>2, <1>3, <1>4, <1>5

LEMMA RefundFinishPreserves ==
  ASSUME NEW o \in Orders, NEW fate, TypeOK, OrderInv(o), MoneyRow(o), UNCHANGED outbox,
         RefundFinish(o, fate)
  PROVE  OrderInv(o)' /\ OnlyAbout(o) /\ OthersKeepMoney(o)
<1>1. /\ WriteRefund(o, "pending", provider[o].refund)
      /\ Consume(Event("refund.requested", o), Told(o, {}), fate)
      /\ outbox' = outbox \cup Told(o, {})
      /\ refunding' = refunding \ {o} /\ refundListed' = refundListed
      /\ UNCHANGED <<provider, charging, listed>>
  BY ToldTypes DEF RefundFinish
<1>2. refund[o] # "none"
  BY DEF RefundFinish, OrderInv, RefundFollowsCancel
<1>3. /\ MoneyMoves(o)
      /\ refund'[o] # "none"
      /\ status[o] = "cancelled" /\ Captured(o)
      /\ \A q \in Orders \ {o} : /\ payment'[q] = payment[q]
                                 /\ refund'[q] = refund[q]
                                 /\ Captured(q)' <=> Captured(q)
                                 /\ Returned(q)' <=> Returned(q)
  BY <1>1, <1>2, WriteRefundEffect
<1>4. Tells(o, "refund.requested", {} \cup {}) /\ OnlyAbout(o)
  BY <1>1, ConsumeTells
<1>5. OthersKeepMoney(o)
  BY <1>1, <1>3 DEF OthersKeepMoney, SameCharge, SameRefund
<1> QED BY <1>3, <1>4, <1>5, MoneyPreserves

LEMMA ResolveRefundPreserves ==
  ASSUME NEW o \in Orders, TypeOK, OrderInv(o), MoneyRow(o), UNCHANGED outbox, ResolveRefund(o)
  PROVE  OrderInv(o)' /\ OnlyAbout(o) /\ OthersKeepMoney(o)
<1>1. /\ \E answer : WriteRefund(o, refundListed[o], answer)
      /\ UNCHANGED <<provider, refunding, charging, listed, busVars>>
      /\ \A q \in Orders \ {o} : refundListed'[q] = refundListed[q]
  BY DEF ResolveRefund, TypeOK, PaymentTypeOK
<1>2. refund[o] # "none"
  BY DEF ResolveRefund, OrderInv, RefundFollowsCancel
<1>3. /\ MoneyMoves(o)
      /\ refund'[o] # "none"
      /\ status[o] = "cancelled" /\ Captured(o)
      /\ \A q \in Orders \ {o} : /\ payment'[q] = payment[q]
                                 /\ refund'[q] = refund[q]
                                 /\ Captured(q)' <=> Captured(q)
                                 /\ Returned(q)' <=> Returned(q)
  BY <1>1, <1>2, WriteRefundEffect
<1>4. Pool' = Pool \cup Told(o, {})
  BY <1>1, ToldTypes DEF busVars, Pool
<1>5. Tells(o, "", {}) /\ OnlyAbout(o)
  BY <1>4, AddTells
<1>6. OthersKeepMoney(o)
  BY <1>1, <1>3 DEF OthersKeepMoney, SameCharge, SameRefund
<1> QED BY <1>3, <1>5, <1>6, MoneyPreserves

LEMMA ResolvePaymentPreserves ==
  ASSUME NEW o \in Orders, TypeOK, OrderInv(o), MoneyRow(o), UNCHANGED outbox, ResolvePayment(o)
  PROVE  OrderInv(o)' /\ OnlyAbout(o) /\ OthersKeepMoney(o)
<1>1. /\ WritePayment(o, listed[o], LookupAnswer(o))
      /\ UNCHANGED <<provider, charging, refundVars, busVars>>
      /\ \A q \in Orders \ {o} : listed'[q] = listed[q]
      /\ payment[o] # "none"
  BY DEF ResolvePayment, TypeOK, PaymentTypeOK, OrderInv, MoneyFollowsProvider
<1>2. /\ MoneyMoves(o)
      /\ \A q \in Orders : Returned(q)' <=> Returned(q)
      /\ \A q \in Orders \ {o} : payment'[q] = payment[q] /\ (Captured(q)' <=> Captured(q))
  BY <1>1, WritePaymentEffect
<1>3. Pool' = Pool \cup Told(o, {})
  BY <1>1, ToldTypes DEF busVars, Pool
<1>4. Tells(o, "", {}) /\ OnlyAbout(o)
  BY <1>3, AddTells
<1>5. /\ refund'[o] # "none" => status[o] = "cancelled" /\ Captured(o)
      /\ o \in refunding' \/ refundListed'[o] # "none" \/ Returned(o)' => refund'[o] # "none"
  BY <1>1, <1>2 DEF refundVars, OrderInv, RefundFollowsCancel
<1>6. OthersKeepMoney(o)
  BY <1>1, <1>2 DEF OthersKeepMoney, SameCharge, SameRefund, refundVars
<1> QED BY <1>2, <1>4, <1>5, <1>6, MoneyPreserves

\* Steps that only move a session or a flag.
LEMMA SessionStepsPreserve ==
  ASSUME NEW o \in Orders, TypeOK, OrderInv(o), MoneyRow(o), UNCHANGED outbox,
         \/ ChargeBegin(o)
         \/ ChargeCrash(o)
         \/ ListPayment(o)
         \/ RefundClash(o)
         \/ \E called \in BOOLEAN : RefundCrash(o, called)
         \/ ListRefund(o)
         \/ ReportRefund(o)
  PROVE  OrderInv(o)' /\ OnlyAbout(o) /\ OthersKeepMoney(o)
<1> USE DEF chargeVars, refundVars
<1>1. UNCHANGED <<ledger, queued, dead, outbox, refund>>
  BY DEF ChargeBegin, ChargeCrash, ListPayment, RefundClash, RefundCrash, ListRefund,
         ReportRefund, busVars
<1>2. Pool' = Pool \cup Told(o, {})
  BY <1>1, ToldTypes DEF Pool
<1>3. Tells(o, "", {}) /\ OnlyAbout(o)
  BY <1>2, AddTells
<1>4. /\ \/ payment'[o] = payment[o]
         \/ payment'[o] = "pending" /\ InFlight("charge.requested", o)
      /\ o \in charging' \/ listed'[o] # "none" =>
           o \in charging \/ listed[o] # "none" \/ payment'[o] # "none"
      /\ \A q \in Orders \ {o} : /\ payment'[q] = payment[q]
                                 /\ listed'[q] = listed[q]
                                 /\ q \in charging' <=> q \in charging
  BY DEF ChargeBegin, ChargeCrash, ListPayment, RefundClash, RefundCrash, ListRefund,
         ReportRefund, TypeOK, PaymentTypeOK, InFlight, Pool, Unresolved
<1>5. /\ refunding' \subseteq refunding
      /\ \A q \in Orders \ {o} : q \in refunding' <=> q \in refunding
  BY DEF ChargeBegin, ChargeCrash, ListPayment, RefundClash, RefundCrash, ListRefund,
         ReportRefund
<1>6. /\ refundListed'[o] # "none" => refundListed[o] # "none" \/ refund[o] # "none"
      /\ \A q \in Orders \ {o} : refundListed'[q] = refundListed[q]
  BY DEF ChargeBegin, ChargeCrash, ListPayment, RefundClash, RefundCrash, ListRefund,
         ReportRefund, TypeOK, PaymentTypeOK, Unresolved
<1>7. MoneyMoves(o)
  BY <1>1, <1>4 DEF MoneyMoves, OrderInv, Evidence, MoneyFollowsProvider, Captured
<1>8. /\ refund'[o] # "none" => status[o] = "cancelled" /\ Captured(o)
      /\ o \in refunding' \/ refundListed'[o] # "none" \/ Returned(o)' => refund'[o] # "none"
  BY <1>1, <1>5, <1>6 DEF OrderInv, RefundFollowsCancel, Returned
<1>9. OthersKeepMoney(o)
  BY <1>1, <1>4, <1>5, <1>6
     DEF OthersKeepMoney, SameCharge, SameRefund, Captured, Returned, MoneyRow
<1> QED BY <1>3, <1>7, <1>8, <1>9, MoneyPreserves

PaymentActs(o) ==
  \/ ChargeBegin(o)
  \/ ChargeCrash(o)
  \/ \E fate \in Fates : ChargeFinish(o, fate) \/ ChargeReplay(o, fate)
  \/ ListPayment(o)
  \/ ResolvePayment(o)
  \/ \E fate \in {"acked", "unmarked"} : ReportPayment(o, fate)
  \/ RefundBegin(o)
  \/ \E fate \in {"acked", "unacked"} : RefundSkip(o, fate)
  \/ \E fate \in Fates : RefundFinish(o, fate)
  \/ RefundClash(o)
  \/ \E called \in BOOLEAN : RefundCrash(o, called)
  \/ ListRefund(o)
  \/ ResolveRefund(o)
  \/ ReportRefund(o)

\* A step of the Payment service is about one order and leaves the others alone.
LEMMA PaymentStepActs ==
  ASSUME IInv, ByPayment(PaymentStep)
  PROVE  \E o \in Orders :
           PaymentActs(o) /\ MoneyRow(o) /\ OrderInv(o)' /\ OnlyAbout(o) /\ OthersKeepMoney(o)
<1>1. TypeOK /\ UNCHANGED outbox /\ \A o \in Orders : OrderInv(o) /\ SameOrder(o) /\ SameStock(o)
  BY DEF IInv, ByPayment, orderVars, inventoryVars, SameOrder, SameStock
<1>2. PICK o \in Orders : PaymentActs(o)
  BY DEF ByPayment, PaymentStep, PaymentActs
<1>3. provider' = provider
  BY <1>2 DEF PaymentActs, ChargeBegin, ChargeCrash, ChargeFinish, ChargeReplay, ListPayment,
              ResolvePayment, ReportPayment, RefundBegin, RefundSkip, RefundFinish,
              RefundClash, RefundCrash, ListRefund, ResolveRefund, ReportRefund, paymentVars
<1>4. MoneyRow(o)
  BY <1>1, <1>3 DEF MoneyRow
<1>5. OrderInv(o)' /\ OnlyAbout(o) /\ OthersKeepMoney(o)
  BY <1>1, <1>2, <1>4, ChargeFinishPreserves, ChargeReplayPreserves, ResolvePaymentPreserves,
     ReportPaymentPreserves, RefundBeginPreserves, RefundSkipPreserves,
     RefundFinishPreserves, ResolveRefundPreserves, SessionStepsPreserve DEF PaymentActs
<1> QED BY <1>2, <1>4, <1>5

LEMMA PaymentStepPreserves ==
  ASSUME IInv, ByPayment(PaymentStep), NEW q \in Orders
  PROVE  OrderInv(q)'
<1>1. \A o \in Orders : OrderInv(o) /\ SameOrder(o) /\ SameStock(o)
  BY DEF IInv, ByPayment, orderVars, inventoryVars, SameOrder, SameStock
<1>2. PICK o \in Orders : OrderInv(o)' /\ OnlyAbout(o) /\ OthersKeepMoney(o)
  BY PaymentStepActs
<1>3. CASE q = o
  BY <1>2, <1>3
<1>4. CASE q # o
  BY <1>1, <1>2, <1>4, Frame DEF OthersKeepMoney
<1> QED BY <1>3, <1>4

-----------------------------------------------------------------------------
(* The theorems. *)

LEMMA InitInv == Init => IInv
<1> SUFFICES ASSUME Init PROVE IInv
  OBVIOUS
<1>1. TypeOK
  BY InitType
<1>2. ASSUME NEW o \in Orders
      PROVE  OrderInv(o)
  <2>1. /\ status[o] = "none" /\ reservation[o] = "none"
        /\ payment[o] = "none" /\ refund[o] = "none" /\ refundListed[o] = "none"
        /\ charging = {} /\ listed[o] = "none" /\ refunding = {} /\ ledger = {}
    BY DEF Init, OrderInit, InventoryInit, PaymentInit
  <2>2. \A type : ~InFlight(type, o)
    BY DEF Init, BusInit, OrderInit, InFlight, Pool
  <2>3. ~Captured(o) /\ ~Returned(o)
    BY <2>1 DEF Captured, Returned
  <2> QED BY <2>1, <2>2, <2>3 DEF OrderInv, Evidence, StockFollowsOrder, StockIsOwed,
                                 MoneyFollowsProvider, RefundFollowsCancel
<1> QED BY <1>1, <1>2 DEF IInv

LEMMA NextInv == IInv /\ [Next]_vars => IInv'
<1> SUFFICES ASSUME IInv, [Next]_vars PROVE IInv'
  OBVIOUS
<1>1. TypeOK'
  BY NextType DEF IInv
<1>2. ASSUME NEW q \in Orders
      PROVE  OrderInv(q)'
  <2>1. CASE ByOrder(OrderStep)
    BY <2>1, OrderStepPreserves
  <2>2. CASE ByInventory(InventoryStep)
    BY <2>2, InventoryStepPreserves
  <2>3. CASE ByPayment(PaymentStep)
    BY <2>3, PaymentStepPreserves
  <2>4. ASSUME UNCHANGED <<orderVars, inventoryVars, paymentVars>>, Pool' = Pool
        PROVE  OrderInv(q)'
    <3>1. /\ \A t \in SagaEvents : InFlight(t, q)' <=> InFlight(t, q)
          /\ SameOrder(q) /\ OrderRow(q)
      BY <2>4 DEF InFlight, orderVars, inventoryVars, paymentVars, SameOrder, OrderRow,
                  SameStock, SameCharge, SameRefund, Captured, Returned
    <3> QED BY <3>1, Unmoved DEF IInv
  <2>5. CASE ByBus(BusStep)
    <3>1. queued' \cup dead' = queued \cup dead
      BY <2>5 DEF ByBus, BusStep, DeadLetter, Replay
    <3>2. Pool' = Pool
      BY <2>5, <3>1 DEF ByBus, Pool, orderVars
    <3> QED BY <2>4, <2>5, <3>2 DEF ByBus
  <2>6. CASE UNCHANGED vars
    <3>1. Pool' = Pool
      BY <2>6 DEF vars, busVars, orderVars, Pool
    <3> QED BY <2>4, <2>6, <3>1 DEF vars
  <2> QED BY <2>1, <2>2, <2>3, <2>4, <2>5, <2>6 DEF Next
<1> QED BY <1>1, <1>2 DEF IInv

\* The inductive invariant: what every message in flight proves about the rows of
\* the other services, and what is owed for stock that is held.
THEOREM SagaInv == Spec => []IInv
BY InitInv, NextInv, PTL DEF Spec

LEMMA InvImplies ==
  ASSUME IInv
  PROVE  /\ PaidIsBacked
         /\ SettledTheRightWay
         /\ HeldStockIsOwed
         /\ ReturnedOnlyWhenCancelled
         /\ FailureMeansNoCapture
<1>1. \A o \in Orders :
        /\ status[o] \in OrderStatus \cup {"none"}
        /\ reservation[o] \in ReservationStatus \cup {"none"}
        /\ OrderInv(o)
  BY DEF IInv, TypeOK, OrderTypeOK, InventoryTypeOK
<1>2. PaidIsBacked
  BY <1>1 DEF PaidIsBacked, OrderInv, StockFollowsOrder, MoneyFollowsProvider
<1>3. SettledTheRightWay
  BY <1>1 DEF SettledTheRightWay, OrderStatus, OrderInv, StockFollowsOrder
<1>4. HeldStockIsOwed
  BY <1>1 DEF HeldStockIsOwed, OrderInv, StockIsOwed
<1>5. ReturnedOnlyWhenCancelled
  BY <1>1 DEF ReturnedOnlyWhenCancelled, OrderInv, RefundFollowsCancel
<1>6. FailureMeansNoCapture
  BY <1>1 DEF FailureMeansNoCapture, OrderInv, Evidence, MoneyFollowsProvider
<1> QED BY <1>2, <1>3, <1>4, <1>5, <1>6

\* A paid order has captured money and stock of its own, a fulfilled one has its
\* stock committed, whatever is lost, late, repeated or overtaken.
THEOREM PaidIsAlwaysBacked == Spec => []PaidIsBacked
BY SagaInv, InvImplies, PTL

\* Stock is committed only for a paid order and released only for a cancelled one.
THEOREM SettlesTheRightWay == Spec => []SettledTheRightWay
BY SagaInv, InvImplies, PTL

\* Stock held for a cancelled order always has a message left that releases it.
THEOREM HeldStockIsAlwaysOwed == Spec => []HeldStockIsOwed
BY SagaInv, InvImplies, PTL

\* Money is only ever returned for an order that is cancelled and was captured.
THEOREM ReturnsOnlyWhenCancelled == Spec => []ReturnedOnlyWhenCancelled
BY SagaInv, InvImplies, PTL

\* No order is given up for a failed payment whose money was captured.
THEOREM FailureNeverCaptured == Spec => []FailureMeansNoCapture
BY SagaInv, InvImplies, PTL
=============================================================================
