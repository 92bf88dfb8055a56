--------------------------- MODULE SagaRefinement ---------------------------
(***************************************************************************)
(* The saga implements the abstract purchase: every step of the services   *)
(* and of the bus is a step of Purchase, or changes nothing it can see.    *)
(***************************************************************************)
EXTENDS SagaProofs

MoneyOf == [o \in Orders |-> Money(o)]

LEMMA LedgerKeepsMoney ==
  ASSUME UNCHANGED ledger
  PROVE  MoneyOf' = MoneyOf
BY DEF MoneyOf, Money, Captured, Returned

\* What the prover has to know of the instance: its variables, and its actions
\* on them.
PurchaseMoves ==
  \/ \E o \in Orders :
        \/ Abstract!Place(o)    \/ Abstract!SetAside(o) \/ Abstract!Accept(o)
        \/ Abstract!Capture(o)  \/ Abstract!ConfirmPaid(o) \/ Abstract!HandOver(o)
        \/ Abstract!Fulfil(o)   \/ Abstract!PutBack(o)  \/ Abstract!GiveBack(o)
  \/ \E unwanted \in SUBSET Orders : Abstract!GiveUp(unwanted)
  \/ UNCHANGED <<status, reservation, MoneyOf>>

LEMMA Moves == PurchaseMoves => [Abstract!Next]_Abstract!purchaseVars
BY DEF PurchaseMoves, Abstract!Next, Abstract!purchaseVars, MoneyOf

LEMMA OrderStepMoves ==
  ASSUME IInv, ByOrder(OrderStep)
  PROVE  PurchaseMoves
<1>1. TypeOK /\ \A o \in Orders : OrderInv(o)
  BY DEF IInv
<1>2. UNCHANGED reservation /\ MoneyOf' = MoneyOf
  BY LedgerKeepsMoney DEF ByOrder, inventoryVars, paymentVars
<1>3. ASSUME NEW o \in Orders, CreateOrder(o)
      PROVE  PurchaseMoves
  <2>1. Abstract!Place(o)
    BY <1>2, <1>3 DEF CreateOrder, SetStatus, Abstract!Place, MoneyOf
  <2> QED BY <2>1 DEF PurchaseMoves
<1>4. ASSUME NEW o \in Orders, status[o] \in {"pending", "reserved"},
             status' = [status EXCEPT ![o] = "cancelled"]
      PROVE  PurchaseMoves
  <2>1. status' = [q \in Orders |-> IF q \in {o} THEN "cancelled" ELSE status[q]]
    BY <1>1, <1>4 DEF TypeOK, OrderTypeOK
  <2>2. Abstract!GiveUp({o})
    BY <1>2, <1>4, <2>1 DEF Abstract!GiveUp, MoneyOf
  <2> QED BY <2>2 DEF PurchaseMoves
<1>5. ASSUME NEW o \in Orders, NEW fate, OnInventoryReserved(o, fate)
      PROVE  PurchaseMoves
  <2>1. CASE status[o] = "pending"
    <3>1. InFlight("inventory.reserved", o)
      BY <1>5 DEF OnInventoryReserved, Receive, InFlight, Pool
    <3>2. reservation[o] = "held"
      BY <1>1, <2>1, <3>1 DEF OrderInv, Evidence, StockFollowsOrder
    <3>3. Abstract!Accept(o)
      BY <1>2, <1>5, <2>1, <3>2 DEF OnInventoryReserved, SetStatus, Abstract!Accept, MoneyOf
    <3> QED BY <3>3 DEF PurchaseMoves
  <2>2. CASE status[o] # "pending"
    BY <1>2, <1>5, <2>2 DEF OnInventoryReserved, orderVars, PurchaseMoves
  <2> QED BY <2>1, <2>2
<1>6. ASSUME NEW o \in Orders, NEW fate, OnInventoryFailed(o, fate)
      PROVE  PurchaseMoves
  <2>1. CASE status[o] = "pending"
    BY <1>4, <1>6, <2>1 DEF OnInventoryFailed, SetStatus
  <2>2. CASE status[o] # "pending"
    BY <1>2, <1>6, <2>2 DEF OnInventoryFailed, orderVars, PurchaseMoves
  <2> QED BY <2>1, <2>2
<1>7. ASSUME NEW o \in Orders, NEW fate, OnPaymentSucceeded(o, fate)
      PROVE  PurchaseMoves
  <2>1. CASE status[o] = "reserved"
    <3>1. InFlight("payment.succeeded", o)
      BY <1>7 DEF OnPaymentSucceeded, Receive, InFlight, Pool
    <3>2. reservation[o] = "held" /\ MoneyOf[o] = "captured"
      BY <1>1, <2>1, <3>1 DEF OrderInv, Evidence, StockFollowsOrder, RefundFollowsCancel,
                              MoneyOf, Money
    <3>3. Abstract!ConfirmPaid(o)
      BY <1>2, <1>7, <2>1, <3>2
         DEF OnPaymentSucceeded, SetStatus, Abstract!ConfirmPaid, MoneyOf
    <3> QED BY <3>3 DEF PurchaseMoves
  <2>2. CASE status[o] # "reserved"
    BY <1>2, <1>7, <2>2 DEF OnPaymentSucceeded, orderVars, PurchaseMoves
  <2> QED BY <2>1, <2>2
<1>8. ASSUME NEW o \in Orders, NEW fate, OnPaymentFailed(o, fate)
      PROVE  PurchaseMoves
  <2>1. CASE status[o] = "reserved"
    BY <1>4, <1>8, <2>1 DEF OnPaymentFailed, SetStatus
  <2>2. CASE status[o] # "reserved"
    BY <1>2, <1>8, <2>2 DEF OnPaymentFailed, orderVars, PurchaseMoves
  <2> QED BY <2>1, <2>2
<1>9. ASSUME NEW o \in Orders, NEW fate, OnInventoryCommitted(o, fate)
      PROVE  PurchaseMoves
  <2>1. CASE status[o] = "paid"
    <3>1. InFlight("inventory.committed", o)
      BY <1>9 DEF OnInventoryCommitted, Receive, InFlight, Pool
    <3>2. reservation[o] = "committed"
      BY <1>1, <3>1 DEF OrderInv, Evidence
    <3>3. Abstract!Fulfil(o)
      BY <1>2, <1>9, <2>1, <3>2 DEF OnInventoryCommitted, SetStatus, Abstract!Fulfil, MoneyOf
    <3> QED BY <3>3 DEF PurchaseMoves
  <2>2. CASE status[o] # "paid"
    BY <1>2, <1>9, <2>2 DEF OnInventoryCommitted, orderVars, PurchaseMoves
  <2> QED BY <2>1, <2>2
<1>10. ASSUME NEW stuck \in SUBSET Orders, Reconcile(stuck)
       PROVE  PurchaseMoves
  <2> DEFINE unwanted == GivenUp(stuck)
  <2>1. /\ \A o \in unwanted : status[o] \in {"pending", "reserved"}
        /\ status' = [o \in Orders |-> IF o \in unwanted THEN "cancelled" ELSE status[o]]
    BY <1>10 DEF Reconcile, GivenUp, OrderStatus, Terminal
  <2>2. unwanted \in SUBSET Orders
    BY DEF GivenUp
  <2> HIDE DEF unwanted
  <2>3. Abstract!GiveUp(unwanted)
    BY <1>2, <2>1 DEF Abstract!GiveUp, MoneyOf
  <2> QED BY <2>2, <2>3 DEF PurchaseMoves
<1>11. CASE RelayOnce \/ \E sent \in SUBSET outbox : RelayInterrupted(sent)
  BY <1>2, <1>11 DEF RelayOnce, RelayInterrupted, PurchaseMoves
<1> QED BY <1>3, <1>5, <1>6, <1>7, <1>8, <1>9, <1>10, <1>11 DEF ByOrder, OrderStep

LEMMA InventoryStepMoves ==
  ASSUME IInv, ByInventory(InventoryStep)
  PROVE  PurchaseMoves
<1>1. TypeOK /\ \A o \in Orders : OrderInv(o)
  BY DEF IInv
<1>2. UNCHANGED status /\ MoneyOf' = MoneyOf
  BY LedgerKeepsMoney DEF ByInventory, orderVars, paymentVars
<1>3. ASSUME NEW o \in Orders, NEW fate, HandleOrderCreated(o, fate)
      PROVE  PurchaseMoves
  <2>1. InFlight("order.created", o)
    BY <1>3 DEF HandleOrderCreated, InFlight, Pool
  <2>2. CASE UNCHANGED inventoryVars
    BY <1>2, <2>2 DEF inventoryVars, PurchaseMoves
  <2>3. CASE reservation[o] = "none" /\ reservation' = [reservation EXCEPT ![o] = "held"]
    <3>1. status[o] \in {"pending", "cancelled"}
      BY <1>1, <2>1, <2>3
         DEF OrderInv, Evidence, StockFollowsOrder, TypeOK, OrderTypeOK, OrderStatus
    <3>2. Abstract!SetAside(o)
      BY <1>2, <2>3, <3>1 DEF Abstract!SetAside, MoneyOf
    <3> QED BY <3>2 DEF PurchaseMoves
  <2> QED BY <1>3, <2>2, <2>3 DEF HandleOrderCreated
<1>4. ASSUME NEW o \in Orders, NEW fate, HandleOrderCancelled(o, fate)
      PROVE  PurchaseMoves
  <2>1. InFlight("order.cancelled", o)
    BY <1>4 DEF HandleOrderCancelled, InFlight, Pool
  <2>2. CASE reservation[o] = "held"
    <3>1. Abstract!PutBack(o)
      BY <1>1, <1>2, <1>4, <2>1, <2>2
         DEF HandleOrderCancelled, OrderInv, Evidence, Abstract!PutBack, MoneyOf
    <3> QED BY <3>1 DEF PurchaseMoves
  <2>3. CASE reservation[o] # "held"
    BY <1>2, <1>4, <2>3 DEF HandleOrderCancelled, inventoryVars, PurchaseMoves
  <2> QED BY <2>2, <2>3
<1>5. ASSUME NEW o \in Orders, NEW fate, HandleOrderPaid(o, fate)
      PROVE  PurchaseMoves
  <2>1. InFlight("order.paid", o)
    BY <1>5 DEF HandleOrderPaid, InFlight, Pool
  <2>2. CASE reservation[o] = "held"
    <3>1. status[o] = "paid"
      BY <1>1, <2>1, <2>2 DEF OrderInv, Evidence, StockFollowsOrder
    <3>2. reservation' = [reservation EXCEPT ![o] = "committed"]
      BY <1>5, <2>2 DEF HandleOrderPaid
    <3>3. Abstract!HandOver(o)
      BY <1>2, <2>2, <3>1, <3>2 DEF Abstract!HandOver, MoneyOf
    <3> QED BY <3>3 DEF PurchaseMoves
  <2>3. CASE reservation[o] # "held"
    <3>1. reservation' = reservation
      BY <1>1, <1>5, <2>3 DEF HandleOrderPaid, TypeOK, InventoryTypeOK
    <3> QED BY <1>2, <3>1 DEF PurchaseMoves
  <2> QED BY <2>2, <2>3
<1> QED BY <1>3, <1>4, <1>5 DEF ByInventory, InventoryStep

\* Money is captured only while the order may still be, or has been, given up: a
\* charge is asked for after the stock was accepted, and a paid order has it.
LEMMA CaptureMoves ==
  ASSUME IInv, UNCHANGED <<status, reservation>>, NEW o \in Orders, payment[o] # "none",
         ledger' \in {ledger, ledger \cup {Debit(o)}}
  PROVE  PurchaseMoves
<1>1. OrderInv(o) /\ status[o] \in OrderStatus \cup {"none"}
  BY DEF IInv, TypeOK, OrderTypeOK
<1>2. CASE ledger' = ledger
  BY <1>2, LedgerKeepsMoney DEF PurchaseMoves
<1>3. CASE ledger' = ledger \cup {Debit(o)} /\ Captured(o)
  BY <1>3, LedgerKeepsMoney DEF PurchaseMoves, Captured
<1>4. CASE ledger' = ledger \cup {Debit(o)} /\ ~Captured(o)
  <2>1. status[o] \in {"reserved", "cancelled"} /\ ~Returned(o)
    BY <1>1, <1>4 DEF OrderInv, MoneyFollowsProvider, RefundFollowsCancel, OrderStatus
  <2>2. /\ \A q \in Orders : Returned(q)' <=> Returned(q)
        /\ \A q \in Orders \ {o} : Captured(q)' <=> Captured(q)
        /\ Captured(o)'
    BY <1>4, LedgerKeys DEF Captured, Returned
  <2>3. MoneyOf[o] = "kept"
    BY <1>4, <2>1 DEF MoneyOf, Money
  <2>4. MoneyOf' = [MoneyOf EXCEPT ![o] = "captured"]
    BY <2>1, <2>2 DEF MoneyOf, Money
  <2>5. Abstract!Capture(o)
    BY <2>1, <2>3, <2>4 DEF Abstract!Capture, MoneyOf
  <2> QED BY <2>5 DEF PurchaseMoves
<1> QED BY <1>2, <1>3, <1>4

LEMMA ReturnMoves ==
  ASSUME IInv, UNCHANGED <<status, reservation>>, NEW o \in Orders, refund[o] # "none",
         ledger' \in {ledger, ledger \cup {Credit(o)}}
  PROVE  PurchaseMoves
<1>1. status[o] = "cancelled" /\ Captured(o)
  BY DEF IInv, OrderInv, RefundFollowsCancel
<1>2. CASE ledger' = ledger
  BY <1>2, LedgerKeepsMoney DEF PurchaseMoves
<1>3. CASE ledger' = ledger \cup {Credit(o)} /\ Returned(o)
  BY <1>3, LedgerKeepsMoney DEF PurchaseMoves, Returned
<1>4. CASE ledger' = ledger \cup {Credit(o)} /\ ~Returned(o)
  <2>1. /\ \A q \in Orders : Captured(q)' <=> Captured(q)
        /\ \A q \in Orders \ {o} : Returned(q)' <=> Returned(q)
        /\ Returned(o)'
    BY <1>4, LedgerKeys DEF Captured, Returned
  <2>2. MoneyOf[o] = "captured"
    BY <1>1, <1>4 DEF MoneyOf, Money
  <2>3. MoneyOf' = [MoneyOf EXCEPT ![o] = "returned"]
    BY <2>1 DEF MoneyOf, Money
  <2>4. Abstract!GiveBack(o)
    BY <1>1, <2>2, <2>3 DEF Abstract!GiveBack, MoneyOf
  <2> QED BY <2>4 DEF PurchaseMoves
<1> QED BY <1>2, <1>3, <1>4

LEMMA PaymentStepMoves ==
  ASSUME IInv, ByPayment(PaymentStep)
  PROVE  PurchaseMoves
<1>1. UNCHANGED <<status, reservation>> /\ \A o \in Orders : OrderInv(o)
  BY DEF ByPayment, orderVars, inventoryVars, IInv
<1>2. ASSUME UNCHANGED ledger
      PROVE  PurchaseMoves
  BY <1>1, <1>2, LedgerKeepsMoney DEF PurchaseMoves
<1>3. ASSUME NEW o \in Orders, NEW fate, ChargeFinish(o, fate)
      PROVE  PurchaseMoves
  <2>1. payment[o] # "none"
    BY <1>1, <1>3 DEF ChargeFinish, OrderInv, MoneyFollowsProvider
  <2>2. ledger' \in {ledger, ledger \cup {Debit(o)}}
    BY <1>3 DEF ChargeFinish, WritePayment
  <2> QED BY <1>1, <2>1, <2>2, CaptureMoves
<1>4. ASSUME NEW o \in Orders, ResolvePayment(o)
      PROVE  PurchaseMoves
  <2>1. payment[o] # "none"
    BY <1>1, <1>4 DEF ResolvePayment, OrderInv, MoneyFollowsProvider
  <2>2. ledger' \in {ledger, ledger \cup {Debit(o)}}
    BY <1>4 DEF ResolvePayment, WritePayment
  <2> QED BY <1>1, <2>1, <2>2, CaptureMoves
<1>5. ASSUME NEW o \in Orders, ResolveRefund(o) \/ \E fate \in Fates : RefundFinish(o, fate)
      PROVE  PurchaseMoves
  <2>1. refund[o] # "none"
    BY <1>1, <1>5 DEF ResolveRefund, RefundFinish, OrderInv, RefundFollowsCancel
  <2>2. ledger' \in {ledger, ledger \cup {Credit(o)}}
    BY <1>5 DEF ResolveRefund, RefundFinish, WriteRefund
  <2> QED BY <1>1, <2>1, <2>2, ReturnMoves
<1>6. ASSUME NEW o \in Orders,
             \/ ChargeBegin(o) \/ ChargeCrash(o) \/ \E fate \in Fates : ChargeReplay(o, fate)
             \/ ListPayment(o) \/ \E fate \in {"acked", "unmarked"} : ReportPayment(o, fate)
             \/ RefundBegin(o) \/ \E fate \in {"acked", "unacked"} : RefundSkip(o, fate)
             \/ RefundClash(o) \/ \E called \in BOOLEAN : RefundCrash(o, called)
             \/ ListRefund(o)  \/ ReportRefund(o)
      PROVE  UNCHANGED ledger
  BY <1>6 DEF ChargeBegin, ChargeCrash, ChargeReplay, ListPayment, ReportPayment, RefundBegin,
              RefundSkip, RefundClash, RefundCrash, ListRefund, ReportRefund, paymentVars
<1> QED BY <1>2, <1>3, <1>4, <1>5, <1>6 DEF ByPayment, PaymentStep

LEMMA NextMoves == IInv /\ [Next]_vars => [Abstract!Next]_Abstract!purchaseVars
<1> SUFFICES ASSUME IInv, [Next]_vars PROVE PurchaseMoves
  BY Moves
<1>1. CASE ByBus(BusStep) \/ UNCHANGED vars
  <2>1. UNCHANGED <<status, reservation, ledger>>
    BY <1>1 DEF ByBus, vars, orderVars, inventoryVars, paymentVars
  <2> QED BY <2>1, LedgerKeepsMoney DEF PurchaseMoves
<1> QED BY <1>1, OrderStepMoves, InventoryStepMoves, PaymentStepMoves DEF Next

LEMMA InitMoves == Init => Abstract!Init
<1> SUFFICES ASSUME Init PROVE Abstract!Init
  OBVIOUS
<1>1. \A o \in Orders : Money(o) = "kept"
  BY DEF Init, PaymentInit, Money, Captured, Returned
<1> QED BY <1>1 DEF Init, OrderInit, InventoryInit, Abstract!Init

\* The three services together are a purchase: whatever the bus and the
\* processes do, each order, its goods and its money move as Purchase allows.
THEOREM SagaImplementsPurchase == Spec => ImplementsPurchase
BY InitMoves, NextMoves, SagaInv, PTL DEF Spec, ImplementsPurchase, Abstract!Spec
=============================================================================
