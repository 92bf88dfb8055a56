---------------------------- MODULE SagaBalances ----------------------------
(***************************************************************************)
(* What adds up in the saga: the units of every product, and the money of  *)
(* an order that was captured too late.  Units are counted one by one, as  *)
(* pairs of an order and a number, so that a sum over orders is the        *)
(* cardinality of a set and a step adds or takes away a block of them.     *)
(***************************************************************************)
EXTENDS SagaProofs, FiniteSetTheorems

-----------------------------------------------------------------------------
(* Conservation of stock. *)

Units(o, p) == {o} \X (1 .. Demand[o][p])

\* Finitely many units are taken, and they are what the shelf lacks.
Balanced(p) ==
  /\ IsFiniteSet(TakenUnits(p))
  /\ stock[p] + Cardinality(TakenUnits(p)) = InitialStock[p]

LEMMA CountUnits ==
  ASSUME NEW o \in Orders, NEW p \in Products
  PROVE  /\ IsFiniteSet(Units(o, p))
         /\ Cardinality(Units(o, p)) = Demand[o][p]
<1>1. Demand[o][p] \in Nat
  BY StockAssumption
<1>2. IsFiniteSet(1 .. Demand[o][p]) /\ Cardinality(1 .. Demand[o][p]) = Demand[o][p]
  <2>1. 1 \in Int /\ Demand[o][p] \in Int
    BY <1>1, SMT
  <2>2. /\ IsFiniteSet(1 .. Demand[o][p])
        /\ Cardinality(1 .. Demand[o][p]) = IF 1 > Demand[o][p] THEN 0 ELSE Demand[o][p] - 1 + 1
    BY <2>1, FS_Interval, Zenon
  <2>. QED  BY <1>1, <2>2, SMT
<1>3. IsFiniteSet({o}) /\ Cardinality({o}) = 1
  BY FS_Singleton
<1>4. /\ IsFiniteSet(Units(o, p))
      /\ Cardinality(Units(o, p)) = Cardinality({o}) * Cardinality(1 .. Demand[o][p])
  BY <1>2, <1>3, FS_Product DEF Units
<1>. QED  BY <1>1, <1>2, <1>3, <1>4, SMT

\* An order that takes its units from the shelf, or puts them back, keeps the balance.
LEMMA UnitsMove ==
  ASSUME NEW o \in Orders, NEW p \in Products, Balanced(p), stock[p] \in Nat,
         \/ /\ o \notin Holders /\ Holders' = Holders \cup {o}
            /\ stock'[p] = stock[p] - Demand[o][p]
         \/ /\ o \in Holders /\ Holders' = Holders \ {o}
            /\ stock'[p] = stock[p] + Demand[o][p]
  PROVE  Balanced(p)'
<1>1. /\ IsFiniteSet(TakenUnits(p)) /\ Cardinality(TakenUnits(p)) \in Nat
      /\ stock[p] + Cardinality(TakenUnits(p)) = InitialStock[p]
  BY FS_CardinalityType DEF Balanced
<1>2. /\ IsFiniteSet(Units(o, p)) /\ Cardinality(Units(o, p)) = Demand[o][p]
      /\ Demand[o][p] \in Nat
  BY CountUnits, StockAssumption
<1>3. CASE o \notin Holders /\ Holders' = Holders \cup {o} /\ stock'[p] = stock[p] - Demand[o][p]
  <2>1. TakenUnits(p)' = TakenUnits(p) \cup Units(o, p)
    BY <1>3 DEF TakenUnits, Units
  <2>2. TakenUnits(p) \cap Units(o, p) = {}
    BY <1>3 DEF TakenUnits, Units
  <2>3. /\ IsFiniteSet(TakenUnits(p)')
        /\ Cardinality(TakenUnits(p)') = Cardinality(TakenUnits(p)) + Demand[o][p]
    <3>1. /\ IsFiniteSet(TakenUnits(p) \cup Units(o, p))
          /\ Cardinality(TakenUnits(p) \cup Units(o, p)) =
               Cardinality(TakenUnits(p)) + Cardinality(Units(o, p))
                 - Cardinality(TakenUnits(p) \cap Units(o, p))
      BY <1>1, <1>2, FS_Union
    <3>2. Cardinality(TakenUnits(p) \cap Units(o, p)) = 0
      BY <2>2, FS_EmptySet
    <3>. QED  BY <1>1, <1>2, <2>1, <3>1, <3>2, SMT
  <2>. QED  BY <1>1, <1>2, <1>3, <2>3, SMT DEF Balanced
<1>4. CASE o \in Holders /\ Holders' = Holders \ {o} /\ stock'[p] = stock[p] + Demand[o][p]
  <2>1. TakenUnits(p)' = TakenUnits(p) \ Units(o, p)
    BY <1>4 DEF TakenUnits, Units
  <2>2. TakenUnits(p) \cap Units(o, p) = Units(o, p)
    BY <1>4 DEF TakenUnits, Units
  <2>3. /\ IsFiniteSet(TakenUnits(p)')
        /\ Cardinality(TakenUnits(p)') = Cardinality(TakenUnits(p)) - Demand[o][p]
    <3>1. /\ IsFiniteSet(TakenUnits(p) \ Units(o, p))
          /\ Cardinality(TakenUnits(p) \ Units(o, p)) =
               Cardinality(TakenUnits(p)) - Cardinality(TakenUnits(p) \cap Units(o, p))
      BY <1>1, FS_Difference
    <3>2. Cardinality(TakenUnits(p) \cap Units(o, p)) = Demand[o][p]
      BY <1>2, <2>2
    <3>. QED  BY <1>1, <1>2, <2>1, <3>1, <3>2, SMT
  <2>. QED  BY <1>1, <1>2, <1>4, <2>3, SMT DEF Balanced
<1>. QED  BY <1>3, <1>4

LEMMA UnitsRest ==
  ASSUME NEW p \in Products, Balanced(p), stock'[p] = stock[p], Holders' = Holders
  PROVE  Balanced(p)'
BY DEF Balanced, TakenUnits

BalanceInv == TypeOK /\ \A p \in Products : Balanced(p)

LEMMA InitBalance == Init => BalanceInv
<1> SUFFICES ASSUME Init PROVE BalanceInv
  OBVIOUS
<1>1. TypeOK
  BY InitType
<1>2. ASSUME NEW p \in Products PROVE Balanced(p)
  <2>1. Holders = {}
    BY DEF Init, InventoryInit, Holders
  <2>2. TakenUnits(p) = {}
    BY <2>1 DEF TakenUnits
  <2>3. stock[p] = InitialStock[p] /\ InitialStock[p] \in Nat
    BY StockAssumption DEF Init, InventoryInit
  <2>. QED  BY <2>2, <2>3, FS_EmptySet, SMT DEF Balanced
<1>. QED  BY <1>1, <1>2 DEF BalanceInv

LEMMA InventoryBalance ==
  ASSUME BalanceInv, InventoryStep, NEW p \in Products
  PROVE  Balanced(p)'
<1>1. /\ Balanced(p) /\ stock[p] \in Nat
      /\ \A o \in Orders : reservation[o] \in ReservationStatus \cup {"none"}
      /\ DOMAIN reservation = Orders
  BY DEF BalanceInv, TypeOK, InventoryTypeOK
<1>2. ASSUME NEW o \in Orders, NEW fate, HandleOrderCreated(o, fate)
      PROVE  Balanced(p)'
  <2>1. CASE UNCHANGED inventoryVars
    BY <1>1, <2>1, UnitsRest DEF inventoryVars, Holders
  <2>2. CASE /\ reservation[o] = "none"
             /\ stock' = [q \in Products |-> stock[q] - Demand[o][q]]
             /\ reservation' = [reservation EXCEPT ![o] = "held"]
    <3>1. o \notin Holders /\ Holders' = Holders \cup {o}
      BY <1>1, <2>2 DEF Holders
    <3>2. stock'[p] = stock[p] - Demand[o][p]
      BY <2>2
    <3>. QED  BY <1>1, <3>1, <3>2, UnitsMove
  <2>. QED  BY <1>2, <2>1, <2>2 DEF HandleOrderCreated
<1>3. ASSUME NEW o \in Orders, NEW fate, HandleOrderCancelled(o, fate)
      PROVE  Balanced(p)'
  <2>1. CASE UNCHANGED inventoryVars
    BY <1>1, <2>1, UnitsRest DEF inventoryVars, Holders
  <2>2. CASE /\ reservation[o] = "held"
             /\ stock' = [q \in Products |-> stock[q] + Demand[o][q]]
             /\ reservation' = [reservation EXCEPT ![o] = "released"]
    <3>1. o \in Holders /\ Holders' = Holders \ {o}
      BY <1>1, <2>2 DEF Holders
    <3>2. stock'[p] = stock[p] + Demand[o][p]
      BY <2>2
    <3>. QED  BY <1>1, <3>1, <3>2, UnitsMove
  <2>. QED  BY <1>3, <2>1, <2>2 DEF HandleOrderCancelled
<1>4. ASSUME NEW o \in Orders, NEW fate, HandleOrderPaid(o, fate)
      PROVE  Balanced(p)'
  <2>1. stock' = stock /\ Holders' = Holders
    BY <1>1, <1>4 DEF HandleOrderPaid, Holders
  <2>. QED  BY <1>1, <2>1, UnitsRest
<1>. QED  BY <1>2, <1>3, <1>4 DEF InventoryStep

LEMMA NextBalance == BalanceInv /\ [Next]_vars => BalanceInv'
<1> SUFFICES ASSUME BalanceInv, [Next]_vars PROVE BalanceInv'
  OBVIOUS
<1>1. TypeOK'
  BY NextType DEF BalanceInv
<1>2. ASSUME NEW p \in Products PROVE Balanced(p)'
  <2>1. CASE ByInventory(InventoryStep)
    BY <2>1, InventoryBalance DEF ByInventory
  <2>2. CASE UNCHANGED inventoryVars
    BY <2>2, UnitsRest DEF BalanceInv, inventoryVars, Holders
  <2>. QED  BY <2>1, <2>2 DEF Next, ByOrder, ByPayment, ByBus, vars
<1>. QED  BY <1>1, <1>2 DEF BalanceInv

\* Units on the shelf and units taken add up to what there was, whatever is
\* delivered twice and whichever order gets the last unit.
THEOREM StockIsConserved == Spec => []StockConserved
<1>1. BalanceInv => StockConserved
  BY DEF BalanceInv, Balanced, StockConserved
<1>. QED  BY <1>1, InitBalance, NextBalance, PTL DEF Spec

-----------------------------------------------------------------------------
(* Money captured for a cancelled order.  A session that charges after its *)
(* client timed out may write over the row another session has resolved    *)
(* (stale rows), and what is owed is then forgotten: so this speaks of the *)
(* orders whose charge is answered in time, and of all of them where the   *)
(* locking read refreshes the row (ChargeAnswered).                        *)

\* What remembers a charge: the order took it, or a refund was attempted or asked
\* for, or its outcome is still to be told.
Remembered(o) ==
  \/ status[o] \in {"paid", "fulfilled"}
  \/ refund[o] # "none"
  \/ InFlight("refund.requested", o)
  \/ InFlight("payment.succeeded", o)
  \/ o \notin reported

\* The row of a captured payment never goes back to an open status.
RowKeepsCharge(o) ==
  /\ Captured(o) => payment[o] \in {"succeeded", "refunded"}
  /\ payment[o] = "refunded" => refund[o] # "none"
  /\ o \in reported => Captured(o) \/ LookupAnswer(o) = "failure"

ChargeKept(o) == RowKeepsCharge(o) /\ (Captured(o) => Remembered(o))

LateInv == IInv /\ \A o \in Orders : ChargeAnswered(o) => ChargeKept(o)

\* A message leaves the pool only when it is the one acknowledged, and replies
\* that were published are in it.
LEMMA DeliveryKeeps ==
  ASSUME NEW o, NEW type, NEW replies, NEW fate,
         Consume(Event(type, o), replies, fate), outbox \subseteq outbox'
  PROVE  /\ \A t, q : InFlight(t, q) /\ (t # type \/ q # o) => InFlight(t, q)'
         /\ fate # "unpublished" => replies \subseteq Pool'
<1>1. /\ Pool \ {Event(type, o)} \subseteq Pool'
      /\ fate # "unpublished" => replies \subseteq Pool'
  BY DEF Consume, Pool
<1>. QED  BY <1>1, EventInjective DEF InFlight

\* Rows and messages of an order a step does not touch.
LEMMA ChargeRests ==
  ASSUME NEW q \in Orders, ChargeKept(q),
         provider'[q] = provider[q], payment'[q] = payment[q], Captured(q)' <=> Captured(q),
         refund'[q] = refund[q], q \in reported' => q \in reported,
         status[q] \in {"paid", "fulfilled"} => status'[q] \in {"paid", "fulfilled"},
         InFlight("refund.requested", q) => InFlight("refund.requested", q)',
         InFlight("payment.succeeded", q) =>
            \/ InFlight("payment.succeeded", q)'
            \/ Captured(q) => \/ InFlight("refund.requested", q)'
                              \/ status'[q] \in {"paid", "fulfilled"}
  PROVE  ChargeKept(q)'
<1>1. RowKeepsCharge(q)'
  BY DEF ChargeKept, RowKeepsCharge, LookupAnswer
<1>2. Captured(q)' => Remembered(q)'
  BY DEF ChargeKept, Remembered
<1>. QED  BY <1>1, <1>2 DEF ChargeKept

\* The Order service drops payment.succeeded only when it has taken the charge,
\* and asks for the refund when it has given the order up.
LEMMA SucceededIsHeeded ==
  ASSUME NEW o \in Orders, NEW fate, TypeOK, OrderInv(o), ChargeKept(o), Captured(o),
         OnPaymentSucceeded(o, fate)
  PROVE  InFlight("refund.requested", o)' \/ status'[o] \in {"paid", "fulfilled"}
<1>1. status[o] \notin {"none", "pending"}
  BY DEF OrderInv, MoneyFollowsProvider, ChargeKept, RowKeepsCharge
<1>2. CASE Enqueue({Event("refund.requested", o)})
  BY <1>2 DEF Enqueue, InFlight, Pool
<1>3. CASE SetStatus(o, "paid", {Event("order.paid", o)})
  BY <1>3 DEF SetStatus, TypeOK, OrderTypeOK
<1>4. CASE status[o] \notin {"cancelled", "reserved"} /\ UNCHANGED orderVars
  BY <1>1, <1>4 DEF orderVars, TypeOK, OrderTypeOK, OrderStatus
<1>. QED  BY <1>2, <1>3, <1>4 DEF OnPaymentSucceeded

LEMMA OrderStepKeepsCharge ==
  ASSUME LateInv, ByOrder(OrderStep), NEW q \in Orders, ChargeAnswered(q)
  PROVE  ChargeKept(q)'
<1>1. /\ TypeOK /\ (\A o \in Orders : OrderInv(o)) /\ ChargeKept(q)
      /\ provider'[q] = provider[q] /\ payment'[q] = payment[q] /\ refund'[q] = refund[q]
      /\ Captured(q)' <=> Captured(q)
      /\ reported' = reported
  BY DEF LateInv, IInv, ByOrder, paymentVars, Captured
<1>2. ASSUME NEW o \in Orders, NEW type, NEW fate, Receive(type, o, fate),
             outbox \subseteq outbox',
             \A r \in Orders : status[r] \in {"paid", "fulfilled"} =>
                                 status'[r] \in {"paid", "fulfilled"},
             type \in OrderEvents, type = "payment.succeeded" => OnPaymentSucceeded(o, fate)
      PROVE  ChargeKept(q)'
  <2>1. \A t, r : InFlight(t, r) /\ (t # type \/ r # o) => InFlight(t, r)'
    BY <1>2, DeliveryKeeps DEF Receive
  <2>2. InFlight("refund.requested", q) => InFlight("refund.requested", q)'
    BY <1>2, <2>1 DEF OrderEvents
  <2>3. \/ InFlight("payment.succeeded", q) => InFlight("payment.succeeded", q)'
        \/ Captured(q) => InFlight("refund.requested", q)' \/ status'[q] \in {"paid", "fulfilled"}
    <3>1. CASE type = "payment.succeeded" /\ o = q
      BY <1>1, <1>2, <3>1, SucceededIsHeeded
    <3>2. CASE type # "payment.succeeded" \/ o # q
      BY <2>1, <3>2
    <3>. QED  BY <3>1, <3>2
  <2>. QED  BY <1>1, <1>2, <2>2, <2>3, ChargeRests
<1>3. ASSUME NEW o \in Orders, NEW fate,
             \/ OnInventoryReserved(o, fate) \/ OnInventoryFailed(o, fate)
             \/ OnPaymentSucceeded(o, fate)  \/ OnPaymentFailed(o, fate)
             \/ OnInventoryCommitted(o, fate)
      PROVE  ChargeKept(q)'
  <2>1. /\ outbox \subseteq outbox'
        /\ \A r \in Orders : status[r] \in {"paid", "fulfilled"} =>
                               status'[r] \in {"paid", "fulfilled"}
    BY <1>1, <1>3 DEF OnInventoryReserved, OnInventoryFailed, OnPaymentSucceeded,
       OnPaymentFailed, OnInventoryCommitted, SetStatus, Enqueue, orderVars, TypeOK, OrderTypeOK
  <2>2. \E type \in OrderEvents :
          Receive(type, o, fate) /\ (type = "payment.succeeded" => OnPaymentSucceeded(o, fate))
    BY <1>3 DEF OnInventoryReserved, OnInventoryFailed, OnPaymentSucceeded,
       OnPaymentFailed, OnInventoryCommitted, OrderEvents
  <2>. QED  BY <1>2, <2>1, <2>2
<1>4. ASSUME Pool \subseteq Pool' \cup {m \in Message : m.type \in ReadSideEvents},
             status[q] \in {"paid", "fulfilled"} => status'[q] \in {"paid", "fulfilled"}
      PROVE  ChargeKept(q)'
  <2>1. /\ InFlight("refund.requested", q) => InFlight("refund.requested", q)'
        /\ InFlight("payment.succeeded", q) => InFlight("payment.succeeded", q)'
    BY <1>4 DEF InFlight, Event, ReadSideEvents
  <2>. QED  BY <1>1, <1>4, <2>1, ChargeRests
<1>5. ASSUME NEW o \in Orders, CreateOrder(o)
      PROVE  ChargeKept(q)'
  <2>1. Pool \subseteq Pool'
    BY <1>5 DEF CreateOrder, SetStatus, Enqueue, busVars, Pool
  <2>2. status[q] \in {"paid", "fulfilled"} => status'[q] \in {"paid", "fulfilled"}
    BY <1>1, <1>5 DEF CreateOrder, SetStatus, TypeOK, OrderTypeOK
  <2>. QED  BY <1>4, <2>1, <2>2
<1>6. ASSUME NEW stuck \in SUBSET Orders, Reconcile(stuck)
      PROVE  ChargeKept(q)'
  <2>1. Pool \subseteq Pool'
    BY <1>6 DEF Reconcile, Enqueue, busVars, Pool
  <2>2. status[q] \in {"paid", "fulfilled"} => status'[q] \in {"paid", "fulfilled"}
    BY <1>1, <1>6 DEF Reconcile, GivenUp, Terminal
  <2>. QED  BY <1>4, <2>1, <2>2
<1>7. CASE RelayOnce \/ \E sent \in SUBSET outbox : RelayInterrupted(sent)
  <2>1. Pool \subseteq Pool' \cup {m \in Message : m.type \in ReadSideEvents}
    BY <1>1, <1>7 DEF RelayOnce, RelayInterrupted, Pool, Routed, TypeOK, OrderTypeOK, Message
  <2>2. status' = status
    BY <1>7 DEF RelayOnce, RelayInterrupted
  <2>. QED  BY <1>4, <2>1, <2>2
<1>. QED  BY <1>3, <1>5, <1>6, <1>7 DEF ByOrder, OrderStep

LEMMA InventoryStepKeepsCharge ==
  ASSUME LateInv, ByInventory(InventoryStep), NEW q \in Orders, ChargeAnswered(q)
  PROVE  ChargeKept(q)'
<1>1. /\ ChargeKept(q) /\ UNCHANGED <<status, outbox, paymentVars>>
      /\ Captured(q)' <=> Captured(q)
  BY DEF LateInv, ByInventory, orderVars, paymentVars, Captured
<1>2. PICK o \in Orders, type \in InventoryEvents :
        \E fate, replies : Consume(Event(type, o), replies, fate)
  BY DEF ByInventory, InventoryStep, HandleOrderCreated, HandleOrderCancelled, HandleOrderPaid,
         InventoryEvents
<1>3. \A t : InFlight(t, q) /\ t \notin InventoryEvents => InFlight(t, q)'
  BY <1>1, <1>2, DeliveryKeeps
<1>. QED  BY <1>1, <1>3, ChargeRests DEF InventoryEvents, paymentVars

-----------------------------------------------------------------------------
(* Steps of the Payment service. *)

\* What a session writes over the row: an open or failed status only when nothing
\* was captured.
LEMMA WriteKeepsCharge ==
  ASSUME NEW o \in Orders, NEW held \in Unresolved, NEW answer, ChargeAnswered(o),
         TypeOK, OrderInv(o), ChargeKept(o), payment[o] # "none",
         WritePayment(o, held, answer),
         answer \in {"success", "failure"} => answer = LookupAnswer(o),
         answer \in {"success", "failure"} \/ provider[o].charge = "timeout"
  PROVE  /\ Captured(o)' => payment'[o] \in {"succeeded", "refunded"}
         /\ payment'[o] = "refunded" => payment[o] = "refunded"
         /\ Captured(o) => Captured(o)'
<1>1. /\ payment'[o] = ChargedStatus(o, held, answer)
      /\ Captured(o) => Captured(o)'
      /\ Captured(o)' => Captured(o) \/ (answer = "success" /\ SeenPayment(o, held) \in Unresolved)
  BY LedgerKeys DEF WritePayment, Captured, TypeOK, PaymentTypeOK
<1>2. Captured(o) => payment[o] \in {"succeeded", "refunded"} /\ LookupAnswer(o) = "success"
  BY DEF ChargeKept, RowKeepsCharge, OrderInv, MoneyFollowsProvider
<1>3. PopulateExisting \/ answer \in {"success", "failure"}
  BY DEF ChargeAnswered
<1>. QED  BY <1>1, <1>2, <1>3 DEF ChargedStatus, SeenPayment, Unresolved

\* The outcome is marked as reported only when it has been published.
LEMMA ReportIsPublished ==
  ASSUME NEW o \in Orders, NEW st, NEW fate, MarkReported(o, st, fate),
         fate \in {"acked", "unacked"} => Outcome(o, st) \subseteq Pool',
         st = "failed" => LookupAnswer(o) = "failure", LookupAnswer(o)' = LookupAnswer(o),
         st = "succeeded" => Captured(o)', Captured(o)' => LookupAnswer(o) = "success",
         ChargeKept(o), Captured(o) => Captured(o)',
         refund[o] # "none" => refund'[o] # "none",
         status'[o] = status[o],
         InFlight("refund.requested", o) => InFlight("refund.requested", o)',
         InFlight("payment.succeeded", o) => InFlight("payment.succeeded", o)'
  PROVE  /\ o \in reported' => Captured(o)' \/ LookupAnswer(o)' = "failure"
         /\ Captured(o)' => Remembered(o)'
<1>1. CASE o \in reported' /\ o \notin reported
  <2>1. Outcome(o, st) # {} /\ fate \in {"acked", "unacked"}
    BY <1>1 DEF MarkReported
  <2>2. CASE st = "succeeded"
    <3>1. InFlight("payment.succeeded", o)'
      BY <2>1, <2>2 DEF Outcome, InFlight
    <3>. QED  BY <2>2, <3>1 DEF Remembered
  <2>3. CASE st = "failed"
    BY <2>3
  <2>. QED  BY <2>1, <2>2, <2>3 DEF Outcome
<1>2. CASE o \in reported
  BY <1>2 DEF ChargeKept, RowKeepsCharge, Remembered
<1>3. CASE o \notin reported'
  BY <1>3 DEF Remembered
<1>. QED  BY <1>1, <1>2, <1>3

\* The order a payment step is about.
ChargeRow(o) ==
  /\ TypeOK
  /\ OrderInv(o) /\ OrderInv(o)'
  /\ ChargeKept(o)
  /\ MoneyRow(o)
  /\ UNCHANGED outbox

LEMMA ChargeFinishKeeps ==
  ASSUME NEW o \in Orders, NEW fate, ChargeAnswered(o), ChargeRow(o), ChargeFinish(o, fate)
  PROVE  ChargeKept(o)'
<1>. DEFINE st == ChargedStatus(o, "pending", ChargeAnswer(o))
<1>1. /\ WritePayment(o, "pending", ChargeAnswer(o))
      /\ Consume(Event("charge.requested", o), Outcome(o, st), fate)
      /\ MarkReported(o, st, fate)
      /\ provider' = provider /\ refund' = refund /\ status'[o] = status[o]
      /\ payment[o] # "none"
  BY DEF ChargeFinish, refundVars, ChargeRow, MoneyRow, SameOrder, OrderInv, MoneyFollowsProvider
<1>2. /\ ChargeAnswer(o) \in {"success", "failure"} => ChargeAnswer(o) = LookupAnswer(o)
      /\ ChargeAnswer(o) \in {"success", "failure"} \/ provider[o].charge = "timeout"
  BY DEF ChargeAnswer, LookupAnswer, ChargeRow, TypeOK, PaymentTypeOK, Script
<1>3. payment'[o] = st
  BY <1>1 DEF WritePayment, ChargeRow, TypeOK, PaymentTypeOK
<1>. HIDE DEF st
<1>4. /\ Captured(o)' => payment'[o] \in {"succeeded", "refunded"}
      /\ payment'[o] = "refunded" => payment[o] = "refunded"
      /\ Captured(o) => Captured(o)'
  BY <1>1, <1>2, WriteKeepsCharge DEF ChargeRow, Unresolved
<1>5. /\ InFlight("refund.requested", o) => InFlight("refund.requested", o)'
      /\ InFlight("payment.succeeded", o) => InFlight("payment.succeeded", o)'
      /\ fate \in {"acked", "unacked"} => Outcome(o, st) \subseteq Pool'
  BY <1>1, DeliveryKeeps DEF ChargeRow
<1>6. LookupAnswer(o)' = LookupAnswer(o)
  BY <1>1 DEF LookupAnswer
<1>7. /\ st = "failed" => LookupAnswer(o) = "failure"
      /\ st = "succeeded" => Captured(o)'
      /\ Captured(o)' => LookupAnswer(o) = "success"
  BY <1>3, <1>6 DEF ChargeRow, OrderInv, MoneyFollowsProvider
<1>8. /\ o \in reported' => Captured(o)' \/ LookupAnswer(o)' = "failure"
      /\ Captured(o)' => Remembered(o)'
  BY <1>1, <1>4, <1>5, <1>6, <1>7, ReportIsPublished DEF ChargeRow
<1>. QED  BY <1>1, <1>4, <1>8 DEF ChargeRow, ChargeKept, RowKeepsCharge

\* The outcome is told again.
LEMMA TellingKeeps ==
  ASSUME NEW o \in Orders, NEW fate, ChargeRow(o),
         ChargeReplay(o, fate) \/ (ReportPayment(o, fate) /\ fate \in {"acked", "unmarked"})
  PROVE  ChargeKept(o)'
<1>1. /\ MarkReported(o, payment[o], fate)
      /\ provider' = provider /\ payment' = payment /\ ledger' = ledger /\ refund' = refund
      /\ status'[o] = status[o]
  BY DEF ChargeReplay, ReportPayment, refundVars, ChargeRow, MoneyRow, SameOrder
<1>2. /\ InFlight("refund.requested", o) => InFlight("refund.requested", o)'
      /\ InFlight("payment.succeeded", o) => InFlight("payment.succeeded", o)'
      /\ fate \in {"acked", "unacked"} => Outcome(o, payment[o]) \subseteq Pool'
  <2>1. CASE ChargeReplay(o, fate)
    BY <2>1, DeliveryKeeps DEF ChargeReplay, ChargeRow
  <2>2. CASE ReportPayment(o, fate)
    BY <2>2 DEF ReportPayment, ChargeRow, InFlight, Pool
  <2>. QED  BY <2>1, <2>2
<1>3. LookupAnswer(o)' = LookupAnswer(o) /\ (Captured(o)' <=> Captured(o))
  BY <1>1 DEF LookupAnswer, Captured
<1>4. /\ payment[o] = "failed" => LookupAnswer(o) = "failure"
      /\ payment[o] = "succeeded" => Captured(o)'
      /\ Captured(o)' => LookupAnswer(o) = "success"
  BY <1>3 DEF ChargeRow, OrderInv, MoneyFollowsProvider
<1>5. /\ o \in reported' => Captured(o)' \/ LookupAnswer(o)' = "failure"
      /\ Captured(o)' => Remembered(o)'
  BY <1>1, <1>2, <1>3, <1>4, ReportIsPublished DEF ChargeRow
<1>. QED  BY <1>1, <1>3, <1>5 DEF ChargeRow, ChargeKept, RowKeepsCharge

LEMMA ResolveKeeps ==
  ASSUME NEW o \in Orders, ChargeAnswered(o), ChargeRow(o), ResolvePayment(o)
  PROVE  ChargeKept(o)'
<1>1. /\ WritePayment(o, listed[o], LookupAnswer(o))
      /\ listed[o] \in Unresolved /\ payment[o] # "none"
      /\ provider' = provider /\ refund' = refund /\ reported' = reported
      /\ status'[o] = status[o]
  BY DEF ResolvePayment, refundVars, ChargeRow, TypeOK, PaymentTypeOK, MoneyRow, SameOrder,
         OrderInv, MoneyFollowsProvider
<1>2. LookupAnswer(o) \in {"success", "failure"} \/ provider[o].charge = "timeout"
  BY DEF LookupAnswer, ChargeRow, TypeOK, PaymentTypeOK, Script
<1>3. /\ Captured(o)' => payment'[o] \in {"succeeded", "refunded"}
      /\ payment'[o] = "refunded" => payment[o] = "refunded"
      /\ Captured(o) => Captured(o)'
  BY <1>1, <1>2, WriteKeepsCharge DEF ChargeRow
<1>4. \A t : InFlight(t, o)' <=> InFlight(t, o)
  BY DEF ResolvePayment, busVars, ChargeRow, InFlight, Pool
<1>5. LookupAnswer(o)' = LookupAnswer(o)
  BY <1>1 DEF LookupAnswer
<1>6. Captured(o)' => LookupAnswer(o) = "success"
  BY <1>5 DEF ChargeRow, OrderInv, MoneyFollowsProvider
<1>. QED  BY <1>1, <1>3, <1>4, <1>5, <1>6 DEF ChargeRow, ChargeKept, RowKeepsCharge, Remembered

\* A refund is skipped only when there is one already.
LEMMA RefundStepsKeep ==
  ASSUME NEW o \in Orders, ChargeRow(o),
         \/ RefundBegin(o)
         \/ \E fate : RefundSkip(o, fate) \/ RefundFinish(o, fate)
         \/ ResolveRefund(o)
  PROVE  ChargeKept(o)'
<1>1. /\ provider' = provider /\ reported' = reported
      /\ payment'[o] \in {payment[o], "refunded"}
      /\ payment'[o] = "refunded" => payment[o] = "refunded" \/ refund'[o] # "none"
      /\ Captured(o)' <=> Captured(o)
  BY LedgerKeys
     DEF RefundBegin, RefundSkip, RefundFinish, ResolveRefund, WriteRefund, RefundedStatus,
         Captured, chargeVars, paymentVars, ChargeRow, TypeOK, PaymentTypeOK, OrderInv,
         RefundFollowsCancel
<1>2. LookupAnswer(o)' = LookupAnswer(o)
  BY <1>1 DEF LookupAnswer
<1>3. refund[o] # "none" => refund'[o] # "none"
  BY DEF RefundBegin, RefundSkip, RefundFinish, ResolveRefund, WriteRefund, RefundedStatus,
         paymentVars, ChargeRow, TypeOK, PaymentTypeOK
<1>4. Captured(o) => refund'[o] # "none"
  BY <1>3
     DEF RefundBegin, RefundSkip, RefundFinish, ResolveRefund, paymentVars, ChargeRow,
         TypeOK, PaymentTypeOK, ChargeKept, RowKeepsCharge, OrderInv, RefundFollowsCancel
<1>. QED  BY <1>1, <1>2, <1>3, <1>4 DEF ChargeRow, ChargeKept, RowKeepsCharge, Remembered

LEMMA SessionsKeep ==
  ASSUME NEW o \in Orders, ChargeRow(o),
         \/ ChargeBegin(o)
         \/ ChargeCrash(o)
         \/ ListPayment(o)
         \/ RefundClash(o)
         \/ \E called \in BOOLEAN : RefundCrash(o, called)
         \/ ListRefund(o)
         \/ ReportRefund(o)
  PROVE  ChargeKept(o)'
<1>1. /\ UNCHANGED <<provider, ledger, reported, refund, queued, dead, outbox>>
      /\ \/ payment'[o] = payment[o]
         \/ payment[o] = "none" /\ payment'[o] = "pending"
      /\ status'[o] = status[o]
  BY DEF ChargeBegin, ChargeCrash, ListPayment, RefundClash, RefundCrash, ListRefund,
         ReportRefund, busVars, chargeVars, refundVars, ChargeRow, TypeOK, PaymentTypeOK,
         MoneyRow, SameOrder
<1>2. /\ \A t : InFlight(t, o)' <=> InFlight(t, o)
      /\ LookupAnswer(o)' = LookupAnswer(o)
      /\ Captured(o)' <=> Captured(o)
  BY <1>1 DEF InFlight, Pool, LookupAnswer, Captured
<1>. QED  BY <1>1, <1>2 DEF ChargeRow, ChargeKept, RowKeepsCharge, Remembered

LEMMA PaymentStepKeepsCharge ==
  ASSUME LateInv, ByPayment(PaymentStep), NEW q \in Orders, ChargeAnswered(q)
  PROVE  ChargeKept(q)'
<1>1. /\ IInv /\ TypeOK /\ ChargeKept(q)
      /\ UNCHANGED <<outbox, status>>
  BY DEF LateInv, IInv, ByPayment, orderVars
<1>2. PICK o \in Orders :
        PaymentActs(o) /\ MoneyRow(o) /\ OrderInv(o)' /\ OnlyAbout(o) /\ OthersKeepMoney(o)
  BY <1>1, PaymentStepActs
<1>3. CASE q = o
  <2>1. ChargeRow(o)
    BY <1>1, <1>2, <1>3 DEF ChargeRow, IInv
  <2>. QED
    BY <1>2, <1>3, <2>1, ChargeFinishKeeps, TellingKeeps, ResolveKeeps, RefundStepsKeep,
       SessionsKeep DEF PaymentActs
<1>4. CASE q # o
  <2>1. /\ InFlight("refund.requested", q) => InFlight("refund.requested", q)'
        /\ InFlight("payment.succeeded", q) => InFlight("payment.succeeded", q)'
    BY <1>4, SagaTypes, <1>2 DEF OnlyAbout
  <2>2. q \in reported' => q \in reported
    BY <1>2, <1>4
       DEF PaymentActs, ChargeBegin, ChargeCrash, ChargeFinish, ChargeReplay, ListPayment,
           ResolvePayment, ReportPayment, RefundBegin, RefundSkip, RefundFinish, RefundClash,
           RefundCrash, ListRefund, ResolveRefund, ReportRefund, paymentVars, chargeVars,
           MarkReported
  <2>. QED
    BY <1>1, <1>2, <1>4, <2>1, <2>2, ChargeRests DEF OthersKeepMoney, SameCharge, SameRefund
<1>. QED  BY <1>3, <1>4

LEMMA InitLate == Init => LateInv
<1> SUFFICES ASSUME Init PROVE LateInv
  OBVIOUS
<1>1. IInv
  BY InitInv
<1>2. ASSUME NEW o \in Orders PROVE ChargeKept(o)
  BY <1>2 DEF Init, PaymentInit, ChargeKept, RowKeepsCharge, Captured
<1>. QED  BY <1>1, <1>2 DEF LateInv

\* A provider does not change its mind.
LEMMA ProviderStays == IInv /\ [Next]_vars => provider' = provider
<1> SUFFICES ASSUME IInv, [Next]_vars PROVE provider' = provider
  OBVIOUS
<1>1. CASE ByPayment(PaymentStep)
  BY <1>1, PaymentStepActs DEF IInv, MoneyRow
<1>2. CASE ~ByPayment(PaymentStep)
  BY <1>2 DEF Next, ByOrder, ByInventory, ByBus, vars, paymentVars
<1>. QED  BY <1>1, <1>2

LEMMA NextLate == LateInv /\ [Next]_vars => LateInv'
<1> SUFFICES ASSUME LateInv, [Next]_vars PROVE LateInv'
  OBVIOUS
<1>1. IInv'
  BY NextInv DEF LateInv
<1>2. ASSUME NEW q \in Orders, ChargeAnswered(q)' PROVE ChargeKept(q)'
  <2>0. ChargeAnswered(q) /\ ChargeKept(q)
    BY <1>2, ProviderStays DEF LateInv, ChargeAnswered
  <2>1. CASE ByOrder(OrderStep)
    BY <2>1, <2>0, OrderStepKeepsCharge
  <2>2. CASE ByInventory(InventoryStep)
    BY <2>2, <2>0, InventoryStepKeepsCharge
  <2>3. CASE ByPayment(PaymentStep)
    BY <2>3, <2>0, PaymentStepKeepsCharge
  <2>4. CASE ByBus(BusStep) \/ UNCHANGED vars
    <3>1. /\ UNCHANGED <<orderVars, paymentVars>>
          /\ queued' \cup dead' = queued \cup dead
      BY <2>4 DEF ByBus, BusStep, DeadLetter, Replay, vars, busVars
    <3>2. /\ \A t : InFlight(t, q)' <=> InFlight(t, q)
          /\ Captured(q)' <=> Captured(q)
      BY <3>1 DEF InFlight, Pool, orderVars, Captured, paymentVars
    <3>. QED  BY <2>0, <3>1, <3>2, ChargeRests DEF orderVars, paymentVars
  <2>. QED  BY <2>1, <2>2, <2>3, <2>4 DEF Next
<1>. QED  BY <1>1, <1>2 DEF LateInv

\* Unless its charge timed out, money captured for a cancelled order is never
\* forgotten: a refund was attempted or asked for, or the outcome that triggers
\* the request has still to be told.
THEOREM LateChargeStaysOwed == Spec => []LateChargeIsOwed
<1>1. LateInv => LateChargeIsOwed
  BY DEF LateInv, ChargeKept, RowKeepsCharge, Remembered, LateChargeIsOwed
<1>2. LateInv /\ [Next]_vars => LateInv'
  BY NextLate
<1>. QED  BY <1>1, <1>2, InitLate, PTL DEF Spec
=============================================================================
