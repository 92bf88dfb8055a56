-------------------------- MODULE InventoryService --------------------------
(***************************************************************************)
(* The Inventory service behind the event bus: products with their stock   *)
(* and the reservation of each order.  reserve, commit_for_order and       *)
(* release_for_order each run in one transaction that locks every row it   *)
(* changes, so each is one step here.  All rows of one order move together *)
(* and are modelled as one reservation.                                    *)
(*                                                                         *)
(* Definitions marked "Wrong" are slips the code does not make.  Nothing   *)
(* uses them: each can be put in place of the definition that follows, to  *)
(* see that a property notices.                                            *)
(***************************************************************************)
EXTENDS Bus

CONSTANTS
  Products,
  Demand,       \* Demand[o][p]: units of p over the lines of order o
  InitialStock  \* units of each product at the start

ASSUME StockAssumption ==
  /\ Demand \in [Orders -> [Products -> Nat]]
  /\ InitialStock \in [Products -> Nat]

VARIABLES
  stock,        \* products.stock_qty
  reservation   \* status of the order's stock_reservations, "none" if it has none

inventoryVars == <<stock, reservation>>

ReservationStatus == {"held", "committed", "released"}

InventoryTypeOK ==
  /\ stock \in [Products -> Nat]
  /\ reservation \in [Orders -> ReservationStatus \cup {"none"}]

InventoryInit ==
  /\ stock = InitialStock
  /\ reservation = [o \in Orders |-> "none"]

-----------------------------------------------------------------------------

InStock(o) == \A p \in Products : stock[p] >= Demand[o][p]

\* Wrong: only rows still held make a replay.
ReplaysOnlyHeld(o, fate) ==
  LET m == Event("order.created", o)
  IN  /\ m \in queued
      /\ \/ /\ reservation[o] = "held"
            /\ UNCHANGED inventoryVars
            /\ Consume(m, {Event("inventory.reserved", o)}, fate)
         \/ /\ reservation[o] # "held"
            /\ InStock(o)
            /\ stock' = [p \in Products |-> stock[p] - Demand[o][p]]
            /\ reservation' = [reservation EXCEPT ![o] = "held"]
            /\ Consume(m, {Event("inventory.reserved", o)}, fate)
         \/ /\ reservation[o] # "held"
            /\ ~InStock(o)
            /\ UNCHANGED inventoryVars
            /\ Consume(m, {Event("inventory.failed", o)}, fate)

\* order.created: reserve, replaying an order that has rows whatever their
\* status, then tell the Order service.
HandleOrderCreated(o, fate) ==
  LET m == Event("order.created", o)
  IN  /\ m \in queued
      /\ \/ /\ reservation[o] # "none"
            /\ UNCHANGED inventoryVars
            /\ Consume(m, {Event("inventory.reserved", o)}, fate)
         \/ /\ reservation[o] = "none"
            /\ InStock(o)
            /\ stock' = [p \in Products |-> stock[p] - Demand[o][p]]
            /\ reservation' = [reservation EXCEPT ![o] = "held"]
            /\ Consume(m, {Event("inventory.reserved", o)}, fate)
         \/ /\ reservation[o] = "none"
            /\ ~InStock(o)
            /\ UNCHANGED inventoryVars
            /\ Consume(m, {Event("inventory.failed", o)}, fate)

\* Wrong: rows already released or committed are released.
ReleasesAnyRow(o, fate) ==
  LET m == Event("order.cancelled", o)
  IN  /\ m \in queued
      /\ Consume(m, {}, fate)
      /\ IF reservation[o] # "none"
         THEN /\ stock' = [p \in Products |-> stock[p] + Demand[o][p]]
              /\ reservation' = [reservation EXCEPT ![o] = "released"]
         ELSE UNCHANGED inventoryVars

\* order.cancelled: release_for_order, which finds nothing to do unless the
\* rows are still held.
HandleOrderCancelled(o, fate) ==
  LET m == Event("order.cancelled", o)
  IN  /\ m \in queued
      /\ Consume(m, {}, fate)
      /\ IF reservation[o] = "held"
         THEN /\ stock' = [p \in Products |-> stock[p] + Demand[o][p]]
              /\ reservation' = [reservation EXCEPT ![o] = "released"]
         ELSE UNCHANGED inventoryVars

\* Wrong: a repeated order.paid is not answered.
TellsOnlyWhenHeld(o, fate) ==
  LET m == Event("order.paid", o)
  IN  /\ m \in queued
      /\ Consume(m, IF reservation[o] = "held" THEN {Event("inventory.committed", o)} ELSE {},
                 fate)
      /\ reservation' = [reservation EXCEPT ![o] = IF @ = "held" THEN "committed" ELSE @]
      /\ UNCHANGED stock

\* order.paid: commit_for_order; inventory.committed is published even when
\* nothing was left to commit.
HandleOrderPaid(o, fate) ==
  LET m == Event("order.paid", o)
  IN  /\ m \in queued
      /\ Consume(m, {Event("inventory.committed", o)}, fate)
      /\ reservation' = [reservation EXCEPT ![o] = IF @ = "held" THEN "committed" ELSE @]
      /\ UNCHANGED stock

InventoryStep ==
  \/ \E o \in Orders, fate \in Fates \ {"unmarked"} :
        \/ HandleOrderCreated(o, fate)
        \/ HandleOrderPaid(o, fate)
  \/ \E o \in Orders, fate \in {"acked", "unacked"} : HandleOrderCancelled(o, fate)
=============================================================================
