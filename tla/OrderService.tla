---------------------------- MODULE OrderService ----------------------------
(***************************************************************************)
(* The Order service with the event bus enabled: the orders table, the     *)
(* transactional outbox and its relay, the five saga event handlers and    *)
(* the reconciler of stuck orders.  Every handler locks the order row      *)
(* first and commits once, so a handler is one action.                     *)
(*                                                                         *)
(* Definitions marked "Wrong" are slips the code does not make.  Nothing   *)
(* uses them: each can be put in place of the definition that follows, to  *)
(* see that a property notices.                                            *)
(***************************************************************************)
EXTENDS Bus

VARIABLES
  status,       \* orders.status, "none" before the row exists
  outbox        \* outbox rows not yet marked published

orderVars == <<status, outbox>>

OrderStatus == {"pending", "reserved", "paid", "fulfilled", "cancelled"}
Terminal == {"fulfilled", "cancelled"}

OrderTypeOK ==
  /\ status \in [Orders -> OrderStatus \cup {"none"}]
  /\ outbox \subseteq Message

OrderInit ==
  /\ status = [o \in Orders |-> "none"]
  /\ outbox = {}

-----------------------------------------------------------------------------

\* outbox.add in the handler's own transaction.
Enqueue(msgs) == outbox' = outbox \cup msgs

\* _set_status, with the events the caller enqueues in the same transaction.
SetStatus(o, new, msgs) ==
  /\ status' = [status EXCEPT ![o] = new]
  /\ Enqueue({Event("order.status_changed", o)} \cup msgs)

\* create_order for a key that was not used before.
CreateOrder(o) ==
  /\ status[o] = "none"
  /\ SetStatus(o, "pending", {Event("order.created", o)})
  /\ UNCHANGED busVars

-----------------------------------------------------------------------------
(* The handlers of the queue order.events. *)

Receive(type, o, fate) ==
  /\ Event(type, o) \in queued
  /\ Consume(Event(type, o), {}, fate)

\* Wrong: a reservation of a cancelled order is ignored.
DropsLateReservation(o, fate) ==
  /\ Receive("inventory.reserved", o, fate)
  /\ IF status[o] = "pending"
     THEN SetStatus(o, "reserved", {Event("charge.requested", o)})
     ELSE UNCHANGED orderVars

OnInventoryReserved(o, fate) ==
  /\ Receive("inventory.reserved", o, fate)
  /\ \/ /\ status[o] = "cancelled"
        /\ Enqueue({Event("order.cancelled", o)})
        /\ UNCHANGED status
     \/ /\ status[o] = "pending"
        /\ SetStatus(o, "reserved", {Event("charge.requested", o)})
     \/ /\ status[o] \notin {"cancelled", "pending"}
        /\ UNCHANGED orderVars

OnInventoryFailed(o, fate) ==
  /\ Receive("inventory.failed", o, fate)
  /\ IF status[o] = "pending"
     THEN SetStatus(o, "cancelled", {})
     ELSE UNCHANGED orderVars

\* Wrong: a late charge pays a cancelled order.
ResurrectsCancelled(o, fate) ==
  /\ Receive("payment.succeeded", o, fate)
  /\ IF status[o] \in {"reserved", "cancelled"}
     THEN SetStatus(o, "paid", {Event("order.paid", o)})
     ELSE UNCHANGED orderVars

\* Wrong: any payment.succeeded not expected is refunded.
RefundsUnlessReserved(o, fate) ==
  /\ Receive("payment.succeeded", o, fate)
  /\ IF status[o] = "reserved"
     THEN SetStatus(o, "paid", {Event("order.paid", o)})
     ELSE Enqueue({Event("refund.requested", o)}) /\ UNCHANGED status

\* Wrong: a late charge is ignored.
DropsLateCharge(o, fate) ==
  /\ Receive("payment.succeeded", o, fate)
  /\ IF status[o] = "reserved"
     THEN SetStatus(o, "paid", {Event("order.paid", o)})
     ELSE UNCHANGED orderVars

OnPaymentSucceeded(o, fate) ==
  /\ Receive("payment.succeeded", o, fate)
  /\ \/ /\ status[o] = "cancelled"
        /\ Enqueue({Event("refund.requested", o)})
        /\ UNCHANGED status
     \/ /\ status[o] = "reserved"
        /\ SetStatus(o, "paid", {Event("order.paid", o)})
     \/ /\ status[o] \notin {"cancelled", "reserved"}
        /\ UNCHANGED orderVars

\* Wrong: a status the schema does not have.
MarksFailed(o, fate) ==
  /\ Receive("payment.failed", o, fate)
  /\ IF status[o] = "reserved"
     THEN SetStatus(o, "failed", {Event("order.cancelled", o)})
     ELSE UNCHANGED orderVars

OnPaymentFailed(o, fate) ==
  /\ Receive("payment.failed", o, fate)
  /\ IF status[o] = "reserved"
     THEN SetStatus(o, "cancelled", {Event("order.cancelled", o)})
     ELSE UNCHANGED orderVars

OnInventoryCommitted(o, fate) ==
  /\ Receive("inventory.committed", o, fate)
  /\ IF status[o] = "paid"
     THEN SetStatus(o, "fulfilled", {Event("order.fulfilled", o)})
     ELSE UNCHANGED orderVars

-----------------------------------------------------------------------------
(* Background threads. *)

\* Wrong: the reconciler gives paid orders up as well.
GivesUpEverything(stuck) == stuck

\* Of the stuck orders only those that are not paid are given up; the order.paid
\* of the others is sent again.
GivenUp(stuck) == {o \in stuck : status[o] # "paid"}

\* reconcile_stuck_orders over the orders whose timeout has passed and whose
\* row no handler holds (SKIP LOCKED): any set of orders in the middle of the
\* saga.
Reconcile(stuck) ==
  /\ stuck # {}
  /\ \A o \in stuck : status[o] \in OrderStatus \ Terminal
  /\ LET given_up == GivenUp(stuck)
     IN /\ status' = [o \in Orders |-> IF o \in given_up THEN "cancelled" ELSE status[o]]
        /\ Enqueue({Event("order.status_changed", o) : o \in given_up}
                   \cup {Event("order.cancelled", o) : o \in given_up}
                   \cup {Event("order.paid", o) : o \in stuck \ given_up})
  /\ UNCHANGED busVars

\* _relay_once: every row of the batch is published, then one commit marks
\* them all.
RelayOnce ==
  /\ outbox # {}
  /\ queued' = queued \cup Routed(outbox)
  /\ outbox' = {}
  /\ UNCHANGED <<status, dead, mishaps>>

\* The pass dies, or a publish fails, after some rows were published: the
\* transaction rolls back and the whole batch is published again later.
RelayInterrupted(sent) ==
  /\ sent \subseteq outbox
  /\ Mishap
  /\ queued' = queued \cup Routed(sent)
  /\ UNCHANGED <<status, outbox, dead>>

OrderStep ==
  \/ \E o \in Orders : CreateOrder(o)
  \/ \E o \in Orders, fate \in {"acked", "unacked"} :
        \/ OnInventoryReserved(o, fate)
        \/ OnInventoryFailed(o, fate)
        \/ OnPaymentSucceeded(o, fate)
        \/ OnPaymentFailed(o, fate)
        \/ OnInventoryCommitted(o, fate)
  \/ \E stuck \in SUBSET Orders : Reconcile(stuck)
  \/ RelayOnce
  \/ \E sent \in SUBSET outbox : RelayInterrupted(sent)
=============================================================================
