-------------------------------- MODULE Bus --------------------------------
(***************************************************************************)
(* RabbitMQ as commerce_common.messaging uses it: every work queue         *)
(* delivers at least once and in no guaranteed order.  A message stays on  *)
(* its queue until the consumer acknowledges it, which run_consumer does   *)
(* only after the handler returned; a handler that fails goes through      *)
(* delayed retries (so later messages overtake it) and then to a           *)
(* dead-letter queue, from which an operator may replay it.                *)
(*                                                                         *)
(* A message is its type and the order it is about: the rest of the        *)
(* payload is a function of the order.  Copies of one message are not told *)
(* apart: a second copy is the first one handled without being             *)
(* acknowledged.                                                           *)
(***************************************************************************)
EXTENDS Integers

CONSTANTS
  Orders,       \* the orders shoppers may submit
  MaxMishaps    \* bound: how many deliveries, relay passes and provider calls
                \* may die half-way, or be dead-lettered, in one behaviour

ASSUME MishapsAssumption == MaxMishaps \in Nat

VARIABLES
  queued,       \* messages on a work queue or one of its retry queues
  dead,         \* messages on a dead-letter queue
  mishaps       \* how many mishaps have happened

busVars == <<queued, dead, mishaps>>

\* The bindings of the three saga queues.
OrderEvents == {"inventory.reserved", "inventory.failed", "inventory.committed",
                "payment.succeeded", "payment.failed"}
InventoryEvents == {"order.created", "order.cancelled", "order.paid"}
PaymentEvents == {"charge.requested", "refund.requested"}

\* Consumed outside the saga: by Notification and Recommendation, and by the
\* Gateway's private queues that feed the dashboards.
ReadSideEvents == {"order.fulfilled", "order.status_changed"}

SagaEvents == OrderEvents \cup InventoryEvents \cup PaymentEvents

Event(type, o) == [type |-> type, order |-> o]
SagaMessage == [type : SagaEvents, order : Orders]
Message == [type : SagaEvents \cup ReadSideEvents, order : Orders]

\* publish_event on the topic exchange: only bound types reach a saga queue.
Routed(msgs) == {m \in msgs : m.type \in SagaEvents}

BusTypeOK ==
  /\ queued \subseteq SagaMessage
  /\ dead \subseteq SagaMessage
  /\ mishaps \in 0 .. MaxMishaps

BusInit ==
  /\ queued = {}
  /\ dead = {}
  /\ mishaps = 0

Mishap ==
  /\ mishaps < MaxMishaps
  /\ mishaps' = mishaps + 1

-----------------------------------------------------------------------------
(* How a delivery ends.  The handler's database transaction has committed  *)
(* in every case; the process may die before it published its replies, or  *)
(* before it marked them as reported (Payment only), or before the ack.    *)

Fates == {"acked", "unacked", "unmarked", "unpublished"}

\* The callback of run_consumer around a handler that publishes replies.
Consume(m, replies, fate) ==
  /\ IF fate = "acked" THEN UNCHANGED mishaps ELSE Mishap
  /\ queued' = CASE fate = "acked"       -> (queued \ {m}) \cup replies
                 [] fate = "unpublished" -> queued
                 [] OTHER                -> queued \cup replies
  /\ UNCHANGED dead

\* The retries are exhausted.  The copy on the dead-letter queue is confirmed
\* before the original is acknowledged, so both may exist.
DeadLetter(m, acked) ==
  /\ m \in queued
  /\ Mishap
  /\ dead' = dead \cup {m}
  /\ queued' = IF acked THEN queued \ {m} ELSE queued

\* replay_dead_letters: again a confirmed copy, then the ack.
Replay(m, acked) ==
  /\ m \in dead
  /\ queued' = queued \cup {m}
  /\ dead' = IF acked THEN dead \ {m} ELSE dead
  /\ UNCHANGED mishaps
=============================================================================
