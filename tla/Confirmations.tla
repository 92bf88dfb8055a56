---------------------------- MODULE Confirmations ----------------------------
(***************************************************************************)
(* The Notification service: instances that share notification.events      *)
(* record one confirmation for every fulfilled order.  Its queue may be    *)
(* older than the code and still be bound to payment.succeeded, so paid    *)
(* orders come along with fulfilled ones.  There is one channel.           *)
(***************************************************************************)
EXTENDS Integers

CONSTANTS
  Notices,      \* messages that reach notification.events
  KeyFor,       \* the routing key of each
  OrderFor,     \* the order it is about
  Notifiers,    \* consumer threads of the service's instances
  MaxResends    \* bound: connections lost and instances killed

ASSUME ConfirmationsAssumption ==
  /\ DOMAIN KeyFor = Notices
  /\ DOMAIN OrderFor = Notices
  /\ "none" \notin Notices
  /\ MaxResends \in Nat

VARIABLES
  mail, notifying, resends,   \* deliveries of notification.events
  sent,     \* how many rows notifications has for each order
  task      \* where each consumer is

noticeVars == <<mail, notifying, resends, sent, task>>
mailVars == <<mail, notifying, resends>>

N == INSTANCE Deliveries
       WITH queue <- mail, held <- notifying, losses <- resends,
            Consumers <- Notifiers, MaxLosses <- MaxResends

Fulfilled == "order.fulfilled"
Paid == "payment.succeeded"

Confirmed == {OrderFor[m] : m \in Notices}

NoticeInit ==
  /\ N!Start(Notices)
  /\ sent = [o \in Confirmed |-> 0]
  /\ task = [c \in Notifiers |-> "idle"]

Addressee(c) == OrderFor[notifying[c].message]

\* Wrong: whatever the queue delivers is taken for an order that was fulfilled.
Whatever(key) == TRUE

Concerns(key) == key = Fulfilled

\* Wrong: the table does not keep (order, channel) unique.
Unconstrained(c) == FALSE

\* Another delivery of the order has committed its row.
Conflicts(c) == sent[Addressee(c)] > 0

TakeNotice(c, m) ==
  /\ N!Take(c, m)
  /\ task' = [task EXCEPT ![c] = IF Concerns(KeyFor[m]) THEN "lookup" ELSE "ack"]
  /\ UNCHANGED sent

FindNotice(c) ==
  /\ task[c] = "lookup"
  /\ task' = [task EXCEPT ![c] = IF sent[Addressee(c)] > 0 THEN "ack" ELSE "add"]
  /\ UNCHANGED <<mailVars, sent>>

\* INSERT and commit; on a conflict the row is looked up again and is there.
AddNotice(c) ==
  /\ task[c] = "add"
  /\ sent' = [sent EXCEPT ![Addressee(c)] = IF Conflicts(c) THEN @ ELSE @ + 1]
  /\ task' = [task EXCEPT ![c] = "ack"]
  /\ UNCHANGED mailVars

AckNotice(c) ==
  /\ task[c] = "ack"
  /\ N!Ack(c)
  /\ task' = [task EXCEPT ![c] = "idle"]
  /\ UNCHANGED sent

LoseNotifier(c) == N!Lose(c) /\ UNCHANGED <<sent, task>>

BreakNotifier(c) ==
  /\ N!Break(c)
  /\ task' = [task EXCEPT ![c] = "idle"]
  /\ UNCHANGED sent

NoticeNext ==
  \E c \in Notifiers :
    \/ \E m \in Notices : TakeNotice(c, m)
    \/ FindNotice(c) \/ AddNotice(c) \/ AckNotice(c)
    \/ LoseNotifier(c) \/ BreakNotifier(c)

-----------------------------------------------------------------------------
(* Properties. *)

NoticeTypeOK ==
  /\ mail \subseteq Notices
  /\ sent \in [Confirmed -> Nat]
  /\ task \in [Notifiers -> {"idle", "lookup", "add", "ack"}]

\* FR-8: an order gets its confirmation once, however often and by how many
\* instances its event is delivered; it gets it by the time the event is settled,
\* and only if it was fulfilled, whatever an old binding still delivers.
ConfirmedOnce ==
  /\ \A o \in Confirmed : sent[o] <= 1
  /\ \A o \in Confirmed :
       sent[o] = 1 => \E m \in Notices : KeyFor[m] = Fulfilled /\ OrderFor[m] = o
  /\ \A m \in Notices :
       KeyFor[m] = Fulfilled /\ N!Settled(m) => sent[OrderFor[m]] = 1
=============================================================================
