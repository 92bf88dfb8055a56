------------------------------ MODULE Messaging ------------------------------
(***************************************************************************)
(* From the outbox to the handler: the relay of the Order service feeds a  *)
(* work queue, whose consumers retry, park and replay what fails.          *)
(***************************************************************************)
EXTENDS OutboxRelay

vars == <<relayVars, queueVars>>

TypeOK == WorkQueueTypeOK /\ OutboxTypeOK

Init == WorkQueueInit /\ OutboxInit

Next ==
  \/ RelayStep
  \/ QueueStep /\ UNCHANGED relayVars

Spec == Init /\ [][Next]_vars

-----------------------------------------------------------------------------
(* Fairness.  Consumer threads and relay threads loop forever and          *)
(* reconnect; RabbitMQ moves what has expired.  Whether the Gateway is     *)
(* there is not up to them.                                                *)

ByQueue(step) == step /\ UNCHANGED relayVars

ServiceFairness ==
  /\ \A c \in Consumers :
       /\ WF_vars(ByQueue(Deliver(c)))
       /\ WF_vars(ByQueue(Succeed(c) \/ Forward(c)))
       /\ WF_vars(ByQueue(Ack(c)))
  /\ \A q \in 1 .. Retries : WF_vars(ByQueue(Expire(q)))
  /\ \A r \in Relays :
       WF_vars(Fetch(r) \/ PublishRow(r) \/ Unroutable(r) \/ MarkPublished(r))

\* The services run, with no Gateway to count on...
LiveSpec == Spec /\ ServiceFairness

\* ...or with one that reconnects when its connection is lost.
ConnectedSpec == LiveSpec /\ WF_vars(Connect)

-----------------------------------------------------------------------------
(* Properties. *)

InHand(m) == \E c \in Consumers : hand[c] # Nothing /\ hand[c][1].copy.msg = m
Parked(m) ==
  \/ \E i \in 1 .. Len(queue[Dead]) : queue[Dead][i].msg = m
  \/ \E i \in 1 .. Len(peeked) : peeked[i].msg = m
  \/ replaying # Nothing /\ replaying[1].copy.msg = m
OnQueue(m) == \E q \in 0 .. Retries : \E i \in 1 .. Len(queue[q]) : queue[q][i].msg = m
Unpublished(m) == outbox[m] # Absent

\* An event whose transaction committed is never lost: until its handler has
\* returned there is an outbox row not marked, or a copy on some queue or in
\* somebody's hand, whatever dies between a publication, a copy, a mark and an
\* acknowledgement.
NothingLost ==
  \A m \in Messages \cap written :
    Unpublished(m) \/ OnQueue(m) \/ InHand(m) \/ Parked(m) \/ handled[m] > 0

\* A message that retrying could help is parked only after its handler has
\* failed once and then once per retry, also when it was replayed before.
ParkedAfterAllTries ==
  \A i \in 1 .. Len(queue[Dead]) :
    LET copy == queue[Dead][i] IN copy.msg \notin Poison => copy.tries > Retries

\* Only a loss makes a message be handled twice: relays that run side by side do
\* not publish a row twice, nor do consumers share a delivery.
OnceUnlessLoss == losses = 0 => \A m \in Messages : handled[m] < 2

\* Every committed event reaches a handler that returns, or the dead-letter
\* queue, where an operator sees it.
EveryEventSettles ==
  \A m \in Messages : m \in written ~> handled[m] > 0 \/ Parked(m)

\* Every committed event is published ("publishes unpublished rows to RabbitMQ,
\* retrying until success", docs/ARCHITECTURE.md).
CommittedIsPublished ==
  \A m \in Messages : m \in written ~> ~Unpublished(m)
=============================================================================
