------------------------------ MODULE WorkQueue ------------------------------
(***************************************************************************)
(* One durable work queue of commerce_common.messaging with its retry      *)
(* queues, its dead-letter queue, the consumers that share it and the      *)
(* operators who look at dead letters and replay them.  Module Bus says    *)
(* what such a queue does; this one says how: a failing message travels as *)
(* a confirmed copy, and only then is the delivery it came from            *)
(* acknowledged.                                                           *)
(*                                                                         *)
(* Queue 0 is the work queue, queues 1 .. Retries are the retry queues in  *)
(* the order of their delays, and queue Dead is the dead-letter queue.     *)
(***************************************************************************)
EXTENDS Integers, Sequences

CONSTANTS
  Messages,
  Poison,       \* messages no retry can help: undecodable, or NonRetryableError
  Retries,      \* number of retry delays (3 by default)
  Consumers,    \* consumer threads of the instances that share the queue
  PeekLimit,    \* dead letters an operator looks at in one go
  MaxLosses     \* bound: connections and processes lost in one behaviour

ASSUME WorkQueueAssumption ==
  /\ Poison \subseteq Messages
  /\ Retries \in Nat
  /\ PeekLimit \in Nat
  /\ MaxLosses \in Nat

VARIABLES
  queue,        \* the copies on each queue, oldest first
  hand,         \* the delivery each consumer has not acknowledged (prefetch 1)
  replaying,    \* the dead letter an operator's replay has not acknowledged
  peeked,       \* the dead letters an operator is looking at, oldest first
  handled,      \* how often each message's handler returned (2 stands for more)
  losses

queueVars == <<queue, hand, replaying, peeked, handled, losses>>

Dead == Retries + 1
Queues == 0 .. Dead

\* A copy carries its x-retry-count.  `tries` is how often its handler failed
\* since the message was published or replayed; no header has it.
Copy == [msg : Messages, retries : 0 .. Retries, tries : 0 .. Retries + 1]
Fresh(m) == [msg |-> m, retries |-> 0, tries |-> 0]

\* At most one delivery, or dead letter, is held unacknowledged at a time.  It is
\* settled when all that is left to do is the acknowledgement.
Nothing == <<>>
Holding(copy, settled) == <<[copy |-> copy, settled |-> settled]>>
Settled(holding) == Holding(holding[1].copy, TRUE)
Holdings == {Nothing} \cup {Holding(copy, settled) : copy \in Copy, settled \in BOOLEAN}

WorkQueueTypeOK ==
  /\ queue \in [Queues -> Seq(Copy)]
  /\ hand \in [Consumers -> Holdings]
  /\ replaying \in Holdings
  /\ peeked \in Seq(Copy) /\ Len(peeked) <= PeekLimit
  /\ handled \in [Messages -> 0 .. 2]
  /\ losses \in 0 .. MaxLosses

WorkQueueInit ==
  /\ queue = [q \in Queues |-> <<>>]
  /\ hand = [c \in Consumers |-> Nothing]
  /\ replaying = Nothing
  /\ peeked = <<>>
  /\ handled = [m \in Messages |-> 0]
  /\ losses = 0

Loss ==
  /\ losses < MaxLosses
  /\ losses' = losses + 1

Enqueue(q, copy) == queue' = [queue EXCEPT ![q] = Append(@, copy)]

-----------------------------------------------------------------------------
(* The consumers. *)

Deliver(c) ==
  /\ hand[c] = Nothing
  /\ queue[0] # <<>>
  /\ hand' = [hand EXCEPT ![c] = Holding(Head(queue[0]), FALSE)]
  /\ queue' = [queue EXCEPT ![0] = Tail(@)]
  /\ UNCHANGED <<replaying, peeked, handled, losses>>

Delivered(c) == hand[c] # Nothing /\ ~hand[c][1].settled

Succeed(c) ==
  /\ Delivered(c)
  /\ LET m == hand[c][1].copy.msg
     IN /\ m \notin Poison
        /\ handled' = [handled EXCEPT ![m] = IF @ = 2 THEN 2 ELSE @ + 1]
  /\ hand' = [hand EXCEPT ![c] = Settled(@)]
  /\ UNCHANGED <<queue, replaying, peeked, losses>>

\* The copy of a failed delivery, with the retry count it carries.
FailedCopy(copy, count) == [msg |-> copy.msg, retries |-> count, tries |-> copy.tries + 1]

\* Wrong: the retry count is not raised.
NeverGivesUp(copy) ==
  IF copy.msg \notin Poison THEN <<1, copy>> ELSE <<Dead, FailedCopy(copy, copy.retries)>>

\* Wrong: the last delay is used twice.
OneRetryTooMany(copy) ==
  IF copy.msg \notin Poison /\ copy.retries <= Retries
  THEN <<copy.retries + 1, FailedCopy(copy, copy.retries + 1)>>
  ELSE <<Dead, FailedCopy(copy, copy.retries)>>

\* Where it goes: the next retry queue with its count raised, or the dead-letter
\* queue with its count as it is.
Onward(copy) ==
  IF copy.msg \notin Poison /\ copy.retries < Retries
  THEN <<copy.retries + 1, FailedCopy(copy, copy.retries + 1)>>
  ELSE <<Dead, FailedCopy(copy, copy.retries)>>

\* The handler fails and the copy is confirmed by the broker.
Forward(c) ==
  /\ Delivered(c)
  /\ LET onward == Onward(hand[c][1].copy) IN Enqueue(onward[1], onward[2])
  /\ hand' = [hand EXCEPT ![c] = Settled(@)]
  /\ UNCHANGED <<replaying, peeked, handled, losses>>

Ack(c) ==
  /\ hand[c] # Nothing
  /\ hand[c][1].settled
  /\ hand' = [hand EXCEPT ![c] = Nothing]
  /\ UNCHANGED <<queue, replaying, peeked, handled, losses>>

\* The connection or the process is lost at any point before the
\* acknowledgement: the broker puts the delivery back where it was.
LoseConsumer(c) ==
  /\ hand[c] # Nothing
  /\ Loss
  /\ queue' = [queue EXCEPT ![0] = <<hand[c][1].copy>> \o @]
  /\ hand' = [hand EXCEPT ![c] = Nothing]
  /\ UNCHANGED <<replaying, peeked, handled>>

\* The delay of a retry queue has passed for its oldest copy.
Expire(q) ==
  /\ q \in 1 .. Retries
  /\ queue[q] # <<>>
  /\ queue' = [queue EXCEPT ![q] = Tail(@), ![0] = Append(@, Head(queue[q]))]
  /\ UNCHANGED <<hand, replaying, peeked, handled, losses>>

-----------------------------------------------------------------------------
(* replay_dead_letters, message by message. *)

ReplayGet ==
  /\ replaying = Nothing
  /\ queue[Dead] # <<>>
  /\ replaying' = Holding(Head(queue[Dead]), FALSE)
  /\ queue' = [queue EXCEPT ![Dead] = Tail(@)]
  /\ UNCHANGED <<hand, peeked, handled, losses>>

\* Wrong: the copy keeps its retry count.
KeepsRetryCount(copy) == [copy EXCEPT !.tries = 0]

\* The copy is sent without the retry bookkeeping.
Replayed(copy) == Fresh(copy.msg)

ReplayPublish ==
  /\ replaying # Nothing
  /\ ~replaying[1].settled
  /\ Enqueue(0, Replayed(replaying[1].copy))
  /\ replaying' = Settled(replaying)
  /\ UNCHANGED <<hand, peeked, handled, losses>>

ReplayAck ==
  /\ replaying # Nothing
  /\ replaying[1].settled
  /\ replaying' = Nothing
  /\ UNCHANGED <<queue, hand, peeked, handled, losses>>

LoseReplay ==
  /\ replaying # Nothing
  /\ Loss
  /\ queue' = [queue EXCEPT ![Dead] = <<replaying[1].copy>> \o @]
  /\ replaying' = Nothing
  /\ UNCHANGED <<hand, peeked, handled>>

-----------------------------------------------------------------------------
(* peek_dead_letters: what is read is not acknowledged, but handed back.  *)

PeekGet ==
  /\ Len(peeked) < PeekLimit
  /\ queue[Dead] # <<>>
  /\ peeked' = Append(peeked, Head(queue[Dead]))
  /\ queue' = [queue EXCEPT ![Dead] = Tail(@)]
  /\ UNCHANGED <<hand, replaying, handled, losses>>

\* nack with requeue, or the connection is closed or lost: all the same.
PeekReturn ==
  /\ peeked # <<>>
  /\ queue' = [queue EXCEPT ![Dead] = peeked \o @]
  /\ peeked' = <<>>
  /\ UNCHANGED <<hand, replaying, handled, losses>>

QueueStep ==
  \/ \E c \in Consumers :
        Deliver(c) \/ Succeed(c) \/ Forward(c) \/ Ack(c) \/ LoseConsumer(c)
  \/ \E q \in Queues : Expire(q)
  \/ ReplayGet \/ ReplayPublish \/ ReplayAck \/ LoseReplay
  \/ PeekGet \/ PeekReturn
=============================================================================
