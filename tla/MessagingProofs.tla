-------------------------- MODULE MessagingProofs --------------------------
(***************************************************************************)
(* What the relay, the work queue and its retry machinery promise, for any *)
(* number of messages, rows, relays, consumers, retries and losses.        *)
(***************************************************************************)
EXTENDS Messaging, SequenceTheorems, TLAPS

-----------------------------------------------------------------------------
(* Sequences, as the sets of what is on them. *)

LEMMA RowsOfEmpty == RowsOf(<<>>) = {}
BY DEF RowsOf

LEMMA RowsOfHead ==
  ASSUME NEW S, NEW s \in Seq(S), s # <<>>
  PROVE  /\ Head(s) \in S
         /\ Tail(s) \in Seq(S)
         /\ Len(Tail(s)) <= Len(s)
         /\ RowsOf(s) = {Head(s)} \cup RowsOf(Tail(s))
<1>1. /\ Head(s) \in S /\ Tail(s) \in Seq(S)
      /\ Len(s) \in Nat \ {0} /\ Len(Tail(s)) = Len(s) - 1
      /\ Head(s) = s[1]
      /\ \A i \in 1 .. Len(Tail(s)) : Tail(s)[i] = s[i + 1]
  BY HeadTailProperties
<1>2. ASSUME NEW x \in RowsOf(s)
      PROVE  x \in {Head(s)} \cup RowsOf(Tail(s))
  <2>1. PICK i \in 1 .. Len(s) : x = s[i]
    BY DEF RowsOf
  <2>2. CASE i = 1
    BY <1>1, <2>1, <2>2
  <2>3. CASE i # 1
    <3>1. i - 1 \in 1 .. Len(Tail(s)) /\ Tail(s)[i - 1] = x
      BY <1>1, <2>1, <2>3
    <3>. QED  BY <3>1 DEF RowsOf
  <2>. QED  BY <2>2, <2>3
<1>3. ASSUME NEW x \in RowsOf(Tail(s))
      PROVE  x \in RowsOf(s)
  <2>1. PICK i \in 1 .. Len(Tail(s)) : x = Tail(s)[i]
    BY DEF RowsOf
  <2>2. i + 1 \in 1 .. Len(s) /\ x = s[i + 1]
    BY <1>1, <2>1
  <2>. QED  BY <2>2 DEF RowsOf
<1>4. Head(s) \in RowsOf(s)
  BY <1>1 DEF RowsOf
<1>. QED  BY <1>1, <1>2, <1>3, <1>4

LEMMA RowsOfAppend ==
  ASSUME NEW S, NEW s \in Seq(S), NEW x \in S
  PROVE  /\ Append(s, x) \in Seq(S)
         /\ Len(Append(s, x)) = Len(s) + 1
         /\ RowsOf(Append(s, x)) = RowsOf(s) \cup {x}
<1>1. /\ Append(s, x) \in Seq(S)
      /\ Len(s) \in Nat /\ Len(Append(s, x)) = Len(s) + 1
      /\ \A i \in 1 .. Len(s) : Append(s, x)[i] = s[i]
      /\ Append(s, x)[Len(s) + 1] = x
  BY AppendProperties, LenProperties
<1>2. RowsOf(Append(s, x)) = RowsOf(s) \cup {x}
  BY <1>1 DEF RowsOf
<1>. QED  BY <1>1, <1>2

LEMMA RowsOfConcat ==
  ASSUME NEW S, NEW s \in Seq(S), NEW t \in Seq(S)
  PROVE  /\ s \o t \in Seq(S)
         /\ RowsOf(s \o t) = RowsOf(s) \cup RowsOf(t)
<1>1. /\ s \o t \in Seq(S)
      /\ Len(s) \in Nat /\ Len(t) \in Nat /\ Len(s \o t) = Len(s) + Len(t)
      /\ \A i \in 1 .. Len(s) + Len(t) : (s \o t)[i] = IF i <= Len(s) THEN s[i] ELSE t[i - Len(s)]
  BY ConcatProperties, LenProperties
<1>2. ASSUME NEW x \in RowsOf(s \o t)
      PROVE  x \in RowsOf(s) \cup RowsOf(t)
  <2>1. PICK i \in 1 .. Len(s) + Len(t) : x = IF i <= Len(s) THEN s[i] ELSE t[i - Len(s)]
    BY <1>1 DEF RowsOf
  <2>2. CASE i <= Len(s)
    BY <1>1, <2>1, <2>2 DEF RowsOf
  <2>3. CASE i > Len(s)
    <3>1. i - Len(s) \in 1 .. Len(t) /\ x = t[i - Len(s)]
      BY <1>1, <2>1, <2>3
    <3>. QED  BY <3>1 DEF RowsOf
  <2>. QED  BY <1>1, <2>2, <2>3
<1>3. ASSUME NEW x \in RowsOf(s) PROVE x \in RowsOf(s \o t)
  BY <1>1, <1>3 DEF RowsOf
<1>4. ASSUME NEW x \in RowsOf(t) PROVE x \in RowsOf(s \o t)
  <2>1. PICK i \in 1 .. Len(t) : x = t[i]
    BY DEF RowsOf
  <2>2. /\ i + Len(s) \in 1 .. Len(s) + Len(t)
        /\ (s \o t)[i + Len(s)] = x
    BY <1>1, <2>1
  <2>. QED  BY <1>1, <2>2 DEF RowsOf
<1>. QED  BY <1>1, <1>2, <1>3, <1>4

LEMMA RowsOfOne ==
  ASSUME NEW S, NEW x \in S
  PROVE  <<x>> \in Seq(S) /\ RowsOf(<<x>>) = {x} /\ Len(<<x>>) = 1
<1>. DEFINE s == <<x>>
<1>1. s \in Seq(S) /\ Len(s) = 1 /\ s[1] = x
  OBVIOUS
<1>. HIDE DEF s
<1>2. 1 .. Len(s) = {1}
  BY <1>1
<1>3. RowsOf(s) = {x}
  <2>1. \A y : y \in RowsOf(s) <=> \E i \in 1 .. Len(s) : y = s[i]
    BY DEF RowsOf
  <2>2. \A y : y \in RowsOf(s) <=> y = x
    BY <1>1, <1>2, <2>1
  <2>. QED  BY <2>2
<1>. QED  BY <1>1, <1>3 DEF s

LEMMA RowsOfType ==
  ASSUME NEW S, NEW s \in Seq(S)
  PROVE  RowsOf(s) \subseteq S
BY DEF RowsOf

-----------------------------------------------------------------------------
(* Deliveries in hand. *)

LEMMA HoldingFields ==
  ASSUME NEW copy, NEW settled
  PROVE  /\ Holding(copy, settled) # Nothing
         /\ Holding(copy, settled)[1].copy = copy
         /\ Holding(copy, settled)[1].settled = settled
BY DEF Holding, Nothing

LEMMA HoldingsFields ==
  ASSUME NEW h \in Holdings, h # Nothing
  PROVE  h[1].copy \in Copy /\ h[1].settled \in BOOLEAN
BY HoldingFields DEF Holdings

LEMMA HoldingType ==
  ASSUME NEW copy \in Copy, NEW settled \in BOOLEAN
  PROVE  Holding(copy, settled) \in Holdings /\ Nothing \in Holdings
BY DEF Holdings

LEMMA SettledFields ==
  ASSUME NEW h \in Holdings, h # Nothing
  PROVE  /\ Settled(h) \in Holdings /\ Settled(h) # Nothing
         /\ Settled(h)[1].copy = h[1].copy
         /\ Settled(h)[1].settled = TRUE
<1>1. h[1].copy \in Copy
  BY HoldingsFields
<1>2. Settled(h) \in Holdings
  BY <1>1, HoldingType DEF Settled
<1>. QED  BY <1>2, HoldingFields DEF Settled

LEMMA CopyFields ==
  ASSUME NEW copy \in Copy
  PROVE  copy.msg \in Messages /\ copy.retries \in 0 .. Retries /\ copy.tries \in 0 .. Retries + 1
BY DEF Copy

LEMMA FreshCopy ==
  ASSUME NEW m \in Messages
  PROVE  /\ Fresh(m) \in Copy /\ Fresh(m).msg = m
         /\ Fresh(m).retries = 0 /\ Fresh(m).tries = 0
BY WorkQueueAssumption DEF Fresh, Copy

-----------------------------------------------------------------------------
(* What each step does to the queues and the hands.  The invariants below  *)
(* are about what is on a queue, whatever its order: these lemmas say how  *)
(* the sets change, and that the variables keep their types.               *)

Took(q, copy) ==
  /\ queue[q] # <<>>
  /\ copy = Head(queue[q])
  /\ queue'[q] = Tail(queue[q])
  /\ RowsOf(queue[q]) = {copy} \cup RowsOf(queue'[q])
Put(q, copy) ==
  /\ queue'[q] = Append(queue[q], copy)
  /\ RowsOf(queue'[q]) = RowsOf(queue[q]) \cup {copy}
PutBack(q, copies) ==
  /\ queue'[q] = copies \o queue[q]
  /\ RowsOf(queue'[q]) = RowsOf(copies) \cup RowsOf(queue[q])
OtherQueues(changed) == \A q \in Queues \ changed : queue'[q] = queue[q]
OtherHands(c) == \A d \in Consumers \ {c} : hand'[d] = hand[d]

LEMMA QueueNames ==
  /\ 0 \in Queues /\ Dead \in Queues /\ Dead # 0
  /\ \A q \in 1 .. Retries : q \in Queues /\ q # 0 /\ q # Dead
  /\ \A q \in Queues : q \in Int /\ (q = Dead \/ q \in 0 .. Retries)
  /\ \A q \in 0 .. Retries : q \in Queues /\ q # Dead
BY WorkQueueAssumption DEF Queues, Dead

LEMMA EnqueueEffect ==
  ASSUME WorkQueueTypeOK, NEW q \in Queues, NEW copy \in Copy, Enqueue(q, copy)
  PROVE  /\ queue' \in [Queues -> Seq(Copy)]
         /\ Put(q, copy)
         /\ OtherQueues({q})
<1>1. queue[q] \in Seq(Copy)
  BY DEF WorkQueueTypeOK
<1>2. /\ Append(queue[q], copy) \in Seq(Copy)
      /\ RowsOf(Append(queue[q], copy)) = RowsOf(queue[q]) \cup {copy}
  BY <1>1, RowsOfAppend
<1>3. queue' = [queue EXCEPT ![q] = Append(queue[q], copy)]
  BY DEF Enqueue
<1>. QED  BY <1>2, <1>3 DEF WorkQueueTypeOK, Put, OtherQueues

LEMMA TakeEffect ==
  ASSUME WorkQueueTypeOK, NEW q \in Queues, queue[q] # <<>>,
         queue' = [queue EXCEPT ![q] = Tail(queue[q])]
  PROVE  /\ queue' \in [Queues -> Seq(Copy)]
         /\ Head(queue[q]) \in Copy
         /\ Took(q, Head(queue[q]))
         /\ OtherQueues({q})
<1>1. queue[q] \in Seq(Copy)
  BY DEF WorkQueueTypeOK
<1>2. /\ Head(queue[q]) \in Copy /\ Tail(queue[q]) \in Seq(Copy)
      /\ RowsOf(queue[q]) = {Head(queue[q])} \cup RowsOf(Tail(queue[q]))
  BY <1>1, RowsOfHead
<1>. QED  BY <1>2 DEF WorkQueueTypeOK, Took, OtherQueues

LEMMA ReturnEffect ==
  ASSUME WorkQueueTypeOK, NEW q \in Queues, NEW copies \in Seq(Copy),
         queue' = [queue EXCEPT ![q] = copies \o queue[q]]
  PROVE  /\ queue' \in [Queues -> Seq(Copy)]
         /\ PutBack(q, copies)
         /\ OtherQueues({q})
<1>1. queue[q] \in Seq(Copy)
  BY DEF WorkQueueTypeOK
<1>2. /\ copies \o queue[q] \in Seq(Copy)
      /\ RowsOf(copies \o queue[q]) = RowsOf(copies) \cup RowsOf(queue[q])
  BY <1>1, RowsOfConcat
<1>. QED  BY <1>2 DEF WorkQueueTypeOK, PutBack, OtherQueues

LEMMA DeliverEffect ==
  ASSUME WorkQueueTypeOK, NEW c \in Consumers, Deliver(c)
  PROVE  /\ WorkQueueTypeOK'
         /\ UNCHANGED <<replaying, peeked, handled, losses>>
         /\ Took(0, Head(queue[0])) /\ OtherQueues({0})
         /\ Head(queue[0]) \in Copy
         /\ hand[c] = Nothing /\ hand'[c] = Holding(Head(queue[0]), FALSE) /\ OtherHands(c)
<1>1. /\ queue' \in [Queues -> Seq(Copy)]
      /\ Head(queue[0]) \in Copy
      /\ Took(0, Head(queue[0])) /\ OtherQueues({0})
  BY QueueNames, TakeEffect DEF Deliver
<1>2. Holding(Head(queue[0]), FALSE) \in Holdings
  BY <1>1, HoldingType
<1>. QED  BY <1>1, <1>2 DEF Deliver, WorkQueueTypeOK, OtherHands

LEMMA SettleEffect ==
  ASSUME WorkQueueTypeOK, NEW c \in Consumers, hand[c] # Nothing,
         hand' = [hand EXCEPT ![c] = Settled(@)]
  PROVE  /\ hand' \in [Consumers -> Holdings]
         /\ hand'[c] # Nothing /\ hand'[c][1].copy = hand[c][1].copy
         /\ hand'[c][1].settled = TRUE
         /\ OtherHands(c)
<1>1. hand[c] \in Holdings
  BY DEF WorkQueueTypeOK
<1>2. hand'[c] = Settled(hand[c]) /\ OtherHands(c) /\ Settled(hand[c]) \in Holdings
  BY <1>1, SettledFields DEF WorkQueueTypeOK, OtherHands
<1>3. hand' \in [Consumers -> Holdings]
  BY <1>2 DEF WorkQueueTypeOK
<1>. QED  BY <1>1, <1>2, <1>3, SettledFields

LEMMA SucceedEffect ==
  ASSUME WorkQueueTypeOK, NEW c \in Consumers, Succeed(c)
  PROVE  /\ WorkQueueTypeOK'
         /\ UNCHANGED <<queue, replaying, peeked, losses>>
         /\ hand[c] # Nothing /\ ~hand[c][1].settled
         /\ hand'[c] # Nothing /\ hand'[c][1].copy = hand[c][1].copy
         /\ hand'[c][1].settled = TRUE /\ OtherHands(c)
         /\ hand[c][1].copy \in Copy
         /\ LET m == hand[c][1].copy.msg
            IN /\ handled'[m] = IF handled[m] = 2 THEN 2 ELSE handled[m] + 1
               /\ \A n \in Messages \ {m} : handled'[n] = handled[n]
<1>1. hand[c] \in Holdings /\ hand[c] # Nothing /\ ~hand[c][1].settled
  BY DEF Succeed, Delivered, WorkQueueTypeOK
<1>2. hand[c][1].copy \in Copy /\ hand[c][1].copy.msg \in Messages
  BY <1>1, HoldingsFields, CopyFields
<1>3. /\ hand' \in [Consumers -> Holdings]
      /\ hand'[c] # Nothing /\ hand'[c][1].copy = hand[c][1].copy
      /\ hand'[c][1].settled = TRUE /\ OtherHands(c)
  BY <1>1, SettleEffect DEF Succeed
<1>. DEFINE m == hand[c][1].copy.msg
<1>4. /\ handled' = [handled EXCEPT ![m] = IF handled[m] = 2 THEN 2 ELSE handled[m] + 1]
      /\ UNCHANGED <<queue, replaying, peeked, losses>>
  BY DEF Succeed
<1>. HIDE DEF m
<1>5. m \in Messages
  BY <1>2 DEF m
<1>6. /\ handled'[m] = IF handled[m] = 2 THEN 2 ELSE handled[m] + 1
      /\ \A n \in Messages \ {m} : handled'[n] = handled[n]
      /\ handled' \in [Messages -> 0 .. 2]
  BY <1>4, <1>5 DEF WorkQueueTypeOK
<1>7. WorkQueueTypeOK'
  BY <1>3, <1>4, <1>6 DEF WorkQueueTypeOK
<1>. QED  BY <1>1, <1>2, <1>3, <1>4, <1>6, <1>7 DEF m

LEMMA FailedCopyFields ==
  ASSUME NEW copy \in Copy, NEW count \in 0 .. Retries, copy.tries <= Retries
  PROVE  /\ FailedCopy(copy, count) \in Copy
         /\ FailedCopy(copy, count).msg = copy.msg
         /\ FailedCopy(copy, count).retries = count
         /\ FailedCopy(copy, count).tries = copy.tries + 1
BY CopyFields, WorkQueueAssumption DEF FailedCopy, Copy

\* Where a failed delivery goes and what its copy carries.
LEMMA OnwardFields ==
  ASSUME NEW copy \in Copy, copy.tries = copy.retries
  PROVE  /\ Onward(copy)[1] \in 1 .. Dead /\ Onward(copy)[2] \in Copy
         /\ Onward(copy)[2].msg = copy.msg
         /\ Onward(copy)[1] # Dead => Onward(copy)[2].tries = Onward(copy)[2].retries
         /\ Onward(copy)[1] = Dead /\ copy.msg \notin Poison => Onward(copy)[2].tries > Retries
<1>1. /\ copy.msg \in Messages /\ copy.retries \in 0 .. Retries /\ copy.tries = copy.retries
      /\ Retries \in Nat
  BY CopyFields, WorkQueueAssumption
<1>2. CASE copy.msg \notin Poison /\ copy.retries < Retries
  <2>1. /\ Onward(copy)[1] = copy.retries + 1
        /\ Onward(copy)[2] = FailedCopy(copy, copy.retries + 1)
    BY <1>2 DEF Onward
  <2>2. copy.retries + 1 \in 0 .. Retries
    BY <1>1, <1>2
  <2>. QED  BY <1>1, <1>2, <2>1, <2>2, FailedCopyFields DEF Dead
<1>3. CASE ~(copy.msg \notin Poison /\ copy.retries < Retries)
  <2>1. /\ Onward(copy)[1] = Dead
        /\ Onward(copy)[2] = FailedCopy(copy, copy.retries)
    BY <1>3 DEF Onward
  <2>. QED  BY <1>1, <1>3, <2>1, FailedCopyFields DEF Dead
<1>. QED  BY <1>2, <1>3

LEMMA ForwardEffect ==
  ASSUME WorkQueueTypeOK, NEW c \in Consumers, Forward(c),
         hand[c][1].copy.tries = hand[c][1].copy.retries
  PROVE  LET copy == hand[c][1].copy
             q == Onward(copy)[1]
         IN  /\ WorkQueueTypeOK'
             /\ UNCHANGED <<replaying, peeked, handled, losses>>
             /\ copy \in Copy /\ q \in 1 .. Dead /\ q \in Queues
             /\ Put(q, Onward(copy)[2]) /\ OtherQueues({q})
             /\ hand[c] # Nothing /\ ~hand[c][1].settled
             /\ hand'[c] # Nothing /\ hand'[c][1].copy = copy
             /\ hand'[c][1].settled = TRUE /\ OtherHands(c)
<1>. DEFINE copy == hand[c][1].copy
            q == Onward(copy)[1]
<1>1. hand[c] \in Holdings /\ hand[c] # Nothing /\ ~hand[c][1].settled
  BY DEF Forward, Delivered, WorkQueueTypeOK
<1>2. copy \in Copy
  BY <1>1, HoldingsFields
<1>3. q \in 1 .. Dead /\ Onward(copy)[2] \in Copy
  BY <1>2, OnwardFields
<1>4. q \in Queues
  BY <1>3, WorkQueueAssumption DEF Queues, Dead
<1>5. /\ hand' \in [Consumers -> Holdings]
      /\ hand'[c] # Nothing /\ hand'[c][1].copy = copy
      /\ hand'[c][1].settled = TRUE /\ OtherHands(c)
  BY <1>1, SettleEffect DEF Forward
<1>6. Enqueue(q, Onward(copy)[2]) /\ UNCHANGED <<replaying, peeked, handled, losses>>
  BY DEF Forward
<1>. HIDE DEF q, copy
<1>7. queue' \in [Queues -> Seq(Copy)] /\ Put(q, Onward(copy)[2]) /\ OtherQueues({q})
  BY <1>3, <1>4, <1>6, EnqueueEffect
<1>8. WorkQueueTypeOK'
  BY <1>5, <1>6, <1>7 DEF WorkQueueTypeOK
<1>. QED  BY <1>1, <1>2, <1>3, <1>4, <1>5, <1>6, <1>7, <1>8 DEF q, copy

LEMMA AckEffect ==
  ASSUME WorkQueueTypeOK, NEW c \in Consumers, Ack(c)
  PROVE  /\ WorkQueueTypeOK'
         /\ UNCHANGED <<queue, replaying, peeked, handled, losses>>
         /\ hand[c] # Nothing /\ hand[c][1].settled /\ hand'[c] = Nothing /\ OtherHands(c)
BY DEF Ack, WorkQueueTypeOK, OtherHands, Holdings

LEMMA LoseConsumerEffect ==
  ASSUME WorkQueueTypeOK, NEW c \in Consumers, LoseConsumer(c)
  PROVE  /\ WorkQueueTypeOK'
         /\ UNCHANGED <<replaying, peeked, handled>> /\ losses' = losses + 1
         /\ hand[c] # Nothing /\ hand'[c] = Nothing /\ OtherHands(c)
         /\ RowsOf(queue'[0]) = {hand[c][1].copy} \cup RowsOf(queue[0])
         /\ OtherQueues({0})
<1>1. hand[c] \in Holdings /\ hand[c] # Nothing
  BY DEF LoseConsumer, WorkQueueTypeOK
<1>2. hand[c][1].copy \in Copy
  BY <1>1, HoldingsFields
<1>3. /\ <<hand[c][1].copy>> \in Seq(Copy)
      /\ RowsOf(<<hand[c][1].copy>>) = {hand[c][1].copy}
  BY <1>2, RowsOfOne
<1>4. queue' = [queue EXCEPT ![0] = <<hand[c][1].copy>> \o queue[0]]
  BY DEF LoseConsumer
<1>5. /\ queue' \in [Queues -> Seq(Copy)]
      /\ PutBack(0, <<hand[c][1].copy>>) /\ OtherQueues({0})
  BY <1>3, <1>4, QueueNames, ReturnEffect
<1>6. hand' = [hand EXCEPT ![c] = Nothing] /\ losses' = losses + 1 /\ losses < MaxLosses
  BY DEF LoseConsumer, Loss
<1>7. hand' \in [Consumers -> Holdings] /\ hand'[c] = Nothing /\ OtherHands(c)
  BY <1>6 DEF WorkQueueTypeOK, Holdings, OtherHands
<1>8. losses' \in 0 .. MaxLosses
  BY <1>6, WorkQueueAssumption DEF WorkQueueTypeOK
<1>9. WorkQueueTypeOK'
  BY <1>5, <1>7, <1>8 DEF WorkQueueTypeOK, LoseConsumer
<1>. QED  BY <1>1, <1>3, <1>5, <1>6, <1>7, <1>9 DEF PutBack, LoseConsumer

LEMMA ExpireEffect ==
  ASSUME WorkQueueTypeOK, NEW q \in Queues, Expire(q)
  PROVE  /\ WorkQueueTypeOK'
         /\ UNCHANGED <<hand, replaying, peeked, handled, losses>>
         /\ q \in 1 .. Retries
         /\ Head(queue[q]) \in Copy
         /\ Took(q, Head(queue[q])) /\ Put(0, Head(queue[q])) /\ OtherQueues({0, q})
<1>1. /\ q \in 1 .. Retries /\ queue[q] # <<>>
      /\ queue' = [queue EXCEPT ![q] = Tail(@), ![0] = Append(@, Head(queue[q]))]
      /\ UNCHANGED <<hand, replaying, peeked, handled, losses>>
  BY DEF Expire
<1>2. queue[q] \in Seq(Copy) /\ queue[0] \in Seq(Copy)
  BY QueueNames DEF WorkQueueTypeOK
<1>3. /\ queue'[q] = Tail(queue[q]) /\ queue'[0] = Append(queue[0], Head(queue[q]))
      /\ OtherQueues({0, q})
      /\ DOMAIN queue' = Queues
  BY <1>1, QueueNames DEF WorkQueueTypeOK, OtherQueues
<1>4. /\ Head(queue[q]) \in Copy /\ Tail(queue[q]) \in Seq(Copy)
      /\ RowsOf(queue[q]) = {Head(queue[q])} \cup RowsOf(Tail(queue[q]))
  BY <1>1, <1>2, RowsOfHead
<1>5. /\ Append(queue[0], Head(queue[q])) \in Seq(Copy)
      /\ RowsOf(Append(queue[0], Head(queue[q]))) = RowsOf(queue[0]) \cup {Head(queue[q])}
  BY <1>2, <1>4, RowsOfAppend
<1>6. queue' \in [Queues -> Seq(Copy)]
  BY <1>1, <1>4, <1>5 DEF WorkQueueTypeOK
<1>7. WorkQueueTypeOK'
  BY <1>1, <1>6 DEF WorkQueueTypeOK
<1>. QED  BY <1>1, <1>3, <1>4, <1>5, <1>7 DEF Took, Put

LEMMA ReplayGetEffect ==
  ASSUME WorkQueueTypeOK, ReplayGet
  PROVE  /\ WorkQueueTypeOK'
         /\ UNCHANGED <<hand, peeked, handled, losses>>
         /\ Head(queue[Dead]) \in Copy
         /\ Took(Dead, Head(queue[Dead])) /\ OtherQueues({Dead})
         /\ replaying = Nothing /\ replaying' = Holding(Head(queue[Dead]), FALSE)
<1>1. /\ queue' \in [Queues -> Seq(Copy)]
      /\ Head(queue[Dead]) \in Copy
      /\ Took(Dead, Head(queue[Dead])) /\ OtherQueues({Dead})
  BY QueueNames, TakeEffect DEF ReplayGet
<1>2. Holding(Head(queue[Dead]), FALSE) \in Holdings
  BY <1>1, HoldingType
<1>. QED  BY <1>1, <1>2 DEF ReplayGet, WorkQueueTypeOK

LEMMA ReplayPublishEffect ==
  ASSUME WorkQueueTypeOK, ReplayPublish
  PROVE  /\ WorkQueueTypeOK'
         /\ UNCHANGED <<hand, peeked, handled, losses>>
         /\ replaying # Nothing /\ ~replaying[1].settled
         /\ replaying[1].copy \in Copy
         /\ Put(0, Fresh(replaying[1].copy.msg)) /\ OtherQueues({0})
         /\ Fresh(replaying[1].copy.msg) \in Copy
         /\ replaying' # Nothing /\ replaying'[1].copy = replaying[1].copy
         /\ replaying'[1].settled = TRUE
<1>1. replaying \in Holdings /\ replaying # Nothing /\ ~replaying[1].settled
  BY DEF ReplayPublish, WorkQueueTypeOK
<1>2. replaying[1].copy \in Copy /\ replaying[1].copy.msg \in Messages
  BY <1>1, HoldingsFields, CopyFields
<1>3. Fresh(replaying[1].copy.msg) \in Copy
  BY <1>2, FreshCopy
<1>4. Enqueue(0, Fresh(replaying[1].copy.msg))
  BY DEF ReplayPublish, Replayed
<1>5. /\ queue' \in [Queues -> Seq(Copy)]
      /\ Put(0, Fresh(replaying[1].copy.msg)) /\ OtherQueues({0})
  BY <1>3, <1>4, QueueNames, EnqueueEffect
<1>6. /\ replaying' \in Holdings /\ replaying' # Nothing
      /\ replaying'[1].copy = replaying[1].copy /\ replaying'[1].settled = TRUE
  BY <1>1, SettledFields DEF ReplayPublish
<1>7. WorkQueueTypeOK'
  BY <1>5, <1>6 DEF ReplayPublish, WorkQueueTypeOK
<1>. QED  BY <1>1, <1>2, <1>3, <1>5, <1>6, <1>7 DEF ReplayPublish

LEMMA ReplayAckEffect ==
  ASSUME WorkQueueTypeOK, ReplayAck
  PROVE  /\ WorkQueueTypeOK'
         /\ UNCHANGED <<queue, hand, peeked, handled, losses>>
         /\ replaying # Nothing /\ replaying[1].settled /\ replaying' = Nothing
BY DEF ReplayAck, WorkQueueTypeOK, Holdings

LEMMA LoseReplayEffect ==
  ASSUME WorkQueueTypeOK, LoseReplay
  PROVE  /\ WorkQueueTypeOK'
         /\ UNCHANGED <<hand, peeked, handled>> /\ losses' = losses + 1
         /\ replaying # Nothing /\ replaying' = Nothing
         /\ RowsOf(queue'[Dead]) = {replaying[1].copy} \cup RowsOf(queue[Dead])
         /\ OtherQueues({Dead})
<1>1. replaying \in Holdings /\ replaying # Nothing
  BY DEF LoseReplay, WorkQueueTypeOK
<1>2. replaying[1].copy \in Copy
  BY <1>1, HoldingsFields
<1>3. /\ <<replaying[1].copy>> \in Seq(Copy)
      /\ RowsOf(<<replaying[1].copy>>) = {replaying[1].copy}
  BY <1>2, RowsOfOne
<1>4. queue' = [queue EXCEPT ![Dead] = <<replaying[1].copy>> \o queue[Dead]]
  BY DEF LoseReplay
<1>5. /\ queue' \in [Queues -> Seq(Copy)]
      /\ PutBack(Dead, <<replaying[1].copy>>) /\ OtherQueues({Dead})
  BY <1>3, <1>4, QueueNames, ReturnEffect
<1>6. losses' = losses + 1 /\ losses' \in 0 .. MaxLosses
  BY WorkQueueAssumption DEF WorkQueueTypeOK, LoseReplay, Loss
<1>7. WorkQueueTypeOK'
  BY <1>5, <1>6 DEF WorkQueueTypeOK, LoseReplay, Holdings
<1>. QED  BY <1>1, <1>3, <1>5, <1>6, <1>7 DEF PutBack, LoseReplay

LEMMA PeekGetEffect ==
  ASSUME WorkQueueTypeOK, PeekGet
  PROVE  /\ WorkQueueTypeOK'
         /\ UNCHANGED <<hand, replaying, handled, losses>>
         /\ Head(queue[Dead]) \in Copy
         /\ Took(Dead, Head(queue[Dead])) /\ OtherQueues({Dead})
         /\ peeked' = Append(peeked, Head(queue[Dead]))
         /\ RowsOf(peeked') = RowsOf(peeked) \cup {Head(queue[Dead])}
<1>1. /\ queue' \in [Queues -> Seq(Copy)]
      /\ Head(queue[Dead]) \in Copy
      /\ Took(Dead, Head(queue[Dead])) /\ OtherQueues({Dead})
  BY QueueNames, TakeEffect DEF PeekGet
<1>2. peeked \in Seq(Copy) /\ Len(peeked) < PeekLimit /\ peeked' = Append(peeked, Head(queue[Dead]))
  BY DEF PeekGet, WorkQueueTypeOK
<1>3. /\ peeked' \in Seq(Copy) /\ Len(peeked') = Len(peeked) + 1
      /\ RowsOf(peeked') = RowsOf(peeked) \cup {Head(queue[Dead])}
  BY <1>1, <1>2, RowsOfAppend
<1>4. Len(peeked) \in Nat
  BY <1>2, LenProperties
<1>5. Len(peeked') <= PeekLimit
  BY <1>2, <1>3, <1>4, WorkQueueAssumption
<1>6. WorkQueueTypeOK'
  BY <1>1, <1>3, <1>5 DEF PeekGet, WorkQueueTypeOK
<1>. QED  BY <1>1, <1>2, <1>3, <1>6 DEF PeekGet

LEMMA PeekReturnEffect ==
  ASSUME WorkQueueTypeOK, PeekReturn
  PROVE  /\ WorkQueueTypeOK'
         /\ UNCHANGED <<hand, replaying, handled, losses>>
         /\ PutBack(Dead, peeked) /\ OtherQueues({Dead})
         /\ peeked' = <<>> /\ RowsOf(peeked') = {}
<1>1. /\ queue' \in [Queues -> Seq(Copy)]
      /\ PutBack(Dead, peeked) /\ OtherQueues({Dead})
  BY QueueNames, ReturnEffect DEF PeekReturn, WorkQueueTypeOK
<1>2. peeked' = <<>> /\ <<>> \in Seq(Copy) /\ Len(<<>>) = 0
  BY EmptySeq DEF PeekReturn
<1>3. WorkQueueTypeOK'
  BY <1>1, <1>2, WorkQueueAssumption DEF PeekReturn, WorkQueueTypeOK
<1>. QED  BY <1>1, <1>2, <1>3, RowsOfEmpty DEF PeekReturn

-----------------------------------------------------------------------------
(* The same for the relay. *)

LEMMA WriteEffect ==
  ASSUME OutboxTypeOK, NEW rows \in Transactions, Write(rows)
  PROVE  /\ OutboxTypeOK'
         /\ UNCHANGED <<batch, sent, listening, queueVars>>
         /\ rows \cap written = {} /\ written' = written \cup rows
         /\ \A row \in Rows :
              IF row \in rows THEN outbox'[row] # Absent ELSE outbox'[row] = outbox[row]
<1>1. rows \subseteq Rows /\ Instants \in Nat
  BY RelayAssumption
<1>2. PICK begun \in 1 .. Instants :
        outbox' = [row \in Rows |-> IF row \in rows THEN begun ELSE outbox[row]]
  BY DEF Write
<1>3. outbox' \in [Rows -> 0 .. Instants]
  BY <1>1, <1>2 DEF OutboxTypeOK
<1>4. OutboxTypeOK'
  BY <1>1, <1>3 DEF Write, OutboxTypeOK
<1>5. begun # Absent
  BY DEF Absent
<1>. QED  BY <1>2, <1>4, <1>5 DEF Write

LEMMA FetchEffect ==
  ASSUME OutboxTypeOK, NEW r \in Relays, Fetch(r)
  PROVE  /\ OutboxTypeOK'
         /\ UNCHANGED <<outbox, written, sent, listening, queueVars>>
         /\ ~Passing(r)
         /\ \A t \in Relays \ {r} : batch'[t] = batch[t]
         /\ RowsOf(batch'[r]) \subseteq Free
         /\ \A i, j \in 1 .. Len(batch'[r]) : i # j => batch'[r][i] # batch'[r][j]
<1>1. PICK pass \in Passes : batch' = [batch EXCEPT ![r] = pass]
  BY DEF Fetch
<1>2. PICK n \in 1 .. BatchSize : pass \in [1 .. n -> Free]
  BY DEF Passes
<1>3. pass \in Seq(Free) /\ Free \subseteq Rows
  BY <1>2, RelayAssumption DEF Free
<1>4. pass \in Seq(Rows)
  BY <1>3
<1>5. batch'[r] = pass /\ \A t \in Relays \ {r} : batch'[t] = batch[t]
  BY <1>1 DEF OutboxTypeOK
<1>6. RowsOf(pass) \subseteq Free
  BY <1>3, RowsOfType
<1>7. ASSUME NEW i \in 1 .. Len(pass), NEW j \in 1 .. Len(pass), i # j
      PROVE  pass[i] # pass[j]
  <2>1. \A a, b \in 1 .. Len(pass) : a < b => pass[a] # pass[b]
    BY DEF Passes
  <2>2. Len(pass) \in Nat
    BY <1>4, LenProperties
  <2>. QED  BY <1>7, <2>1, <2>2
<1>8. OutboxTypeOK'
  BY <1>1, <1>4 DEF Fetch, OutboxTypeOK
<1>. QED  BY <1>5, <1>6, <1>7, <1>8 DEF Fetch

LEMMA PublishEffect ==
  ASSUME TypeOK, NEW r \in Relays, PublishRow(r)
  PROVE  LET row == Head(batch[r])
         IN  /\ TypeOK'
             /\ UNCHANGED <<outbox, written, listening, hand, replaying, peeked, handled, losses>>
             /\ batch[r] # <<>> /\ row \in Rows
             /\ batch'[r] = Tail(batch[r])
             /\ RowsOf(batch[r]) = {row} \cup RowsOf(batch'[r])
             /\ \A t \in Relays \ {r} : batch'[t] = batch[t] /\ sent'[t] = sent[t]
             /\ sent'[r] = sent[r] \cup {row}
             /\ IF row \in Messages
                THEN Put(0, Fresh(row)) /\ OtherQueues({0}) /\ Fresh(row) \in Copy
                ELSE queue' = queue
<1>. DEFINE row == Head(batch[r])
<1>1. batch[r] \in Seq(Rows) /\ batch[r] # <<>>
  BY DEF TypeOK, OutboxTypeOK, PublishRow
<1>2. /\ row \in Rows /\ Tail(batch[r]) \in Seq(Rows)
      /\ RowsOf(batch[r]) = {row} \cup RowsOf(Tail(batch[r]))
  BY <1>1, RowsOfHead
<1>3. /\ UNCHANGED <<outbox, written, listening, hand, replaying, peeked, handled, losses>>
      /\ IF row \in Messages THEN Enqueue(0, Fresh(row)) ELSE UNCHANGED queue
      /\ sent' = [sent EXCEPT ![r] = @ \cup {row}]
      /\ batch' = [batch EXCEPT ![r] = Tail(@)]
  BY DEF PublishRow
<1>. HIDE DEF row
<1>4. /\ batch'[r] = Tail(batch[r])
      /\ \A t \in Relays \ {r} : batch'[t] = batch[t] /\ sent'[t] = sent[t]
      /\ sent'[r] = sent[r] \cup {row}
  BY <1>3 DEF TypeOK, OutboxTypeOK
<1>5. OutboxTypeOK'
  BY <1>2, <1>3 DEF TypeOK, OutboxTypeOK
<1>6. CASE row \in Messages
  <2>1. Fresh(row) \in Copy
    BY <1>6, FreshCopy
  <2>2. queue' \in [Queues -> Seq(Copy)] /\ Put(0, Fresh(row)) /\ OtherQueues({0})
    BY <1>3, <1>6, <2>1, QueueNames, EnqueueEffect DEF TypeOK
  <2>3. TypeOK'
    BY <1>3, <1>5, <2>2 DEF TypeOK, WorkQueueTypeOK
  <2>. QED  BY <1>1, <1>2, <1>3, <1>4, <1>6, <2>1, <2>2, <2>3 DEF row
<1>7. CASE row \notin Messages
  <2>1. queue' = queue
    BY <1>3, <1>7
  <2>2. TypeOK'
    BY <1>3, <1>5, <2>1 DEF TypeOK, WorkQueueTypeOK
  <2>. QED  BY <1>1, <1>2, <1>3, <1>4, <1>7, <2>1, <2>2 DEF row
<1>. QED  BY <1>6, <1>7

LEMMA RollBackEffect ==
  ASSUME OutboxTypeOK, NEW r \in Relays, RollBack(r)
  PROVE  /\ OutboxTypeOK'
         /\ UNCHANGED <<outbox, written, listening, queue, hand, replaying, peeked, handled>>
         /\ batch'[r] = <<>> /\ sent'[r] = {}
         /\ \A t \in Relays \ {r} : batch'[t] = batch[t] /\ sent'[t] = sent[t]
<1>1. batch' \in [Relays -> Seq(Rows)]
  BY EmptySeq DEF OutboxTypeOK, RollBack
<1>. QED  BY <1>1 DEF OutboxTypeOK, RollBack

LEMMA MarkEffect ==
  ASSUME OutboxTypeOK, NEW r \in Relays, MarkPublished(r)
  PROVE  /\ OutboxTypeOK'
         /\ UNCHANGED <<written, batch, listening, queueVars>>
         /\ batch[r] = <<>> /\ sent'[r] = {}
         /\ \A t \in Relays \ {r} : sent'[t] = sent[t]
         /\ \A row \in Rows :
              IF row \in sent[r] THEN outbox'[row] = Absent ELSE outbox'[row] = outbox[row]
<1>1. outbox' = [row \in Rows |-> IF row \in sent[r] THEN Absent ELSE outbox[row]]
  BY DEF MarkPublished
<1>2. outbox' \in [Rows -> 0 .. Instants]
  BY <1>1, RelayAssumption DEF OutboxTypeOK, Absent
<1>3. OutboxTypeOK'
  BY <1>2 DEF MarkPublished, OutboxTypeOK
<1>. QED  BY <1>1, <1>3 DEF MarkPublished, OutboxTypeOK

\* The losses of a step that may lose something.
LEMMA LossType ==
  ASSUME WorkQueueTypeOK, Loss
  PROVE  losses' = losses + 1 /\ losses' \in 0 .. MaxLosses
BY WorkQueueAssumption DEF WorkQueueTypeOK, Loss

-----------------------------------------------------------------------------
(* Retry counts.  On its way to a handler a copy's header tells how often  *)
(* it has failed; once parked, a message that is not poison has failed     *)
(* more often than there are retries.  Without this the types do not hold  *)
(* either: what bounds the count is that it is compared before it is       *)
(* raised.                                                                 *)

Counted(copy) == copy.tries = copy.retries
TriedOut(copy) == copy.msg \notin Poison => copy.tries > Retries

TriesInv ==
  /\ \A q \in 0 .. Retries : \A copy \in RowsOf(queue[q]) : Counted(copy)
  /\ \A c \in Consumers : hand[c] # Nothing => Counted(hand[c][1].copy)
  /\ \A copy \in RowsOf(queue[Dead]) \cup RowsOf(peeked) : TriedOut(copy)
  /\ replaying # Nothing => TriedOut(replaying[1].copy)

CopyInv == TypeOK /\ TriesInv

LEMMA CopyInit == Init => CopyInv
<1> SUFFICES ASSUME Init PROVE CopyInv
  OBVIOUS
<1>1. <<>> \in Seq(Copy) /\ Len(<<>>) = 0 /\ <<>> \in Seq(Rows)
  BY EmptySeq
<1>2. WorkQueueTypeOK
  BY <1>1, WorkQueueAssumption DEF Init, WorkQueueInit, WorkQueueTypeOK, Holdings
<1>3. OutboxTypeOK
  BY <1>1, RelayAssumption DEF Init, OutboxInit, OutboxTypeOK, Absent
<1>4. TriesInv
  BY QueueNames, RowsOfEmpty DEF Init, WorkQueueInit, TriesInv
<1>. QED  BY <1>2, <1>3, <1>4 DEF CopyInv, TypeOK

LEMMA QueueStepCounts ==
  ASSUME CopyInv, QueueStep
  PROVE  WorkQueueTypeOK' /\ TriesInv'
<1>. USE QueueNames
<1>1. WorkQueueTypeOK /\ TriesInv
  BY DEF CopyInv, TypeOK
<1>2. ASSUME NEW c \in Consumers, Deliver(c)
      PROVE  WorkQueueTypeOK' /\ TriesInv'
  <2>1. /\ WorkQueueTypeOK'
        /\ UNCHANGED <<replaying, peeked, handled, losses>>
        /\ Took(0, Head(queue[0])) /\ OtherQueues({0})
        /\ hand'[c] = Holding(Head(queue[0]), FALSE) /\ OtherHands(c)
    BY <1>1, <1>2, DeliverEffect
  <2>2. Counted(Head(queue[0]))
    BY <1>1, <2>1, WorkQueueAssumption DEF TriesInv, Took
  <2>3. Counted(hand'[c][1].copy)
    <3>1. hand'[c][1].copy = Head(queue[0])
      BY <2>1, HoldingFields, Zenon
    <3>. QED  BY <2>2, <3>1, Zenon
  <2>. QED  BY <1>1, <2>1, <2>3 DEF TriesInv, Took, OtherQueues, OtherHands
<1>3. ASSUME NEW c \in Consumers, Succeed(c)
      PROVE  WorkQueueTypeOK' /\ TriesInv'
  <2>1. /\ WorkQueueTypeOK'
        /\ UNCHANGED <<queue, replaying, peeked, losses>>
        /\ hand[c] # Nothing /\ hand'[c][1].copy = hand[c][1].copy /\ OtherHands(c)
    BY <1>1, <1>3, SucceedEffect
  <2>. QED  BY <1>1, <2>1 DEF TriesInv, OtherHands
<1>4. ASSUME NEW c \in Consumers, Forward(c)
      PROVE  WorkQueueTypeOK' /\ TriesInv'
  <2>. DEFINE copy == hand[c][1].copy
              q == Onward(copy)[1]
  <2>1. Counted(copy)
    BY <1>1, <1>4 DEF Forward, Delivered, TriesInv
  <2>2. /\ WorkQueueTypeOK'
        /\ UNCHANGED <<replaying, peeked, handled, losses>>
        /\ copy \in Copy /\ q \in Queues
        /\ Put(q, Onward(copy)[2]) /\ OtherQueues({q})
        /\ hand[c] # Nothing /\ hand'[c][1].copy = copy /\ OtherHands(c)
    BY <1>1, <1>4, <2>1, ForwardEffect DEF Counted
  <2>3. /\ q # Dead => Counted(Onward(copy)[2])
        /\ q = Dead => TriedOut(Onward(copy)[2])
    BY <2>1, <2>2, OnwardFields DEF Counted, TriedOut
  <2>. HIDE DEF q, copy
  <2>4. ASSUME NEW x \in 0 .. Retries, NEW y \in RowsOf(queue'[x])
        PROVE  Counted(y)
    BY <1>1, <2>2, <2>3, <2>4 DEF TriesInv, Put, OtherQueues
  <2>5. ASSUME NEW y \in RowsOf(queue'[Dead]) \cup RowsOf(peeked')
        PROVE  TriedOut(y)
    BY <1>1, <2>2, <2>3, <2>5 DEF TriesInv, Put, OtherQueues
  <2>6. \A d \in Consumers : hand'[d] # Nothing => Counted(hand'[d][1].copy)
    BY <1>1, <2>1, <2>2 DEF TriesInv, OtherHands
  <2>. QED  BY <1>1, <2>2, <2>4, <2>5, <2>6 DEF TriesInv
<1>5. ASSUME NEW c \in Consumers, Ack(c)
      PROVE  WorkQueueTypeOK' /\ TriesInv'
  <2>1. /\ WorkQueueTypeOK'
        /\ UNCHANGED <<queue, replaying, peeked, handled, losses>>
        /\ hand'[c] = Nothing /\ OtherHands(c)
    BY <1>1, <1>5, AckEffect
  <2>. QED  BY <1>1, <2>1 DEF TriesInv, OtherHands
<1>6. ASSUME NEW c \in Consumers, LoseConsumer(c)
      PROVE  WorkQueueTypeOK' /\ TriesInv'
  <2>1. /\ WorkQueueTypeOK'
        /\ UNCHANGED <<replaying, peeked, handled>>
        /\ hand[c] # Nothing /\ hand'[c] = Nothing /\ OtherHands(c)
        /\ RowsOf(queue'[0]) = {hand[c][1].copy} \cup RowsOf(queue[0])
        /\ OtherQueues({0})
    BY <1>1, <1>6, LoseConsumerEffect
  <2>. QED  BY <1>1, <2>1 DEF TriesInv, OtherHands, OtherQueues
<1>7. ASSUME NEW q \in Queues, Expire(q)
      PROVE  WorkQueueTypeOK' /\ TriesInv'
  <2>1. /\ WorkQueueTypeOK'
        /\ UNCHANGED <<hand, replaying, peeked, handled, losses>>
        /\ q \in 1 .. Retries
        /\ Took(q, Head(queue[q])) /\ Put(0, Head(queue[q])) /\ OtherQueues({0, q})
    BY <1>1, <1>7, ExpireEffect
  <2>2. Counted(Head(queue[q]))
    BY <1>1, <2>1 DEF TriesInv, Took
  <2>3. ASSUME NEW x \in 0 .. Retries, NEW y \in RowsOf(queue'[x])
        PROVE  Counted(y)
    BY <1>1, <2>1, <2>2, <2>3 DEF TriesInv, Took, Put, OtherQueues
  <2>. QED  BY <1>1, <2>1, <2>3 DEF TriesInv, OtherQueues
<1>8. CASE ReplayGet
  <2>1. /\ WorkQueueTypeOK'
        /\ UNCHANGED <<hand, peeked, handled, losses>>
        /\ Took(Dead, Head(queue[Dead])) /\ OtherQueues({Dead})
        /\ replaying' = Holding(Head(queue[Dead]), FALSE)
    BY <1>1, <1>8, ReplayGetEffect
  <2>2. TriedOut(Head(queue[Dead]))
    BY <1>1, <2>1 DEF TriesInv, Took
  <2>3. TriedOut(replaying'[1].copy)
    <3>1. replaying'[1].copy = Head(queue[Dead])
      BY <2>1, HoldingFields, Zenon
    <3>. QED  BY <2>2, <3>1, Zenon
  <2>. QED  BY <1>1, <2>1, <2>3 DEF TriesInv, Took, OtherQueues
<1>9. CASE ReplayPublish
  <2>1. /\ WorkQueueTypeOK'
        /\ UNCHANGED <<hand, peeked, handled, losses>>
        /\ replaying # Nothing /\ replaying[1].copy \in Copy
        /\ Put(0, Fresh(replaying[1].copy.msg)) /\ OtherQueues({0})
        /\ replaying'[1].copy = replaying[1].copy
    BY <1>1, <1>9, ReplayPublishEffect
  <2>2. Counted(Fresh(replaying[1].copy.msg))
    BY <2>1, CopyFields, FreshCopy DEF Counted
  <2>. QED  BY <1>1, <2>1, <2>2 DEF TriesInv, Put, OtherQueues
<1>10. CASE ReplayAck
  BY <1>1, <1>10, ReplayAckEffect DEF TriesInv
<1>11. CASE LoseReplay
  <2>1. /\ WorkQueueTypeOK'
        /\ UNCHANGED <<hand, peeked, handled>>
        /\ replaying # Nothing /\ replaying' = Nothing
        /\ RowsOf(queue'[Dead]) = {replaying[1].copy} \cup RowsOf(queue[Dead])
        /\ OtherQueues({Dead})
    BY <1>1, <1>11, LoseReplayEffect
  <2>. QED  BY <1>1, <2>1 DEF TriesInv, OtherQueues
<1>12. CASE PeekGet
  <2>1. /\ WorkQueueTypeOK'
        /\ UNCHANGED <<hand, replaying, handled, losses>>
        /\ Took(Dead, Head(queue[Dead])) /\ OtherQueues({Dead})
        /\ RowsOf(peeked') = RowsOf(peeked) \cup {Head(queue[Dead])}
    BY <1>1, <1>12, PeekGetEffect
  <2>. QED  BY <1>1, <2>1 DEF TriesInv, Took, OtherQueues
<1>13. CASE PeekReturn
  <2>1. /\ WorkQueueTypeOK'
        /\ UNCHANGED <<hand, replaying, handled, losses>>
        /\ PutBack(Dead, peeked) /\ OtherQueues({Dead})
        /\ RowsOf(peeked') = {}
    BY <1>1, <1>13, PeekReturnEffect
  <2>. QED  BY <1>1, <2>1 DEF TriesInv, PutBack, OtherQueues
<1>. QED
  BY <1>2, <1>3, <1>4, <1>5, <1>6, <1>7, <1>8, <1>9, <1>10, <1>11, <1>12, <1>13 DEF QueueStep

LEMMA RelayStepCounts ==
  ASSUME CopyInv, RelayStep
  PROVE  TypeOK' /\ TriesInv'
<1>. USE QueueNames
<1>1. TypeOK /\ WorkQueueTypeOK /\ OutboxTypeOK /\ TriesInv
  BY DEF CopyInv, TypeOK
<1>2. ASSUME OutboxTypeOK', UNCHANGED <<queue, hand, replaying, peeked, handled>>,
             losses' \in 0 .. MaxLosses
      PROVE  TypeOK' /\ TriesInv'
  BY <1>1, <1>2 DEF TypeOK, WorkQueueTypeOK, TriesInv
<1>3. losses \in 0 .. MaxLosses
  BY <1>1 DEF WorkQueueTypeOK
<1>4. ASSUME NEW rows \in Transactions, Write(rows)
      PROVE  TypeOK' /\ TriesInv'
  BY <1>1, <1>2, <1>3, <1>4, WriteEffect DEF queueVars
<1>5. ASSUME NEW r \in Relays, Fetch(r)
      PROVE  TypeOK' /\ TriesInv'
  BY <1>1, <1>2, <1>3, <1>5, FetchEffect DEF queueVars
<1>6. ASSUME NEW r \in Relays, PublishRow(r)
      PROVE  TypeOK' /\ TriesInv'
  <2>. DEFINE row == Head(batch[r])
  <2>1. /\ TypeOK'
        /\ UNCHANGED <<hand, replaying, peeked>>
        /\ IF row \in Messages
           THEN Put(0, Fresh(row)) /\ OtherQueues({0})
           ELSE queue' = queue
    BY <1>1, <1>6, PublishEffect
  <2>2. row \in Messages => Counted(Fresh(row))
    BY FreshCopy DEF Counted
  <2>. HIDE DEF row
  <2>. QED  BY <1>1, <2>1, <2>2 DEF TriesInv, Put, OtherQueues
<1>7. ASSUME NEW r \in Relays, Unroutable(r) \/ RelayDies(r)
      PROVE  TypeOK' /\ TriesInv'
  <2>1. RollBack(r) /\ (Loss \/ losses' = losses)
    BY <1>7 DEF Unroutable, RelayDies
  <2>2. losses' \in 0 .. MaxLosses
    BY <1>1, <1>3, <2>1, LossType
  <2>. QED  BY <1>1, <1>2, <2>1, <2>2, RollBackEffect
<1>8. ASSUME NEW r \in Relays, MarkPublished(r)
      PROVE  TypeOK' /\ TriesInv'
  BY <1>1, <1>2, <1>3, <1>8, MarkEffect DEF queueVars
<1>9. CASE Connect \/ Disconnect
  <2>1. OutboxTypeOK'
    BY <1>1, <1>9 DEF Connect, Disconnect, OutboxTypeOK
  <2>2. losses' \in 0 .. MaxLosses
    BY <1>1, <1>3, <1>9, LossType DEF Connect, Disconnect, queueVars
  <2>. QED  BY <1>2, <1>9, <2>1, <2>2 DEF Connect, Disconnect, queueVars
<1>. QED  BY <1>4, <1>5, <1>6, <1>7, <1>8, <1>9 DEF RelayStep

LEMMA CopyNext == CopyInv /\ [Next]_vars => CopyInv'
<1> SUFFICES ASSUME CopyInv, [Next]_vars PROVE CopyInv'
  OBVIOUS
<1>1. CASE RelayStep
  BY <1>1, RelayStepCounts DEF CopyInv
<1>2. CASE QueueStep /\ UNCHANGED relayVars
  <2>1. OutboxTypeOK'
    BY <1>2 DEF CopyInv, TypeOK, OutboxTypeOK, relayVars
  <2>. QED  BY <1>2, <2>1, QueueStepCounts DEF CopyInv, TypeOK
<1>3. CASE UNCHANGED vars
  BY <1>3 DEF CopyInv, TypeOK, WorkQueueTypeOK, OutboxTypeOK, TriesInv, vars, relayVars, queueVars
<1>. QED  BY <1>1, <1>2, <1>3 DEF Next

\* Every copy of every message keeps the counts it is allowed to have.
THEOREM MessagingTypeOK == Spec => []TypeOK
<1>1. CopyInv => TypeOK
  BY DEF CopyInv
<1>. QED  BY <1>1, CopyInit, CopyNext, PTL DEF Spec

\* A message that retrying could help is parked only when its handler has failed
\* once and then once per retry, also after a replay.
THEOREM ParksAfterAllTries == Spec => []ParkedAfterAllTries
<1>1. CopyInv => ParkedAfterAllTries
  BY DEF CopyInv, TriesInv, TriedOut, ParkedAfterAllTries, RowsOf
<1>. QED  BY <1>1, CopyInit, CopyNext, PTL DEF Spec

-----------------------------------------------------------------------------
(* Nothing is lost.  A delivery that is settled does not count: its        *)
(* acknowledgement may be the next step.  Once a message is kept           *)
(* somewhere every step keeps it, and a row is sent only once it is kept.  *)

OnSomeQueue(m) == \E q \in Queues : \E copy \in RowsOf(queue[q]) : copy.msg = m
Unsettled(holding, m) == holding # Nothing /\ ~holding[1].settled /\ holding[1].copy.msg = m
InSomeHand(m) == \E c \in Consumers : Unsettled(hand[c], m)
LookedAt(m) == \E copy \in RowsOf(peeked) : copy.msg = m

Kept(m) ==
  \/ OnSomeQueue(m)
  \/ InSomeHand(m)
  \/ LookedAt(m)
  \/ Unsettled(replaying, m)
  \/ handled[m] > 0

KeptInv ==
  /\ \A m \in Messages \cap written : Unpublished(m) \/ Kept(m)
  /\ \A r \in Relays : \A m \in Messages \cap sent[r] : Kept(m)

LossInv == CopyInv /\ KeptInv

LEMMA QueueStepKeeps ==
  ASSUME CopyInv, QueueStep, NEW m \in Messages, Kept(m)
  PROVE  Kept(m)'
<1>. USE QueueNames
<1>1. WorkQueueTypeOK /\ TriesInv
  BY DEF CopyInv, TypeOK
<1>2. ASSUME NEW c \in Consumers, Deliver(c)
      PROVE  Kept(m)'
  <2>1. /\ UNCHANGED <<replaying, peeked, handled, losses>>
        /\ Took(0, Head(queue[0])) /\ OtherQueues({0})
        /\ hand[c] = Nothing /\ hand'[c] = Holding(Head(queue[0]), FALSE) /\ OtherHands(c)
    BY <1>1, <1>2, DeliverEffect
  <2>2. Head(queue[0]).msg = m => Unsettled(hand'[c], m)
    <3>1. Head(queue[0]).msg = m => Unsettled(Holding(Head(queue[0]), FALSE), m)
      BY HoldingFields, Zenon DEF Unsettled
    <3>. QED  BY <2>1, <3>1, Zenon
  <2>3. OnSomeQueue(m) => OnSomeQueue(m)' \/ Head(queue[0]).msg = m
    BY <2>1 DEF OnSomeQueue, Took, OtherQueues
  <2>4. InSomeHand(m) => InSomeHand(m)'
    BY <2>1 DEF InSomeHand, OtherHands, Unsettled
  <2>. QED  BY <2>1, <2>2, <2>3, <2>4 DEF Kept, InSomeHand, LookedAt
<1>3. ASSUME NEW c \in Consumers, Succeed(c)
      PROVE  Kept(m)'
  <2>. DEFINE n == hand[c][1].copy.msg
  <2>1. /\ UNCHANGED <<queue, replaying, peeked, losses>>
        /\ OtherHands(c)
        /\ handled'[n] = IF handled[n] = 2 THEN 2 ELSE handled[n] + 1
        /\ \A k \in Messages \ {n} : handled'[k] = handled[k]
    BY <1>1, <1>3, SucceedEffect
  <2>2. handled[m] \in 0 .. 2
    BY <1>1 DEF WorkQueueTypeOK
  <2>3. n = m => handled'[m] > 0
    BY <2>1, <2>2
  <2>4. n # m => handled'[m] = handled[m]
    BY <2>1
  <2>5. InSomeHand(m) => InSomeHand(m)' \/ n = m
    BY <2>1 DEF InSomeHand, OtherHands, Unsettled
  <2>. HIDE DEF n
  <2>. QED  BY <2>1, <2>3, <2>4, <2>5 DEF Kept, OnSomeQueue, LookedAt
<1>4. ASSUME NEW c \in Consumers, Forward(c)
      PROVE  Kept(m)'
  <2>. DEFINE copy == hand[c][1].copy
              q == Onward(copy)[1]
  <2>1. Counted(copy)
    BY <1>1, <1>4 DEF Forward, Delivered, TriesInv
  <2>2. /\ UNCHANGED <<replaying, peeked, handled, losses>>
        /\ copy \in Copy /\ q \in Queues
        /\ Put(q, Onward(copy)[2]) /\ OtherQueues({q}) /\ OtherHands(c)
    BY <1>1, <1>4, <2>1, ForwardEffect DEF Counted
  <2>3. Onward(copy)[2].msg = copy.msg
    BY <2>1, <2>2, OnwardFields DEF Counted
  <2>4. InSomeHand(m) => InSomeHand(m)' \/ copy.msg = m
    BY <2>2 DEF InSomeHand, OtherHands, Unsettled
  <2>. HIDE DEF q, copy
  <2>5. OnSomeQueue(m) \/ copy.msg = m => OnSomeQueue(m)'
    BY <2>2, <2>3 DEF OnSomeQueue, Put, OtherQueues
  <2>. QED  BY <2>2, <2>4, <2>5 DEF Kept, LookedAt
<1>5. ASSUME NEW c \in Consumers, Ack(c)
      PROVE  Kept(m)'
  <2>1. /\ UNCHANGED <<queue, replaying, peeked, handled, losses>>
        /\ hand[c][1].settled /\ OtherHands(c)
    BY <1>1, <1>5, AckEffect
  <2>2. InSomeHand(m) => InSomeHand(m)'
    BY <2>1 DEF InSomeHand, OtherHands, Unsettled
  <2>. QED  BY <2>1, <2>2 DEF Kept, OnSomeQueue, LookedAt
<1>6. ASSUME NEW c \in Consumers, LoseConsumer(c)
      PROVE  Kept(m)'
  <2>1. /\ UNCHANGED <<replaying, peeked, handled>> /\ OtherHands(c)
        /\ RowsOf(queue'[0]) = {hand[c][1].copy} \cup RowsOf(queue[0])
        /\ OtherQueues({0})
    BY <1>1, <1>6, LoseConsumerEffect
  <2>2. InSomeHand(m) => InSomeHand(m)' \/ hand[c][1].copy.msg = m
    BY <2>1 DEF InSomeHand, OtherHands, Unsettled
  <2>3. OnSomeQueue(m) \/ hand[c][1].copy.msg = m => OnSomeQueue(m)'
    BY <2>1 DEF OnSomeQueue, OtherQueues
  <2>. QED  BY <2>1, <2>2, <2>3 DEF Kept, LookedAt
<1>7. ASSUME NEW q \in Queues, Expire(q)
      PROVE  Kept(m)'
  <2>1. /\ UNCHANGED <<hand, replaying, peeked, handled, losses>>
        /\ q \in 1 .. Retries
        /\ Took(q, Head(queue[q])) /\ Put(0, Head(queue[q])) /\ OtherQueues({0, q})
    BY <1>1, <1>7, ExpireEffect
  <2>2. OnSomeQueue(m) => OnSomeQueue(m)'
    BY <2>1 DEF OnSomeQueue, Took, Put, OtherQueues
  <2>. QED  BY <2>1, <2>2 DEF Kept, InSomeHand, LookedAt
<1>8. CASE ReplayGet
  <2>1. /\ UNCHANGED <<hand, peeked, handled, losses>>
        /\ Took(Dead, Head(queue[Dead])) /\ OtherQueues({Dead})
        /\ replaying = Nothing /\ replaying' = Holding(Head(queue[Dead]), FALSE)
    BY <1>1, <1>8, ReplayGetEffect
  <2>2. Head(queue[Dead]).msg = m => Unsettled(replaying', m)
    BY <2>1, HoldingFields, Zenon DEF Unsettled
  <2>3. OnSomeQueue(m) => OnSomeQueue(m)' \/ Head(queue[Dead]).msg = m
    BY <2>1 DEF OnSomeQueue, Took, OtherQueues
  <2>4. ~Unsettled(replaying, m)
    BY <2>1 DEF Unsettled
  <2>. QED  BY <2>1, <2>2, <2>3, <2>4 DEF Kept, InSomeHand, LookedAt, Unsettled
<1>9. CASE ReplayPublish
  <2>1. /\ UNCHANGED <<hand, peeked, handled, losses>>
        /\ replaying[1].copy \in Copy
        /\ Put(0, Fresh(replaying[1].copy.msg)) /\ OtherQueues({0})
    BY <1>1, <1>9, ReplayPublishEffect
  <2>2. Fresh(replaying[1].copy.msg).msg = replaying[1].copy.msg
    BY <2>1, CopyFields, FreshCopy
  <2>3. OnSomeQueue(m) \/ replaying[1].copy.msg = m => OnSomeQueue(m)'
    BY <2>1, <2>2 DEF OnSomeQueue, Put, OtherQueues
  <2>. QED  BY <2>1, <2>3 DEF Kept, InSomeHand, LookedAt, Unsettled
<1>10. CASE ReplayAck
  <2>1. UNCHANGED <<queue, hand, peeked, handled>> /\ replaying[1].settled
    BY <1>1, <1>10, ReplayAckEffect
  <2>. QED  BY <2>1 DEF Kept, OnSomeQueue, InSomeHand, LookedAt, Unsettled
<1>11. CASE LoseReplay
  <2>1. /\ UNCHANGED <<hand, peeked, handled>>
        /\ RowsOf(queue'[Dead]) = {replaying[1].copy} \cup RowsOf(queue[Dead])
        /\ OtherQueues({Dead})
    BY <1>1, <1>11, LoseReplayEffect
  <2>2. OnSomeQueue(m) \/ replaying[1].copy.msg = m => OnSomeQueue(m)'
    BY <2>1 DEF OnSomeQueue, OtherQueues
  <2>. QED  BY <2>1, <2>2 DEF Kept, InSomeHand, LookedAt, Unsettled
<1>12. CASE PeekGet
  <2>1. /\ UNCHANGED <<hand, replaying, handled, losses>>
        /\ Took(Dead, Head(queue[Dead])) /\ OtherQueues({Dead})
        /\ RowsOf(peeked') = RowsOf(peeked) \cup {Head(queue[Dead])}
    BY <1>1, <1>12, PeekGetEffect
  <2>2. OnSomeQueue(m) => OnSomeQueue(m)' \/ Head(queue[Dead]).msg = m
    BY <2>1 DEF OnSomeQueue, Took, OtherQueues
  <2>3. LookedAt(m) \/ Head(queue[Dead]).msg = m => LookedAt(m)'
    BY <2>1 DEF LookedAt
  <2>. QED  BY <2>1, <2>2, <2>3 DEF Kept, InSomeHand, Unsettled
<1>13. CASE PeekReturn
  <2>1. /\ UNCHANGED <<hand, replaying, handled, losses>>
        /\ PutBack(Dead, peeked) /\ OtherQueues({Dead})
    BY <1>1, <1>13, PeekReturnEffect
  <2>2. OnSomeQueue(m) \/ LookedAt(m) => OnSomeQueue(m)'
    BY <2>1 DEF OnSomeQueue, LookedAt, PutBack, OtherQueues
  <2>. QED  BY <2>1, <2>2 DEF Kept, InSomeHand, Unsettled
<1>. QED
  BY <1>2, <1>3, <1>4, <1>5, <1>6, <1>7, <1>8, <1>9, <1>10, <1>11, <1>12, <1>13 DEF QueueStep

LEMMA KeptStays ==
  ASSUME NEW m, UNCHANGED <<queue, hand, replaying, peeked, handled>>
  PROVE  Kept(m)' <=> Kept(m)
BY DEF Kept, OnSomeQueue, InSomeHand, LookedAt, Unsettled

LEMMA RelayStepKeeps ==
  ASSUME LossInv, RelayStep
  PROVE  KeptInv'
<1>1. TypeOK /\ WorkQueueTypeOK /\ OutboxTypeOK /\ KeptInv
  BY DEF LossInv, CopyInv, TypeOK
<1>2. Messages \subseteq Rows
  BY DEF Rows
<1>3. ASSUME NEW rows \in Transactions, Write(rows)
      PROVE  KeptInv'
  BY <1>1, <1>2, <1>3, WriteEffect, KeptStays DEF KeptInv, Unpublished, queueVars
<1>4. ASSUME NEW r \in Relays, Fetch(r)
      PROVE  KeptInv'
  BY <1>1, <1>4, FetchEffect, KeptStays DEF KeptInv, Unpublished, queueVars
<1>5. ASSUME NEW r \in Relays, PublishRow(r)
      PROVE  KeptInv'
  <2>. PICK row : row = Head(batch[r])
    OBVIOUS
  <2>1. /\ UNCHANGED <<outbox, written, hand, replaying, peeked, handled>>
        /\ \A t \in Relays \ {r} : sent'[t] = sent[t]
        /\ sent'[r] = sent[r] \cup {row}
        /\ IF row \in Messages
           THEN Put(0, Fresh(row)) /\ OtherQueues({0})
           ELSE queue' = queue
    BY <1>1, <1>5, PublishEffect
  <2>2. row \in Messages => Fresh(row).msg = row
    BY FreshCopy
  <2>3. /\ \A m : OnSomeQueue(m) => OnSomeQueue(m)'
        /\ row \in Messages => OnSomeQueue(row)'
    <3>1. CASE row \in Messages
      <4>1. /\ RowsOf(queue'[0]) = RowsOf(queue[0]) \cup {Fresh(row)}
            /\ \A q \in Queues \ {0} : queue'[q] = queue[q]
        BY <2>1, <3>1 DEF Put, OtherQueues
      <4>2. ASSUME NEW m, OnSomeQueue(m)
            PROVE  OnSomeQueue(m)'
        BY <4>1, <4>2 DEF OnSomeQueue
      <4>3. OnSomeQueue(row)'
        BY <2>2, <3>1, <4>1, QueueNames DEF OnSomeQueue
      <4>. QED  BY <4>2, <4>3
    <3>2. CASE row \notin Messages
      BY <2>1, <3>2 DEF OnSomeQueue
    <3>. QED  BY <3>1, <3>2
  <2>4. \A m : Kept(m) => Kept(m)'
    BY <2>1, <2>3 DEF Kept, InSomeHand, LookedAt, Unsettled
  <2>5. row \in Messages => Kept(row)'
    BY <2>3 DEF Kept
  <2>6. \A m \in Messages \cap written' : Unpublished(m)' \/ Kept(m)'
    BY <1>1, <2>1, <2>4 DEF KeptInv, Unpublished
  <2>7. ASSUME NEW t \in Relays, NEW m \in Messages \cap sent'[t]
        PROVE  Kept(m)'
    <3>1. m \in sent[t] \/ m = row
      BY <2>1
    <3>. QED  BY <1>1, <2>4, <2>5, <3>1 DEF KeptInv
  <2>. QED  BY <2>6, <2>7 DEF KeptInv
<1>6. ASSUME NEW r \in Relays, Unroutable(r) \/ RelayDies(r)
      PROVE  KeptInv'
  <2>1. RollBack(r)
    BY <1>6 DEF Unroutable, RelayDies
  <2>2. /\ UNCHANGED <<outbox, written, queue, hand, replaying, peeked, handled>>
        /\ sent'[r] = {}
        /\ \A t \in Relays \ {r} : sent'[t] = sent[t]
    BY <1>1, <2>1, RollBackEffect
  <2>. QED  BY <1>1, <2>2, KeptStays DEF KeptInv, Unpublished
<1>7. ASSUME NEW r \in Relays, MarkPublished(r)
      PROVE  KeptInv'
  <2>1. /\ UNCHANGED <<written, queueVars>>
        /\ sent'[r] = {}
        /\ \A t \in Relays \ {r} : sent'[t] = sent[t]
        /\ \A m \in Messages :
              IF m \in sent[r] THEN outbox'[m] = Absent ELSE outbox'[m] = outbox[m]
    BY <1>1, <1>2, <1>7, MarkEffect
  <2>. QED  BY <1>1, <2>1, KeptStays DEF KeptInv, Unpublished, queueVars
<1>8. CASE Connect \/ Disconnect
  BY <1>1, <1>8, KeptStays DEF KeptInv, Unpublished, Connect, Disconnect, queueVars
<1>. QED  BY <1>3, <1>4, <1>5, <1>6, <1>7, <1>8 DEF RelayStep

LEMMA LossNext == LossInv /\ [Next]_vars => LossInv'
<1> SUFFICES ASSUME LossInv, [Next]_vars PROVE LossInv'
  OBVIOUS
<1>1. CopyInv'
  BY CopyNext DEF LossInv
<1>2. CASE RelayStep
  BY <1>1, <1>2, RelayStepKeeps DEF LossInv
<1>3. CASE QueueStep /\ UNCHANGED relayVars
  <2>1. \A m \in Messages : Kept(m) => Kept(m)'
    BY <1>3, QueueStepKeeps DEF LossInv
  <2>2. KeptInv'
    BY <1>3, <2>1 DEF LossInv, KeptInv, Unpublished, relayVars
  <2>. QED  BY <1>1, <2>2 DEF LossInv
<1>4. CASE UNCHANGED vars
  BY <1>1, <1>4, KeptStays DEF LossInv, KeptInv, Unpublished, vars, relayVars, queueVars
<1>. QED  BY <1>2, <1>3, <1>4 DEF Next

\* An event whose transaction committed is never lost, whatever dies between a
\* publication, a mark, a copy and an acknowledgement.
THEOREM NothingIsLost == Spec => []NothingLost
<1>1. Init => LossInv
  BY CopyInit DEF Init, OutboxInit, LossInv, KeptInv
<1>2. LossInv => NothingLost
  <2> SUFFICES ASSUME LossInv, NEW m \in Messages \cap written, ~Unpublished(m), ~(handled[m] > 0)
               PROVE  OnQueue(m) \/ InHand(m) \/ Parked(m)
    BY DEF NothingLost
  <2>1. OnSomeQueue(m) \/ InSomeHand(m) \/ LookedAt(m) \/ Unsettled(replaying, m)
    BY DEF LossInv, KeptInv, Kept
  <2>2. OnSomeQueue(m) => OnQueue(m) \/ Parked(m)
    BY QueueNames DEF OnSomeQueue, OnQueue, Parked, RowsOf
  <2>3. InSomeHand(m) => InHand(m)
    BY DEF InSomeHand, Unsettled, InHand
  <2>4. LookedAt(m) \/ Unsettled(replaying, m) => Parked(m)
    BY DEF LookedAt, Unsettled, Parked, RowsOf
  <2>. QED  BY <2>1, <2>2, <2>3, <2>4
<1>. QED  BY <1>1, <1>2, LossNext, PTL DEF Spec

-----------------------------------------------------------------------------
(* Once.  While nothing is lost every message is at one place: a row still *)
(* to be published, one queue, one hand that has not settled it, the dead  *)
(* letters being looked at or replayed, or handled.  A step moves messages *)
(* from one place to another.                                              *)

Waiting(m) == m \notin written \/ (Unpublished(m) /\ \A r \in Relays : m \notin sent[r])
IsOn(copies, m) == \E copy \in RowsOf(copies) : copy.msg = m

\* m is nowhere but at this place.
OnlyAt(m, kind, x) ==
  /\ Waiting(m) => kind = "row"
  /\ \A q \in Queues : IsOn(queue[q], m) => kind = "queue" /\ x = q
  /\ \A c \in Consumers : Unsettled(hand[c], m) => kind = "hand" /\ x = c
  /\ IsOn(peeked, m) => kind = "peeked"
  /\ Unsettled(replaying, m) => kind = "replaying"
  /\ handled[m] > 0 => kind = "handled"

AtOnePlace == \A m \in Messages : \E kind, x : OnlyAt(m, kind, x)

\* No message has two copies on one sequence.
Single(copies) == \A i, j \in 1 .. Len(copies) : copies[i].msg = copies[j].msg => i = j

\* Rows that relays have taken are not marked, and nobody else has taken them.
RowInv ==
  /\ \A row \in Rows : outbox[row] # Absent => row \in written
  /\ \A r \in Relays :
       /\ \A row \in Taken(r) : outbox[row] # Absent
       /\ \A t \in Relays : t # r => Taken(t) \cap Taken(r) = {}
       /\ RowsOf(batch[r]) \cap sent[r] = {}
       /\ \A i, j \in 1 .. Len(batch[r]) : i # j => batch[r][i] # batch[r][j]

PlaceInv ==
  /\ AtOnePlace
  /\ \A q \in Queues : Single(queue[q])
  /\ Single(peeked)
  /\ \A m \in Messages : handled[m] < 2

OnceInv == CopyInv /\ RowInv /\ (losses = 0 => PlaceInv)

LEMMA SingleTail ==
  ASSUME NEW s \in Seq(Copy), s # <<>>, Single(s)
  PROVE  Single(Tail(s)) /\ \A copy \in RowsOf(Tail(s)) : copy.msg # Head(s).msg
<1>1. /\ Len(s) \in Nat \ {0} /\ Len(Tail(s)) = Len(s) - 1
      /\ Head(s) = s[1]
      /\ \A i \in 1 .. Len(Tail(s)) : Tail(s)[i] = s[i + 1]
  BY HeadTailProperties
<1>2. \A i \in 1 .. Len(Tail(s)) : i + 1 \in 1 .. Len(s) /\ i + 1 # 1
  BY <1>1
<1>3. ASSUME NEW i \in 1 .. Len(Tail(s)), NEW j \in 1 .. Len(Tail(s)),
             Tail(s)[i].msg = Tail(s)[j].msg
      PROVE  i = j
  <2>1. i + 1 = j + 1
    BY <1>1, <1>2, <1>3 DEF Single
  <2>. QED  BY <1>1, <2>1
<1>4. ASSUME NEW copy \in RowsOf(Tail(s))
      PROVE  copy.msg # Head(s).msg
  <2>1. PICK i \in 1 .. Len(Tail(s)) : copy = Tail(s)[i]
    BY DEF RowsOf
  <2>2. i + 1 \in 1 .. Len(s) /\ 1 \in 1 .. Len(s) /\ copy = s[i + 1] /\ i + 1 # 1
    BY <1>1, <1>2, <2>1
  <2>. QED  BY <1>1, <2>2 DEF Single
<1>. QED  BY <1>3, <1>4 DEF Single

LEMMA SingleAppend ==
  ASSUME NEW s \in Seq(Copy), NEW x \in Copy, Single(s),
         \A copy \in RowsOf(s) : copy.msg # x.msg
  PROVE  Single(Append(s, x))
<1>1. /\ Len(s) \in Nat /\ Len(Append(s, x)) = Len(s) + 1
      /\ \A i \in 1 .. Len(s) : Append(s, x)[i] = s[i]
      /\ Append(s, x)[Len(s) + 1] = x
  BY AppendProperties, LenProperties
<1>2. \A i \in 1 .. Len(s) : s[i].msg # x.msg
  BY DEF RowsOf
<1>3. \A i \in 1 .. Len(Append(s, x)) : i \in 1 .. Len(s) \/ i = Len(s) + 1
  BY <1>1
<1>. QED  BY <1>1, <1>2, <1>3 DEF Single

LEMMA SingleConcat ==
  ASSUME NEW s \in Seq(Copy), NEW t \in Seq(Copy), Single(s), Single(t),
         \A a \in RowsOf(s), b \in RowsOf(t) : a.msg # b.msg
  PROVE  Single(s \o t)
<1>1. /\ Len(s) \in Nat /\ Len(t) \in Nat /\ Len(s \o t) = Len(s) + Len(t)
      /\ \A i \in 1 .. Len(s) + Len(t) : (s \o t)[i] = IF i <= Len(s) THEN s[i] ELSE t[i - Len(s)]
  BY ConcatProperties, LenProperties
<1>2. \A i \in 1 .. Len(s), j \in 1 .. Len(t) : s[i].msg # t[j].msg
  BY DEF RowsOf
<1>3. ASSUME NEW i \in 1 .. Len(s) + Len(t), NEW j \in 1 .. Len(s) + Len(t),
             (s \o t)[i].msg = (s \o t)[j].msg
      PROVE  i = j
  <2>1. CASE i <= Len(s) /\ j <= Len(s)
    <3>1. i \in 1 .. Len(s) /\ j \in 1 .. Len(s) /\ s[i].msg = s[j].msg
      BY <1>1, <1>3, <2>1
    <3>. QED  BY <3>1 DEF Single
  <2>2. CASE i > Len(s) /\ j > Len(s)
    <3>1. i - Len(s) \in 1 .. Len(t) /\ j - Len(s) \in 1 .. Len(t)
      BY <1>1, <2>2
    <3>2. t[i - Len(s)].msg = t[j - Len(s)].msg
      BY <1>1, <1>3, <2>2
    <3>3. i - Len(s) = j - Len(s)
      BY <3>1, <3>2 DEF Single
    <3>. QED  BY <1>1, <3>3
  <2>3. CASE i <= Len(s) /\ j > Len(s)
    <3>1. i \in 1 .. Len(s) /\ j - Len(s) \in 1 .. Len(t) /\ s[i].msg = t[j - Len(s)].msg
      BY <1>1, <1>3, <2>3
    <3>. QED  BY <1>2, <3>1
  <2>4. CASE i > Len(s) /\ j <= Len(s)
    <3>1. j \in 1 .. Len(s) /\ i - Len(s) \in 1 .. Len(t) /\ s[j].msg = t[i - Len(s)].msg
      BY <1>1, <1>3, <2>4
    <3>. QED  BY <1>2, <3>1
  <2>. QED  BY <1>1, <2>1, <2>2, <2>3, <2>4
<1>. QED  BY <1>1, <1>3 DEF Single

LEMMA TookSingle ==
  ASSUME NEW q \in Queues, NEW copy, queue[q] \in Seq(Copy), Single(queue[q]), Took(q, copy)
  PROVE  /\ Single(queue'[q])
         /\ IsOn(queue[q], copy.msg) /\ ~IsOn(queue'[q], copy.msg)
         /\ \A m : IsOn(queue'[q], m) => IsOn(queue[q], m)
<1>1. Single(queue'[q]) /\ \A other \in RowsOf(queue'[q]) : other.msg # copy.msg
  BY SingleTail DEF Took
<1>. QED  BY <1>1 DEF Took, IsOn

LEMMA PutSingle ==
  ASSUME NEW q \in Queues, NEW copy \in Copy, queue[q] \in Seq(Copy), Single(queue[q]),
         ~IsOn(queue[q], copy.msg), Put(q, copy)
  PROVE  /\ Single(queue'[q])
         /\ \A m : IsOn(queue'[q], m) => IsOn(queue[q], m) \/ m = copy.msg
<1>1. Single(Append(queue[q], copy))
  BY SingleAppend DEF IsOn
<1>. QED  BY <1>1 DEF Put, IsOn

LEMMA WaitingStays ==
  ASSUME UNCHANGED relayVars, NEW m
  PROVE  Waiting(m)' <=> Waiting(m)
BY DEF Waiting, Unpublished, relayVars

LEMMA DeliverMoves ==
  ASSUME CopyInv, PlaceInv, UNCHANGED relayVars, NEW c \in Consumers, Deliver(c)
  PROVE  PlaceInv'
<1>. USE QueueNames
<1>. PICK copy : copy = Head(queue[0])
  OBVIOUS
<1>1. WorkQueueTypeOK /\ queue[0] \in Seq(Copy) /\ Single(queue[0])
  BY DEF CopyInv, TypeOK, WorkQueueTypeOK, PlaceInv
<1>2. /\ UNCHANGED <<replaying, peeked, handled, losses>>
      /\ Took(0, copy) /\ OtherQueues({0}) /\ copy \in Copy
      /\ hand'[c] = Holding(copy, FALSE) /\ OtherHands(c)
  BY <1>1, DeliverEffect
<1>3. /\ Single(queue'[0])
      /\ IsOn(queue[0], copy.msg) /\ ~IsOn(queue'[0], copy.msg)
      /\ \A m : IsOn(queue'[0], m) => IsOn(queue[0], m)
  BY <1>1, <1>2, TookSingle
<1>4. \A m : Unsettled(hand'[c], m) => m = copy.msg
  <2>1. \A m : Unsettled(Holding(copy, FALSE), m) => m = copy.msg
    BY HoldingFields, Zenon DEF Unsettled
  <2>. QED  BY <1>2, <2>1, Zenon
<1>5. ASSUME NEW m \in Messages
      PROVE  \E kind, x : OnlyAt(m, kind, x)'
  <2>1. PICK kind, x : OnlyAt(m, kind, x)
    BY DEF PlaceInv, AtOnePlace
  <2>2. Waiting(m)' <=> Waiting(m)
    BY WaitingStays
  <2>3. CASE m = copy.msg
    <3>1. OnlyAt(m, "hand", c)'
      BY <1>2, <1>3, <2>1, <2>2, <2>3 DEF OnlyAt, OtherQueues, OtherHands
    <3>. QED  BY <3>1
  <2>4. CASE m # copy.msg
    <3>1. OnlyAt(m, kind, x)'
      BY <1>2, <1>3, <1>4, <2>1, <2>2, <2>4 DEF OnlyAt, OtherQueues, OtherHands
    <3>. QED  BY <3>1
  <2>. QED  BY <2>3, <2>4
<1>. QED  BY <1>2, <1>3, <1>5 DEF PlaceInv, AtOnePlace, OtherQueues

LEMMA SucceedMoves ==
  ASSUME CopyInv, PlaceInv, UNCHANGED relayVars, NEW c \in Consumers, Succeed(c)
  PROVE  PlaceInv'
<1>1. WorkQueueTypeOK
  BY DEF CopyInv, TypeOK
<1>. PICK n : n = hand[c][1].copy.msg
  OBVIOUS
<1>2. /\ UNCHANGED <<queue, replaying, peeked, losses>> /\ OtherHands(c)
      /\ Unsettled(hand[c], n) /\ \A m : ~Unsettled(hand'[c], m)
      /\ handled'[n] = IF handled[n] = 2 THEN 2 ELSE handled[n] + 1
      /\ \A m \in Messages \ {n} : handled'[m] = handled[m]
      /\ hand[c][1].copy \in Copy
  BY <1>1, SucceedEffect DEF Unsettled
<1>3. n \in Messages
  BY <1>2, CopyFields
<1>4. handled[n] = 0 /\ handled'[n] = 1
  <2>1. PICK kind, x : OnlyAt(n, kind, x)
    BY <1>3 DEF PlaceInv, AtOnePlace
  <2>2. ~(handled[n] > 0)
    BY <1>2, <2>1 DEF OnlyAt
  <2>3. handled[n] \in 0 .. 2
    BY <1>1, <1>3 DEF WorkQueueTypeOK
  <2>. QED  BY <1>2, <2>2, <2>3
<1>5. ASSUME NEW m \in Messages
      PROVE  \E kind, x : OnlyAt(m, kind, x)'
  <2>1. PICK kind, x : OnlyAt(m, kind, x)
    BY DEF PlaceInv, AtOnePlace
  <2>2. Waiting(m)' <=> Waiting(m)
    BY WaitingStays
  <2>3. CASE m = n
    <3>1. OnlyAt(m, "handled", 0)'
      BY <1>2, <2>1, <2>2, <2>3 DEF OnlyAt, OtherHands
    <3>. QED  BY <3>1
  <2>4. CASE m # n
    <3>1. OnlyAt(m, kind, x)'
      BY <1>2, <2>1, <2>2, <2>4 DEF OnlyAt, OtherHands
    <3>. QED  BY <3>1
  <2>. QED  BY <2>3, <2>4
<1>6. \A m \in Messages : handled'[m] < 2
  BY <1>2, <1>4 DEF PlaceInv
<1>. QED  BY <1>2, <1>5, <1>6 DEF PlaceInv, AtOnePlace

LEMMA ForwardMoves ==
  ASSUME CopyInv, PlaceInv, UNCHANGED relayVars, NEW c \in Consumers, Forward(c)
  PROVE  PlaceInv'
<1>. PICK copy, q, onward : copy = hand[c][1].copy /\ q = Onward(copy)[1] /\ onward = Onward(copy)[2]
  OBVIOUS
<1>1. WorkQueueTypeOK /\ Counted(copy)
  BY DEF CopyInv, TypeOK, TriesInv, Forward, Delivered
<1>2. /\ UNCHANGED <<replaying, peeked, handled, losses>> /\ OtherHands(c)
      /\ copy \in Copy /\ q \in Queues /\ Put(q, onward) /\ OtherQueues({q})
      /\ Unsettled(hand[c], copy.msg) /\ \A m : ~Unsettled(hand'[c], m)
  BY <1>1, ForwardEffect DEF Counted, Unsettled
<1>3. onward \in Copy /\ onward.msg = copy.msg /\ copy.msg \in Messages
  BY <1>1, <1>2, OnwardFields, CopyFields DEF Counted
<1>4. /\ Single(queue'[q])
      /\ \A m : IsOn(queue'[q], m) => IsOn(queue[q], m) \/ m = copy.msg
  <2>1. PICK kind, x : OnlyAt(copy.msg, kind, x)
    BY <1>3 DEF PlaceInv, AtOnePlace
  <2>2. ~IsOn(queue[q], copy.msg)
    BY <1>2, <2>1 DEF OnlyAt
  <2>3. queue[q] \in Seq(Copy) /\ Single(queue[q])
    BY <1>1, <1>2 DEF WorkQueueTypeOK, PlaceInv
  <2>. QED  BY <1>2, <1>3, <2>2, <2>3, PutSingle
<1>5. ASSUME NEW m \in Messages
      PROVE  \E kind, x : OnlyAt(m, kind, x)'
  <2>1. PICK kind, x : OnlyAt(m, kind, x)
    BY DEF PlaceInv, AtOnePlace
  <2>2. Waiting(m)' <=> Waiting(m)
    BY WaitingStays
  <2>3. CASE m = copy.msg
    <3>1. OnlyAt(m, "queue", q)'
      BY <1>2, <2>1, <2>2, <2>3 DEF OnlyAt, OtherQueues, OtherHands
    <3>. QED  BY <3>1
  <2>4. CASE m # copy.msg
    <3>1. OnlyAt(m, kind, x)'
      BY <1>2, <1>4, <2>1, <2>2, <2>4 DEF OnlyAt, OtherQueues, OtherHands
    <3>. QED  BY <3>1
  <2>. QED  BY <2>3, <2>4
<1>. QED  BY <1>2, <1>4, <1>5 DEF PlaceInv, AtOnePlace, OtherQueues

LEMMA ExpireMoves ==
  ASSUME CopyInv, PlaceInv, UNCHANGED relayVars, NEW q \in Queues, Expire(q)
  PROVE  PlaceInv'
<1>. PICK copy : copy = Head(queue[q])
  OBVIOUS
<1>1. WorkQueueTypeOK
  BY DEF CopyInv, TypeOK
<1>2. /\ UNCHANGED <<hand, replaying, peeked, handled, losses>>
      /\ q # 0 /\ 0 \in Queues /\ copy \in Copy /\ copy.msg \in Messages
      /\ Took(q, copy) /\ Put(0, copy) /\ OtherQueues({0, q})
  BY <1>1, ExpireEffect, QueueNames, CopyFields
<1>3. /\ Single(queue'[q])
      /\ IsOn(queue[q], copy.msg) /\ ~IsOn(queue'[q], copy.msg)
      /\ \A m : IsOn(queue'[q], m) => IsOn(queue[q], m)
  BY <1>1, <1>2, TookSingle DEF WorkQueueTypeOK, PlaceInv
<1>4. /\ Single(queue'[0])
      /\ \A m : IsOn(queue'[0], m) => IsOn(queue[0], m) \/ m = copy.msg
  <2>1. PICK kind, x : OnlyAt(copy.msg, kind, x)
    BY <1>2 DEF PlaceInv, AtOnePlace
  <2>2. ~IsOn(queue[0], copy.msg)
    BY <1>2, <1>3, <2>1 DEF OnlyAt
  <2>3. queue[0] \in Seq(Copy) /\ Single(queue[0])
    BY <1>1, <1>2 DEF WorkQueueTypeOK, PlaceInv
  <2>. QED  BY <1>2, <2>2, <2>3, PutSingle
<1>5. ASSUME NEW m \in Messages
      PROVE  \E kind, x : OnlyAt(m, kind, x)'
  <2>1. PICK kind, x : OnlyAt(m, kind, x)
    BY DEF PlaceInv, AtOnePlace
  <2>2. Waiting(m)' <=> Waiting(m)
    BY WaitingStays
  <2>3. CASE m = copy.msg
    <3>1. OnlyAt(m, "queue", 0)'
      BY <1>2, <1>3, <2>1, <2>2, <2>3 DEF OnlyAt, OtherQueues
    <3>. QED  BY <3>1
  <2>4. CASE m # copy.msg
    <3>1. OnlyAt(m, kind, x)'
      BY <1>2, <1>3, <1>4, <2>1, <2>2, <2>4 DEF OnlyAt, OtherQueues
    <3>. QED  BY <3>1
  <2>. QED  BY <2>3, <2>4
<1>. QED  BY <1>2, <1>3, <1>4, <1>5 DEF PlaceInv, AtOnePlace, OtherQueues

LEMMA ReplayGetMoves ==
  ASSUME CopyInv, PlaceInv, UNCHANGED relayVars, ReplayGet
  PROVE  PlaceInv'
<1>. USE QueueNames
<1>. PICK copy : copy = Head(queue[Dead])
  OBVIOUS
<1>1. WorkQueueTypeOK /\ queue[Dead] \in Seq(Copy) /\ Single(queue[Dead])
  BY DEF CopyInv, TypeOK, WorkQueueTypeOK, PlaceInv
<1>2. /\ UNCHANGED <<hand, peeked, handled, losses>>
      /\ Took(Dead, copy) /\ OtherQueues({Dead}) /\ copy \in Copy
      /\ replaying' = Holding(copy, FALSE)
  BY <1>1, ReplayGetEffect
<1>3. /\ Single(queue'[Dead])
      /\ IsOn(queue[Dead], copy.msg) /\ ~IsOn(queue'[Dead], copy.msg)
      /\ \A m : IsOn(queue'[Dead], m) => IsOn(queue[Dead], m)
  BY <1>1, <1>2, TookSingle
<1>4. \A m : Unsettled(replaying', m) => m = copy.msg
  <2>1. \A m : Unsettled(Holding(copy, FALSE), m) => m = copy.msg
    BY HoldingFields, Zenon DEF Unsettled
  <2>. QED  BY <1>2, <2>1, Zenon
<1>5. ASSUME NEW m \in Messages
      PROVE  \E kind, x : OnlyAt(m, kind, x)'
  <2>1. PICK kind, x : OnlyAt(m, kind, x)
    BY DEF PlaceInv, AtOnePlace
  <2>2. Waiting(m)' <=> Waiting(m)
    BY WaitingStays
  <2>3. CASE m = copy.msg
    <3>1. OnlyAt(m, "replaying", 0)'
      BY <1>2, <1>3, <2>1, <2>2, <2>3 DEF OnlyAt, OtherQueues
    <3>. QED  BY <3>1
  <2>4. CASE m # copy.msg
    <3>1. OnlyAt(m, kind, x)'
      BY <1>2, <1>3, <1>4, <2>1, <2>2, <2>4 DEF OnlyAt, OtherQueues
    <3>. QED  BY <3>1
  <2>. QED  BY <2>3, <2>4
<1>. QED  BY <1>2, <1>3, <1>5 DEF PlaceInv, AtOnePlace, OtherQueues

LEMMA ReplayPublishMoves ==
  ASSUME CopyInv, PlaceInv, UNCHANGED relayVars, ReplayPublish
  PROVE  PlaceInv'
<1>. PICK n : n = replaying[1].copy.msg
  OBVIOUS
<1>1. WorkQueueTypeOK
  BY DEF CopyInv, TypeOK
<1>2. /\ UNCHANGED <<hand, peeked, handled, losses>> /\ 0 \in Queues
      /\ Put(0, Fresh(n)) /\ OtherQueues({0}) /\ replaying[1].copy \in Copy
      /\ Unsettled(replaying, n) /\ \A m : ~Unsettled(replaying', m)
  BY <1>1, ReplayPublishEffect, QueueNames DEF Unsettled
<1>3. n \in Messages /\ Fresh(n) \in Copy /\ Fresh(n).msg = n
  BY <1>2, CopyFields, FreshCopy
<1>4. /\ Single(queue'[0])
      /\ \A m : IsOn(queue'[0], m) => IsOn(queue[0], m) \/ m = n
  <2>1. PICK kind, x : OnlyAt(n, kind, x)
    BY <1>3 DEF PlaceInv, AtOnePlace
  <2>2. ~IsOn(queue[0], n)
    BY <1>2, <2>1 DEF OnlyAt
  <2>3. queue[0] \in Seq(Copy) /\ Single(queue[0])
    BY <1>1, <1>2 DEF WorkQueueTypeOK, PlaceInv
  <2>. QED  BY <1>2, <1>3, <2>2, <2>3, PutSingle
<1>5. ASSUME NEW m \in Messages
      PROVE  \E kind, x : OnlyAt(m, kind, x)'
  <2>1. PICK kind, x : OnlyAt(m, kind, x)
    BY DEF PlaceInv, AtOnePlace
  <2>2. Waiting(m)' <=> Waiting(m)
    BY WaitingStays
  <2>3. CASE m = n
    <3>1. OnlyAt(m, "queue", 0)'
      BY <1>2, <2>1, <2>2, <2>3 DEF OnlyAt, OtherQueues
    <3>. QED  BY <3>1
  <2>4. CASE m # n
    <3>1. OnlyAt(m, kind, x)'
      BY <1>2, <1>4, <2>1, <2>2, <2>4 DEF OnlyAt, OtherQueues
    <3>. QED  BY <3>1
  <2>. QED  BY <2>3, <2>4
<1>. QED  BY <1>2, <1>4, <1>5 DEF PlaceInv, AtOnePlace, OtherQueues

LEMMA PeekGetMoves ==
  ASSUME CopyInv, PlaceInv, UNCHANGED relayVars, PeekGet
  PROVE  PlaceInv'
<1>. USE QueueNames
<1>. PICK copy : copy = Head(queue[Dead])
  OBVIOUS
<1>1. /\ WorkQueueTypeOK /\ queue[Dead] \in Seq(Copy) /\ Single(queue[Dead])
      /\ peeked \in Seq(Copy) /\ Single(peeked)
  BY DEF CopyInv, TypeOK, WorkQueueTypeOK, PlaceInv
<1>2. /\ UNCHANGED <<hand, replaying, handled, losses>>
      /\ Took(Dead, copy) /\ OtherQueues({Dead}) /\ copy \in Copy
      /\ peeked' = Append(peeked, copy) /\ RowsOf(peeked') = RowsOf(peeked) \cup {copy}
  BY <1>1, PeekGetEffect
<1>3. /\ Single(queue'[Dead])
      /\ IsOn(queue[Dead], copy.msg) /\ ~IsOn(queue'[Dead], copy.msg)
      /\ \A m : IsOn(queue'[Dead], m) => IsOn(queue[Dead], m)
  BY <1>1, <1>2, TookSingle
<1>4. \A m : IsOn(peeked', m) => IsOn(peeked, m) \/ m = copy.msg
  BY <1>2 DEF IsOn
<1>5. Single(peeked')
  <2>1. PICK kind, x : OnlyAt(copy.msg, kind, x)
    BY <1>2, CopyFields DEF PlaceInv, AtOnePlace
  <2>2. ~IsOn(peeked, copy.msg)
    BY <1>3, <2>1 DEF OnlyAt
  <2>. QED  BY <1>1, <1>2, <2>2, SingleAppend DEF IsOn
<1>6. ASSUME NEW m \in Messages
      PROVE  \E kind, x : OnlyAt(m, kind, x)'
  <2>1. PICK kind, x : OnlyAt(m, kind, x)
    BY DEF PlaceInv, AtOnePlace
  <2>2. Waiting(m)' <=> Waiting(m)
    BY WaitingStays
  <2>3. CASE m = copy.msg
    <3>1. OnlyAt(m, "peeked", 0)'
      BY <1>2, <1>3, <2>1, <2>2, <2>3 DEF OnlyAt, OtherQueues
    <3>. QED  BY <3>1
  <2>4. CASE m # copy.msg
    <3>1. OnlyAt(m, kind, x)'
      BY <1>2, <1>3, <1>4, <2>1, <2>2, <2>4 DEF OnlyAt, OtherQueues
    <3>. QED  BY <3>1
  <2>. QED  BY <2>3, <2>4
<1>. QED  BY <1>2, <1>3, <1>5, <1>6 DEF PlaceInv, AtOnePlace, OtherQueues

LEMMA PeekReturnMoves ==
  ASSUME CopyInv, PlaceInv, UNCHANGED relayVars, PeekReturn
  PROVE  PlaceInv'
<1>. USE QueueNames
<1>1. /\ WorkQueueTypeOK /\ queue[Dead] \in Seq(Copy) /\ Single(queue[Dead])
      /\ peeked \in Seq(Copy) /\ Single(peeked)
  BY DEF CopyInv, TypeOK, WorkQueueTypeOK, PlaceInv
<1>2. /\ UNCHANGED <<hand, replaying, handled, losses>>
      /\ PutBack(Dead, peeked) /\ OtherQueues({Dead})
      /\ peeked' = <<>> /\ RowsOf(peeked') = {}
  BY <1>1, PeekReturnEffect
<1>3. /\ \A m : IsOn(queue'[Dead], m) => IsOn(queue[Dead], m) \/ IsOn(peeked, m)
      /\ \A m : ~IsOn(peeked', m)
  BY <1>2 DEF PutBack, IsOn
<1>4. Single(queue'[Dead])
  <2>1. ASSUME NEW a \in RowsOf(peeked), NEW b \in RowsOf(queue[Dead]), a.msg = b.msg
        PROVE  FALSE
    <3>1. IsOn(peeked, a.msg) /\ IsOn(queue[Dead], a.msg)
      BY <2>1 DEF IsOn
    <3>2. a.msg \in Messages
      BY <1>1, RowsOfType, CopyFields
    <3>3. PICK kind, x : OnlyAt(a.msg, kind, x)
      BY <3>2 DEF PlaceInv, AtOnePlace
    <3>. QED  BY <3>1, <3>3 DEF OnlyAt
  <2>2. Single(peeked \o queue[Dead])
    BY <1>1, <2>1, SingleConcat
  <2>. QED  BY <1>2, <2>2 DEF PutBack
<1>5. Single(peeked')
  BY <1>2 DEF Single
<1>6. ASSUME NEW m \in Messages
      PROVE  \E kind, x : OnlyAt(m, kind, x)'
  <2>1. PICK kind, x : OnlyAt(m, kind, x)
    BY DEF PlaceInv, AtOnePlace
  <2>2. Waiting(m)' <=> Waiting(m)
    BY WaitingStays
  <2>3. CASE IsOn(peeked, m)
    <3>1. OnlyAt(m, "queue", Dead)'
      BY <1>2, <1>3, <2>1, <2>2, <2>3 DEF OnlyAt, OtherQueues, Dead
    <3>. QED  BY <3>1
  <2>4. CASE ~IsOn(peeked, m)
    <3>1. OnlyAt(m, kind, x)'
      BY <1>2, <1>3, <2>1, <2>2, <2>4 DEF OnlyAt, OtherQueues
    <3>. QED  BY <3>1
  <2>. QED  BY <2>3, <2>4
<1>. QED  BY <1>2, <1>4, <1>5, <1>6 DEF PlaceInv, AtOnePlace, OtherQueues

LEMMA DistinctTail ==
  ASSUME NEW S, NEW s \in Seq(S), s # <<>>, \A i, j \in 1 .. Len(s) : i # j => s[i] # s[j]
  PROVE  /\ Head(s) \notin RowsOf(Tail(s))
         /\ \A i, j \in 1 .. Len(Tail(s)) : i # j => Tail(s)[i] # Tail(s)[j]
<1>1. /\ Len(s) \in Nat \ {0} /\ Len(Tail(s)) = Len(s) - 1
      /\ Head(s) = s[1]
      /\ \A i \in 1 .. Len(Tail(s)) : Tail(s)[i] = s[i + 1]
  BY HeadTailProperties
<1>2. \A i \in 1 .. Len(Tail(s)) : i + 1 \in 1 .. Len(s) /\ i + 1 # 1
  BY <1>1
<1>3. \A i, j \in 1 .. Len(Tail(s)) : i # j => Tail(s)[i] # Tail(s)[j]
  BY <1>1, <1>2
<1>4. \A i \in 1 .. Len(Tail(s)) : Tail(s)[i] # Head(s)
  BY <1>1, <1>2
<1>. QED  BY <1>3, <1>4 DEF RowsOf

\* A step that moves nothing.
LEMMA StandsStill ==
  ASSUME PlaceInv, UNCHANGED <<queue, peeked, handled>>,
         \A m \in Messages : Waiting(m)' => Waiting(m),
         \A m \in Messages : /\ \A c \in Consumers : Unsettled(hand'[c], m) => Unsettled(hand[c], m)
                             /\ Unsettled(replaying', m) => Unsettled(replaying, m)
  PROVE  PlaceInv'
<1>1. ASSUME NEW m \in Messages
      PROVE  \E kind, x : OnlyAt(m, kind, x)'
  <2>1. PICK kind, x : OnlyAt(m, kind, x)
    BY DEF PlaceInv, AtOnePlace
  <2>2. OnlyAt(m, kind, x)'
    BY <2>1 DEF OnlyAt
  <2>. QED  BY <2>2
<1>. QED  BY <1>1 DEF PlaceInv, AtOnePlace

LEMMA NoLoss ==
  ASSUME CopyInv, [Next]_vars, losses' = 0
  PROVE  losses = 0 /\ ~Loss
<1>1. losses \in Nat
  BY WorkQueueAssumption DEF CopyInv, TypeOK, WorkQueueTypeOK
<1>2. ~Loss
  BY <1>1 DEF Loss
<1>3. losses' = losses \/ Loss
  BY DEF Next, RelayStep, QueueStep, vars, queueVars, Write, Fetch, PublishRow, Unroutable,
         RelayDies, MarkPublished, Connect, Disconnect, Deliver, Succeed, Forward, Ack,
         LoseConsumer, Expire, ReplayGet, ReplayPublish, ReplayAck, LoseReplay, PeekGet, PeekReturn
<1>. QED  BY <1>2, <1>3

LEMMA QueueStepMoves ==
  ASSUME CopyInv, PlaceInv, UNCHANGED relayVars, QueueStep, ~Loss
  PROVE  PlaceInv'
<1>1. WorkQueueTypeOK /\ \A m \in Messages : Waiting(m)' => Waiting(m)
  BY WaitingStays DEF CopyInv, TypeOK
<1>2. ASSUME NEW c \in Consumers, Ack(c)
      PROVE  PlaceInv'
  <2>1. /\ UNCHANGED <<queue, replaying, peeked, handled>>
        /\ hand'[c] = Nothing /\ OtherHands(c)
    BY <1>1, <1>2, AckEffect
  <2>2. \A m : ~Unsettled(hand'[c], m)
    BY <2>1 DEF Unsettled
  <2>3. \A m : \A d \in Consumers : Unsettled(hand'[d], m) => Unsettled(hand[d], m)
    BY <2>1, <2>2 DEF OtherHands
  <2>. QED  BY <1>1, <2>1, <2>3, StandsStill
<1>3. CASE ReplayAck
  <2>1. UNCHANGED <<queue, hand, peeked, handled>> /\ replaying' = Nothing
    BY <1>1, <1>3, ReplayAckEffect
  <2>2. \A m : ~Unsettled(replaying', m)
    BY <2>1 DEF Unsettled
  <2>. QED  BY <1>1, <2>1, <2>2, StandsStill
<1>4. /\ \A c \in Consumers : ~LoseConsumer(c)
      /\ ~LoseReplay
  BY DEF LoseConsumer, LoseReplay
<1>. QED
  BY <1>2, <1>3, <1>4, DeliverMoves, SucceedMoves, ForwardMoves, ExpireMoves, ReplayGetMoves,
     ReplayPublishMoves, PeekGetMoves, PeekReturnMoves DEF QueueStep

LEMMA RelayStepLocks ==
  ASSUME CopyInv, RowInv, RelayStep
  PROVE  RowInv'
<1>1. TypeOK /\ OutboxTypeOK
  BY DEF CopyInv, TypeOK
<1>2. ASSUME NEW rows \in Transactions, Write(rows)
      PROVE  RowInv'
  <2>1. /\ UNCHANGED <<batch, sent>> /\ written' = written \cup rows
        /\ \A row \in Rows :
              IF row \in rows THEN outbox'[row] # Absent ELSE outbox'[row] = outbox[row]
    BY <1>1, <1>2, WriteEffect
  <2>2. \A r \in Relays : Taken(r) \subseteq Rows
    BY <1>1, RowsOfType DEF Taken, OutboxTypeOK
  <2>3. \A row \in Rows : outbox[row] # Absent => outbox'[row] # Absent
    BY <2>1
  <2>4. \A row \in Rows : outbox'[row] # Absent => row \in written'
    BY <2>1 DEF RowInv
  <2>. QED  BY <2>1, <2>2, <2>3, <2>4 DEF RowInv, Taken
<1>3. ASSUME NEW r \in Relays, Fetch(r)
      PROVE  RowInv'
  <2>1. /\ UNCHANGED <<outbox, written, sent>>
        /\ batch[r] = <<>> /\ sent[r] = {}
        /\ \A t \in Relays \ {r} : batch'[t] = batch[t]
        /\ RowsOf(batch'[r]) \subseteq Free
        /\ \A i, j \in 1 .. Len(batch'[r]) : i # j => batch'[r][i] # batch'[r][j]
    BY <1>1, <1>3, FetchEffect DEF Passing
  <2>2. \A row \in RowsOf(batch'[r]) :
          outbox[row] # Absent /\ \A t \in Relays : row \notin RowsOf(batch[t]) \cup sent[t]
    BY <2>1 DEF Free, Available, Locked, Taken
  <2>3. \A t \in Relays : \A row \in RowsOf(batch'[t]) \cup sent'[t] : outbox'[row] # Absent
    BY <2>1, <2>2 DEF RowInv, Taken
  <2>4. ASSUME NEW t \in Relays, NEW u \in Relays, t # u
        PROVE  (RowsOf(batch'[t]) \cup sent'[t]) \cap (RowsOf(batch'[u]) \cup sent'[u]) = {}
    <3>1. CASE t # r /\ u # r
      BY <2>1, <2>4, <3>1 DEF RowInv, Taken
    <3>2. CASE t = r
      BY <2>1, <2>2, <2>4, <3>2
    <3>3. CASE u = r
      BY <2>1, <2>2, <2>4, <3>3
    <3>. QED  BY <3>1, <3>2, <3>3
  <2>5. \A t \in Relays :
          /\ RowsOf(batch'[t]) \cap sent'[t] = {}
          /\ \A i, j \in 1 .. Len(batch'[t]) : i # j => batch'[t][i] # batch'[t][j]
    BY <2>1 DEF RowInv
  <2>6. \A row \in Rows : outbox'[row] # Absent => row \in written'
    BY <2>1 DEF RowInv
  <2>. QED  BY <2>3, <2>4, <2>5, <2>6 DEF RowInv, Taken
<1>4. ASSUME NEW r \in Relays, PublishRow(r)
      PROVE  RowInv'
  <2>. PICK row : row = Head(batch[r])
    OBVIOUS
  <2>1. /\ UNCHANGED <<outbox, written>>
        /\ batch[r] # <<>> /\ batch'[r] = Tail(batch[r])
        /\ RowsOf(batch[r]) = {row} \cup RowsOf(batch'[r])
        /\ \A t \in Relays \ {r} : batch'[t] = batch[t] /\ sent'[t] = sent[t]
        /\ sent'[r] = sent[r] \cup {row}
    BY <1>1, <1>4, PublishEffect
  <2>2. /\ batch[r] \in Seq(Rows)
        /\ \A i, j \in 1 .. Len(batch[r]) : i # j => batch[r][i] # batch[r][j]
    BY <1>1 DEF RowInv, OutboxTypeOK
  <2>3. /\ row \notin RowsOf(batch'[r])
        /\ \A i, j \in 1 .. Len(batch'[r]) : i # j => batch'[r][i] # batch'[r][j]
    BY <2>1, <2>2, DistinctTail
  <2>4. RowsOf(batch'[r]) \cup sent'[r] = RowsOf(batch[r]) \cup sent[r]
    BY <2>1
  <2>5. RowsOf(batch'[r]) \cap sent'[r] = {}
    BY <2>1, <2>3 DEF RowInv
  <2>6. \A t \in Relays : RowsOf(batch'[t]) \cup sent'[t] = RowsOf(batch[t]) \cup sent[t]
    BY <2>1, <2>4
  <2>7. \A t \in Relays : \A n \in RowsOf(batch'[t]) \cup sent'[t] : outbox'[n] # Absent
    BY <2>1, <2>6 DEF RowInv, Taken
  <2>8. \A t, u \in Relays : t # u =>
          (RowsOf(batch'[t]) \cup sent'[t]) \cap (RowsOf(batch'[u]) \cup sent'[u]) = {}
    BY <2>6 DEF RowInv, Taken
  <2>9. ASSUME NEW t \in Relays
        PROVE  /\ RowsOf(batch'[t]) \cap sent'[t] = {}
               /\ \A i, j \in 1 .. Len(batch'[t]) : i # j => batch'[t][i] # batch'[t][j]
    <3>1. CASE t = r
      BY <2>3, <2>5, <3>1
    <3>2. CASE t # r
      BY <2>1, <3>2 DEF RowInv
    <3>. QED  BY <3>1, <3>2
  <2>10. \A n \in Rows : outbox'[n] # Absent => n \in written'
    BY <2>1 DEF RowInv
  <2>. QED  BY <2>7, <2>8, <2>9, <2>10 DEF RowInv, Taken
<1>5. ASSUME NEW r \in Relays, Unroutable(r) \/ RelayDies(r)
      PROVE  RowInv'
  <2>1. RollBack(r)
    BY <1>5 DEF Unroutable, RelayDies
  <2>2. /\ UNCHANGED <<outbox, written>>
        /\ batch'[r] = <<>> /\ sent'[r] = {}
        /\ \A t \in Relays \ {r} : batch'[t] = batch[t] /\ sent'[t] = sent[t]
    BY <1>1, <2>1, RollBackEffect
  <2>. QED  BY <2>2, RowsOfEmpty DEF RowInv, Taken
<1>6. ASSUME NEW r \in Relays, MarkPublished(r)
      PROVE  RowInv'
  <2>1. /\ UNCHANGED <<written, batch>>
        /\ batch[r] = <<>> /\ sent'[r] = {}
        /\ \A t \in Relays \ {r} : sent'[t] = sent[t]
        /\ \A row \in Rows :
              IF row \in sent[r] THEN outbox'[row] = Absent ELSE outbox'[row] = outbox[row]
    BY <1>1, <1>6, MarkEffect
  <2>2. \A t \in Relays : Taken(t) \subseteq Rows
    BY <1>1, RowsOfType DEF Taken, OutboxTypeOK
  <2>3. \A row \in Rows : outbox'[row] # Absent => row \in written'
    BY <2>1 DEF RowInv
  <2>. QED  BY <2>1, <2>2, <2>3, RowsOfEmpty DEF RowInv, Taken
<1>7. CASE Connect \/ Disconnect
  BY <1>7 DEF RowInv, Taken, Connect, Disconnect
<1>. QED  BY <1>2, <1>3, <1>4, <1>5, <1>6, <1>7 DEF RelayStep

LEMMA RelayStepMoves ==
  ASSUME CopyInv, RowInv, PlaceInv, RelayStep, ~Loss
  PROVE  PlaceInv'
<1>1. TypeOK /\ WorkQueueTypeOK /\ OutboxTypeOK
  BY DEF CopyInv, TypeOK
<1>2. Messages \subseteq Rows
  BY DEF Rows
<1>3. ASSUME NEW rows \in Transactions, Write(rows)
      PROVE  PlaceInv'
  <2>1. /\ UNCHANGED <<sent, queueVars>>
        /\ rows \cap written = {} /\ written' = written \cup rows
        /\ \A row \in Rows :
              IF row \in rows THEN outbox'[row] # Absent ELSE outbox'[row] = outbox[row]
    BY <1>1, <1>3, WriteEffect
  <2>2. \A m \in Messages : Waiting(m)' => Waiting(m)
    BY <1>2, <2>1 DEF Waiting, Unpublished
  <2>. QED  BY <2>1, <2>2, StandsStill DEF queueVars
<1>4. ASSUME NEW r \in Relays, Fetch(r)
      PROVE  PlaceInv'
  <2>1. UNCHANGED <<outbox, written, sent, queueVars>>
    BY <1>1, <1>4, FetchEffect
  <2>2. \A m \in Messages : Waiting(m)' => Waiting(m)
    BY <2>1 DEF Waiting, Unpublished
  <2>. QED  BY <2>1, <2>2, StandsStill DEF queueVars
<1>5. ASSUME NEW r \in Relays, PublishRow(r)
      PROVE  PlaceInv'
  <2>. PICK row : row = Head(batch[r])
    OBVIOUS
  <2>1. /\ UNCHANGED <<outbox, written, hand, replaying, peeked, handled>>
        /\ row \in Rows /\ RowsOf(batch[r]) = {row} \cup RowsOf(batch'[r])
        /\ \A t \in Relays \ {r} : sent'[t] = sent[t]
        /\ sent'[r] = sent[r] \cup {row}
        /\ IF row \in Messages
           THEN Put(0, Fresh(row)) /\ OtherQueues({0}) /\ Fresh(row) \in Copy
           ELSE queue' = queue
    BY <1>1, <1>5, PublishEffect
  <2>2. \A m \in Messages : Waiting(m)' => Waiting(m)
    BY <2>1 DEF Waiting, Unpublished
  <2>3. CASE row \notin Messages
    BY <2>1, <2>2, <2>3, StandsStill
  <2>4. CASE row \in Messages
    <3>1. Waiting(row)
      <4>1. row \in Taken(r) /\ row \notin sent[r]
        BY <2>1 DEF RowInv, Taken
      <4>2. outbox[row] # Absent /\ \A t \in Relays : t # r => row \notin Taken(t)
        BY <4>1 DEF RowInv
      <4>. QED  BY <4>1, <4>2 DEF Waiting, Unpublished, Taken
    <3>2. ~Waiting(row)'
      <4>1. row \in written
        BY <2>1, <3>1 DEF Waiting, Unpublished, RowInv, Taken
      <4>. QED  BY <2>1, <4>1 DEF Waiting
    <3>3. PICK kind, x : OnlyAt(row, kind, x)
      BY <2>4 DEF PlaceInv, AtOnePlace
    <3>4. Fresh(row).msg = row /\ 0 \in Queues
      BY <2>4, FreshCopy, QueueNames
    <3>5. /\ Single(queue'[0])
          /\ \A m : IsOn(queue'[0], m) => IsOn(queue[0], m) \/ m = row
      <4>1. ~IsOn(queue[0], row)
        BY <3>1, <3>3, <3>4 DEF OnlyAt
      <4>2. queue[0] \in Seq(Copy) /\ Single(queue[0])
        BY <1>1, <3>4 DEF WorkQueueTypeOK, PlaceInv
      <4>. QED  BY <2>1, <2>4, <3>4, <4>1, <4>2, PutSingle
    <3>6. ASSUME NEW m \in Messages
          PROVE  \E k, y : OnlyAt(m, k, y)'
      <4>1. CASE m = row
        <5>1. OnlyAt(m, "queue", 0)'
          BY <2>1, <2>4, <3>1, <3>2, <3>3, <4>1 DEF OnlyAt, OtherQueues
        <5>. QED  BY <5>1
      <4>2. CASE m # row
        <5>1. PICK k, y : OnlyAt(m, k, y)
          BY DEF PlaceInv, AtOnePlace
        <5>2. OnlyAt(m, k, y)'
          BY <2>1, <2>2, <2>4, <3>5, <4>2, <5>1 DEF OnlyAt, OtherQueues
        <5>. QED  BY <5>2
      <4>. QED  BY <4>1, <4>2
    <3>. QED  BY <2>1, <2>4, <3>5, <3>6 DEF PlaceInv, AtOnePlace, OtherQueues
  <2>. QED  BY <2>3, <2>4
<1>6. ASSUME NEW r \in Relays, Unroutable(r)
      PROVE  PlaceInv'
  <2>1. sent[r] = {} /\ RollBack(r)
    BY <1>6 DEF Unroutable
  <2>2. /\ UNCHANGED <<outbox, written, queue, hand, replaying, peeked, handled>>
        /\ sent'[r] = {}
        /\ \A t \in Relays \ {r} : sent'[t] = sent[t]
    BY <1>1, <2>1, RollBackEffect
  <2>3. \A m \in Messages : Waiting(m)' => Waiting(m)
    BY <2>1, <2>2 DEF Waiting, Unpublished
  <2>. QED  BY <2>2, <2>3, StandsStill
<1>7. ASSUME NEW r \in Relays, MarkPublished(r)
      PROVE  PlaceInv'
  <2>1. /\ UNCHANGED <<written, queueVars>>
        /\ sent'[r] = {}
        /\ \A t \in Relays \ {r} : sent'[t] = sent[t]
        /\ \A row \in Rows :
              IF row \in sent[r] THEN outbox'[row] = Absent ELSE outbox'[row] = outbox[row]
    BY <1>1, <1>7, MarkEffect
  <2>2. \A m \in Messages \cap sent[r] : m \in written
    BY <1>2 DEF RowInv, Taken
  <2>3. \A m \in Messages : Waiting(m)' => Waiting(m)
    BY <1>2, <2>1, <2>2 DEF Waiting, Unpublished
  <2>. QED  BY <2>1, <2>3, StandsStill DEF queueVars
<1>8. CASE Connect
  <2>1. UNCHANGED <<outbox, written, sent, queueVars>>
    BY <1>8 DEF Connect
  <2>2. \A m \in Messages : Waiting(m)' => Waiting(m)
    BY <2>1 DEF Waiting, Unpublished
  <2>. QED  BY <2>1, <2>2, StandsStill DEF queueVars
<1>9. ~Disconnect /\ \A r \in Relays : ~RelayDies(r)
  BY DEF Disconnect, RelayDies
<1>. QED  BY <1>3, <1>4, <1>5, <1>6, <1>7, <1>8, <1>9 DEF RelayStep

LEMMA OnceInit == Init => OnceInv
<1> SUFFICES ASSUME Init PROVE OnceInv
  OBVIOUS
<1>1. CopyInv
  BY CopyInit
<1>2. RowInv
  BY RowsOfEmpty DEF Init, OutboxInit, RowInv, Taken
<1>3. ASSUME NEW m \in Messages
      PROVE  \E kind, x : OnlyAt(m, kind, x)
  <2>1. OnlyAt(m, "row", 0)
    BY <1>3, RowsOfEmpty DEF Init, WorkQueueInit, OnlyAt, IsOn, Unsettled
  <2>. QED  BY <2>1
<1>4. PlaceInv
  BY <1>3 DEF Init, WorkQueueInit, PlaceInv, AtOnePlace, Single
<1>. QED  BY <1>1, <1>2, <1>4 DEF OnceInv

LEMMA OnceNext == OnceInv /\ [Next]_vars => OnceInv'
<1> SUFFICES ASSUME OnceInv, [Next]_vars PROVE OnceInv'
  OBVIOUS
<1>1. CopyInv /\ CopyInv' /\ RowInv
  BY CopyNext DEF OnceInv
<1>2. RowInv'
  <2>1. CASE RelayStep
    BY <1>1, <2>1, RelayStepLocks
  <2>2. CASE UNCHANGED relayVars
    BY <1>1, <2>2 DEF RowInv, Taken, relayVars
  <2>. QED  BY <2>1, <2>2 DEF Next, vars
<1>3. ASSUME losses' = 0
      PROVE  PlaceInv'
  <2>1. PlaceInv /\ ~Loss
    BY <1>1, <1>3, NoLoss DEF OnceInv
  <2>2. CASE RelayStep
    BY <1>1, <2>1, <2>2, RelayStepMoves
  <2>3. CASE QueueStep /\ UNCHANGED relayVars
    BY <1>1, <2>1, <2>3, QueueStepMoves
  <2>4. CASE UNCHANGED vars
    <3>1. \A m \in Messages : Waiting(m)' => Waiting(m)
      BY <2>4, WaitingStays DEF vars
    <3>. QED  BY <2>1, <2>4, <3>1, StandsStill DEF vars, queueVars
  <2>. QED  BY <2>2, <2>3, <2>4 DEF Next
<1>. QED  BY <1>1, <1>2, <1>3 DEF OnceInv

\* While nothing was lost no message is handled twice: relays that run side by
\* side share the rows, consumers and operators the copies.
THEOREM HandledOnce == Spec => []OnceUnlessLoss
<1>1. OnceInv => OnceUnlessLoss
  BY DEF OnceInv, PlaceInv, OnceUnlessLoss
<1>. QED  BY <1>1, OnceInit, OnceNext, PTL DEF Spec
=============================================================================
