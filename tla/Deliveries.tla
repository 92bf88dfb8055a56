----------------------------- MODULE Deliveries -----------------------------
(***************************************************************************)
(* What a durable queue of the bus promises the instances of a service     *)
(* that share it: a message is with one consumer at a time, until it is    *)
(* acknowledged.  When a consumer's connection drops, the handler runs on, *)
(* its acknowledgement is lost, and the message is delivered again beside  *)
(* it.  (WorkQueue has the queue itself, its retries and dead letters; the *)
(* losses here are fewer than the retries.)                                *)
(***************************************************************************)
EXTENDS Naturals

CONSTANTS
  Consumers,
  MaxLosses     \* bound: connections lost, handlers failed and instances killed

VARIABLES
  queue,        \* messages to deliver
  held,         \* what each consumer is at work on, and whether it can still be acknowledged
  losses

Nothing == [message |-> "none", live |-> FALSE]

Free(c) == held[c] = Nothing

\* Nobody is going to look at the message again.
Settled(m) == m \notin queue /\ \A c \in Consumers : held[c].message # m

Start(messages) ==
  /\ queue = messages
  /\ held = [c \in Consumers |-> Nothing]
  /\ losses = 0

Take(c, m) ==
  /\ Free(c)
  /\ m \in queue
  /\ queue' = queue \ {m}
  /\ held' = [held EXCEPT ![c] = [message |-> m, live |-> TRUE]]
  /\ UNCHANGED losses

Return(c) == IF held[c].live THEN {held[c].message} ELSE {}

\* The handler returned: on a connection that was lost the ack goes nowhere.
Ack(c) ==
  /\ held' = [held EXCEPT ![c] = Nothing]
  /\ UNCHANGED <<queue, losses>>

\* The handler raised: a copy goes to the retry queue and comes back later.
Retry(c) ==
  /\ queue' = queue \cup Return(c)
  /\ held' = [held EXCEPT ![c] = Nothing]
  /\ UNCHANGED losses

\* The connection drops while the handler runs on.
Lose(c) ==
  /\ losses < MaxLosses
  /\ held[c].live
  /\ queue' = queue \cup Return(c)
  /\ held' = [held EXCEPT ![c].live = FALSE]
  /\ losses' = losses + 1

\* The instance is killed, or its database fails and the handler raises.
Break(c) ==
  /\ losses < MaxLosses
  /\ ~Free(c)
  /\ queue' = queue \cup Return(c)
  /\ held' = [held EXCEPT ![c] = Nothing]
  /\ losses' = losses + 1
=============================================================================
