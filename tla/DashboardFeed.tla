---------------------------- MODULE DashboardFeed ----------------------------
(***************************************************************************)
(* The Gateway's live feed: events of orders that change their status, the *)
(* relay that takes them from the bus to the hub, and the handler of one   *)
(* browser's socket with its bounded queue.                                *)
(*                                                                         *)
(* Events on their way from the Order service's outbox to the Gateway are  *)
(* a set: several relays publish them, in no order a reader may rely on,   *)
(* and some twice.                                                         *)
(***************************************************************************)
EXTENDS FiniteSets, Integers, Sequences

CONSTANTS
  Orders,
  Found,         \* what status the orders may have when the console is opened
  QueueSize,     \* DashboardHub's max_queue_size
  MaxPipe,       \* bound: status changes on their way to the Gateway
  WireSize,      \* bound: messages the connection holds before a send waits
  MaxTroubles    \* bound: how often anything below goes wrong

Statuses == {"none", "pending", "reserved", "paid", "fulfilled", "cancelled"}

ASSUME FeedAssumption ==
  /\ Found \subseteq Statuses
  /\ QueueSize \in Nat \ {0}
  /\ MaxPipe \in Nat \ {0}
  /\ WireSize \in Nat \ {0}
  /\ MaxTroubles \in Nat

VARIABLES
  status,     \* orders.status, "none" before there is a row
  pipe,       \* status changes not yet relayed
  handler,    \* the socket's handler: where it is, and the pair it was authenticated by
  open,       \* its subscription is one of the hub's
  queue,      \* its subscription's queue
  wire,       \* what was sent and the browser has not read
  troubles

feedVars == <<status, pipe, handler, open, queue, wire, troubles>>

Terminal == {"fulfilled", "cancelled"}

\* What _set_status is called with, by the status it finds.
Following ==
  [ none |-> {"pending"}, pending |-> {"reserved", "cancelled"},
    reserved |-> {"paid", "cancelled"}, paid |-> {"fulfilled"},
    fulfilled |-> {}, cancelled |-> {} ]

Changed(o, s) == <<o, s>>
Ready == <<"ready", "live">>
TooSlow == <<"closed", "1013">>
Unauthenticated == <<"closed", "4401">>

Events == {Changed(o, s) : o \in Orders, s \in Statuses \ {"none"}}
Overflow == <<"overflow", "queue">>

\* Wrong: readiness is announced before the handler subscribes.
Hasty == <<"announce", "subscribe">>

\* "Subscribe before announcing readiness so no event can slip in between."
Greeting == <<"subscribe", "announce">>

NoHandler == [at |-> "none", todo |-> <<>>, pair |-> 0]

FeedTypeOK ==
  /\ status \in [Orders -> Statuses]
  /\ pipe \subseteq Events
  /\ handler.at \in {"none", "auth", "greet", "open"}
  /\ open \in BOOLEAN
  /\ Len(queue) <= QueueSize
  /\ \A i \in DOMAIN queue : queue[i] \in Events \cup {Overflow}
  /\ \A i \in DOMAIN wire : wire[i] \in Events \cup {Ready, TooSlow, Unauthenticated}
  /\ troubles \in 0 .. MaxTroubles

FeedInit ==
  /\ status \in [Orders -> Found]
  /\ pipe = {}
  /\ handler = NoHandler
  /\ open = FALSE
  /\ queue = <<>>
  /\ wire = <<>>
  /\ troubles = 0

Trouble ==
  /\ troubles < MaxTroubles
  /\ troubles' = troubles + 1

\* The order and the event in its outbox are committed together.
ChangeStatus(o) ==
  /\ Cardinality(pipe) < MaxPipe
  /\ \E s \in Following[status[o]] :
       /\ status' = [status EXCEPT ![o] = s]
       /\ pipe' = pipe \cup {Changed(o, s)}
  /\ UNCHANGED <<handler, open, queue, wire, troubles>>

\* Wrong: what does not fit on the queue is thrown away.
DropQuietly == UNCHANGED <<open, queue>>

\* Wrong: the mark is put behind what is already queued.
MarkLast ==
  /\ open' = FALSE
  /\ queue' = Append(queue, Overflow)

\* A subscriber that fell behind is dropped, with a mark for its handler.
FallBehind ==
  /\ open' = FALSE
  /\ queue' = <<Overflow>>

\* relay_message and publish: to the queue of every subscriber.
Publish(e) ==
  IF ~open THEN UNCHANGED <<open, queue>>
  ELSE IF Len(queue) = QueueSize THEN FallBehind
  ELSE queue' = Append(queue, e) /\ UNCHANGED open

Relay(e) ==
  /\ e \in pipe
  /\ pipe' = pipe \ {e}
  /\ Publish(e)
  /\ UNCHANGED <<status, handler, wire, troubles>>

\* The relay of the outbox died before it marked the event as published.
RelayTwice(e) ==
  /\ e \in pipe
  /\ Trouble
  /\ Publish(e)
  /\ UNCHANGED <<status, pipe, handler, wire>>

\* The Gateway's connection to the broker drops, and its private queue with it.
LoseEvents ==
  /\ Trouble
  /\ \E kept \in SUBSET pipe : kept # pipe /\ pipe' = kept
  /\ UNCHANGED <<status, handler, open, queue, wire>>

Accept(pair) == handler' = [at |-> "auth", todo |-> Greeting, pair |-> pair]

\* The handler returns: the subscription is removed, the socket closed behind `last`.
Hang(last) ==
  /\ handler' = NoHandler
  /\ open' = FALSE
  /\ queue' = <<>>
  /\ wire' = wire \o last

\* The first frame is read; `outdated` says if the access token in it has expired.
Authenticate(outdated) ==
  /\ handler.at = "auth"
  /\ IF outdated
     THEN Hang(<<Unauthenticated>>)
     ELSE handler' = [handler EXCEPT !.at = "greet"] /\ UNCHANGED <<open, queue, wire>>
  /\ UNCHANGED <<status, pipe, troubles>>

\* hub.subscribe() and the "ready" message, one after the other.
Greet ==
  /\ handler.at = "greet"
  /\ LET rest == Tail(handler.todo)
     IN handler' = [at |-> IF rest = <<>> THEN "open" ELSE "greet", todo |-> rest, pair |-> handler.pair]
  /\ IF Head(handler.todo) = "subscribe"
     THEN open' = TRUE /\ UNCHANGED wire
     ELSE wire' = Append(wire, Ready) /\ UNCHANGED open
  /\ UNCHANGED <<status, pipe, queue, troubles>>

\* _send_events, while the connection takes more.
Send ==
  /\ handler.at = "open"
  /\ queue # <<>>
  /\ IF Head(queue) = Overflow
     THEN Hang(<<TooSlow>>)
     ELSE /\ Len(wire) < WireSize
          /\ wire' = Append(wire, Head(queue))
          /\ queue' = Tail(queue)
          /\ UNCHANGED <<handler, open>>
  /\ UNCHANGED <<status, pipe, troubles>>

\* _expire_with_token.
ExpireSocket(outdated) ==
  /\ handler.at = "open"
  /\ outdated
  /\ Hang(<<Unauthenticated>>)
  /\ UNCHANGED <<status, pipe, troubles>>

\* The socket is gone on both ends, with all that was on it.
Cut ==
  /\ handler' = NoHandler
  /\ open' = FALSE
  /\ queue' = <<>>
  /\ wire' = <<>>
=============================================================================
