----------------------------- MODULE CoPurchase -----------------------------
(***************************************************************************)
(* The Recommendation service: instances that share recommendation.events  *)
(* count, for every pair of products, the paid orders that hold both.      *)
(* Each message is one transaction under READ COMMITTED, which marks the   *)
(* order as recorded and then, pair by pair, reads a count without a lock  *)
(* and writes it back.  What is written is seen by others at the commit;   *)
(* until then the row keeps other writers waiting.                         *)
(***************************************************************************)
EXTENDS FiniteSets, Integers

CONSTANTS
  Purchases,    \* orders that were paid
  BasketOf,     \* the products of each, numbered in the order of their ids
  Recorders,    \* consumer threads of the service's instances
  MaxReruns     \* bound: connections lost and instances killed

ASSUME CoPurchaseAssumption ==
  /\ BasketOf \in [Purchases -> SUBSET Nat]
  /\ \A o \in Purchases : BasketOf[o] # {} /\ IsFiniteSet(BasketOf[o])
  /\ "none" \notin Purchases
  /\ IsFiniteSet(Recorders)
  /\ MaxReruns \in Nat

VARIABLES
  due, recording, reruns,   \* deliveries of recommendation.events
  recorded,   \* recorded_orders
  count,      \* co_purchase_counts, 0 where there is no row
  step,       \* where each consumer's transaction is
  left,       \* the pairs it has still to count
  seen,       \* the pair it read last, and its count then
  wrote,      \* the counts it has written and not committed
  raced,      \* history: pairs written from a count that had changed since it was read
  collided    \* history: orders rolled back over a pair another had just inserted

tallyVars == <<due, recording, reruns, recorded, count, step, left, seen, wrote, raced, collided>>
dueVars == <<due, recording, reruns>>

D == INSTANCE Deliveries
       WITH queue <- due, held <- recording, losses <- reruns,
            Consumers <- Recorders, MaxLosses <- MaxReruns

PairsOf(o) == {pair \in BasketOf[o] \X BasketOf[o] : pair[1] < pair[2]}
Pairs == UNION {PairsOf(o) : o \in Purchases}

OrderOf(c) == recording[c].message
Unwritten == [pair \in {} |-> 0]
Unread == [pair |-> <<>>, count |-> 0]

TallyInit ==
  /\ D!Start(Purchases)
  /\ recorded = {}
  /\ count = [pair \in Pairs |-> 0]
  /\ step = [c \in Recorders |-> "idle"]
  /\ left = [c \in Recorders |-> {}]
  /\ seen = [c \in Recorders |-> Unread]
  /\ wrote = [c \in Recorders |-> Unwritten]
  /\ raced = {}
  /\ collided = {}

\* Rollback or commit: nothing of the transaction is left but its effect.
Leave(c, next) ==
  /\ step' = [step EXCEPT ![c] = next]
  /\ left' = [left EXCEPT ![c] = {}]
  /\ seen' = [seen EXCEPT ![c] = Unread]
  /\ wrote' = [wrote EXCEPT ![c] = Unwritten]

Tables == <<recorded, count, raced, collided>>

\* Wrong: nothing remembers which orders were counted.
NeverMarked(o) == FALSE

Marked(o) == o \in recorded

\* The uncommitted mark of the same order keeps a second INSERT waiting.
MarkBusy(c) ==
  \E d \in Recorders \ {c} : OrderOf(d) = OrderOf(c) /\ step[d] \in {"count", "write"}

\* A row for the pair was committed after the transaction found none.
Taken(c) == seen[c].count = 0 /\ count[seen[c].pair] > 0

PairBusy(c, pair) == \E d \in Recorders \ {c} : pair \in DOMAIN wrote[d]

Before(p, q) == p[1] < q[1] \/ (p[1] = q[1] /\ p[2] < q[2])

\* Wrong: pairs in the order in which the products were put into the cart.
AsCarted(c, pair) == pair \in left[c]

\* Products are sorted, so pairs come in ascending order.
InTurn(c, pair) == pair \in left[c] /\ \A q \in left[c] : ~Before(q, pair)

-----------------------------------------------------------------------------
(* record_purchase. *)

TakePaid(c, o) ==
  /\ D!Take(c, o)
  /\ step' = [step EXCEPT ![c] = "lookup"]
  /\ UNCHANGED <<Tables, left, seen, wrote>>

LookUp(c) ==
  /\ step[c] = "lookup"
  /\ step' = [step EXCEPT ![c] = IF Marked(OrderOf(c)) THEN "ack" ELSE "mark"]
  /\ UNCHANGED <<dueVars, Tables, left, seen, wrote>>

Mark(c) ==
  /\ step[c] = "mark"
  /\ ~MarkBusy(c)
  /\ ~Marked(OrderOf(c))
  /\ step' = [step EXCEPT ![c] = "count"]
  /\ left' = [left EXCEPT ![c] = PairsOf(OrderOf(c))]
  /\ UNCHANGED <<dueVars, Tables, seen, wrote>>

\* Another delivery of the order committed since the lookup.  An order of one
\* product has no handler for the IntegrityError, so its message is retried.
MarkedMeanwhile(c) ==
  /\ step[c] = "mark"
  /\ ~MarkBusy(c)
  /\ Marked(OrderOf(c))
  /\ IF PairsOf(OrderOf(c)) = {}
     THEN D!Retry(c) /\ Leave(c, "idle")
     ELSE UNCHANGED dueVars /\ Leave(c, "ack")
  /\ UNCHANGED Tables

\* SELECT: what others have not committed is not seen.
Read(c, pair) ==
  /\ step[c] = "count"
  /\ InTurn(c, pair)
  /\ step' = [step EXCEPT ![c] = "write"]
  /\ left' = [left EXCEPT ![c] = @ \ {pair}]
  /\ seen' = [seen EXCEPT ![c] = [pair |-> pair, count |-> count[pair]]]
  /\ UNCHANGED <<dueVars, Tables, wrote>>

Pair(c) == seen[c].pair

Write(c) ==
  /\ step[c] = "write"
  /\ ~PairBusy(c, Pair(c))
  /\ ~Taken(c)
  /\ step' = [step EXCEPT ![c] = "count"]
  /\ wrote' = [wrote EXCEPT ![c] = [pair \in DOMAIN @ \cup {Pair(c)} |->
                 IF pair = Pair(c) THEN seen[c].count + 1 ELSE @[pair]]]
  /\ raced' = IF count[Pair(c)] = seen[c].count THEN raced ELSE raced \cup {Pair(c)}
  /\ UNCHANGED <<dueVars, recorded, count, collided, left, seen>>

\* The IntegrityError of a pair is taken for that of an order already recorded:
\* everything is rolled back and the message acknowledged.
Collide(c) ==
  /\ step[c] = "write"
  /\ ~PairBusy(c, Pair(c))
  /\ Taken(c)
  /\ Leave(c, "ack")
  /\ collided' = collided \cup {OrderOf(c)}
  /\ UNCHANGED <<dueVars, recorded, count, raced>>

Commit(c) ==
  /\ step[c] = "count"
  /\ left[c] = {}
  /\ recorded' = recorded \cup {OrderOf(c)}
  /\ count' = [pair \in Pairs |-> IF pair \in DOMAIN wrote[c] THEN wrote[c][pair] ELSE count[pair]]
  /\ Leave(c, "ack")
  /\ UNCHANGED <<dueVars, raced, collided>>

AckPaid(c) ==
  /\ step[c] = "ack"
  /\ D!Ack(c)
  /\ Leave(c, "idle")
  /\ UNCHANGED Tables

LoseRecorder(c) == D!Lose(c) /\ UNCHANGED <<Tables, step, left, seen, wrote>>

BreakRecorder(c) == D!Break(c) /\ Leave(c, "idle") /\ UNCHANGED Tables

TallyNext ==
  \E c \in Recorders :
    \/ \E o \in Purchases : TakePaid(c, o)
    \/ LookUp(c) \/ Mark(c) \/ MarkedMeanwhile(c)
    \/ \E pair \in Pairs : Read(c, pair)
    \/ Write(c) \/ Collide(c) \/ Commit(c) \/ AckPaid(c)
    \/ LoseRecorder(c) \/ BreakRecorder(c)

-----------------------------------------------------------------------------
(* Properties. *)

TallyTypeOK ==
  /\ due \subseteq Purchases
  /\ recorded \cup collided \subseteq Purchases
  /\ count \in [Pairs -> Nat]
  /\ step \in [Recorders -> {"idle", "lookup", "mark", "count", "write", "ack"}]
  /\ \A c \in Recorders : left[c] \cup DOMAIN wrote[c] \subseteq Pairs

Recorded(pair) == Cardinality({o \in recorded : pair \in PairsOf(o)})

\* A pair counts the recorded orders that hold it, each once however often its
\* message was delivered.  Where two transactions met over a pair an increment may
\* be lost and never more: no count is too high, none that was ever counted
\* vanishes, and elsewhere the count is exact.
CountsFollowOrders ==
  \A pair \in Pairs :
    /\ count[pair] <= Recorded(pair)
    /\ pair \notin raced => count[pair] = Recorded(pair)
    /\ Recorded(pair) > 0 => count[pair] > 0

\* FR-9, and record_purchase on itself: "Returns True when stats were updated,
\* False when this order was already recorded."  Either way the order is recorded
\* by the time its message leaves the queue.  The code breaks this: the order
\* that collides over a new pair is acknowledged and never counted.
SettledIsRecorded == \A o \in Purchases : D!Settled(o) => o \in recorded

\* What does hold: nothing but a collision drops an order.
DroppedOnlyByCollision ==
  \A o \in Purchases : D!Settled(o) => o \in recorded \cup collided

Awaits(c, d) ==
  /\ c # d
  /\ \/ step[c] = "mark" /\ OrderOf(c) = OrderOf(d) /\ step[d] \in {"count", "write"}
     \/ step[c] = "write" /\ Pair(c) \in DOMAIN wrote[d]

\* The transactions of two consumers never wait for each other: every one writes
\* its order first and then its pairs in ascending order.
NoCircularWait ==
  \A group \in (SUBSET Recorders) \ {{}} :
    \E c \in group : \A d \in group : ~Awaits(c, d)
=============================================================================
