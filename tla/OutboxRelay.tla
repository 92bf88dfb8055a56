----------------------------- MODULE OutboxRelay -----------------------------
(***************************************************************************)
(* The outbox table of the Order service and the relay thread of each of   *)
(* its instances.  A pass locks the oldest rows nobody else has locked,    *)
(* publishes them one by one and marks all of them in one commit.          *)
(*                                                                         *)
(* publish_event is mandatory: an event no queue is bound to makes it      *)
(* raise, and the pass rolls back.  The saga's events are bound by durable *)
(* work queues; the others only by the private queue of a connected        *)
(* Gateway, which binds everything.                                        *)
(***************************************************************************)
EXTENDS WorkQueue

CONSTANTS
  FeedRows,      \* rows only the dashboards are interested in
  Transactions,  \* sets of rows, each written by one transaction
  Relays,        \* instances of the Order service
  BatchSize,     \* rows of one pass (50)
  Instants       \* bound: the instants at which transactions begin

Rows == Messages \cup FeedRows

ASSUME RelayAssumption ==
  /\ Messages \cap FeedRows = {}
  /\ Transactions \subseteq SUBSET Rows
  /\ BatchSize \in Nat \ {0}
  /\ Instants \in Nat

VARIABLES
  outbox,        \* created_at of the committed rows not marked as published
  written,       \* rows ever committed
  batch,         \* the rows each relay has locked and has still to publish
  sent,          \* the rows each relay has published and not yet marked
  listening      \* is a Gateway's private queue bound?

relayVars == <<outbox, written, batch, sent, listening>>

\* No such row, or it is marked as published.
Absent == 0

OutboxTypeOK ==
  /\ outbox \in [Rows -> 0 .. Instants]
  /\ written \subseteq Rows
  /\ batch \in [Relays -> Seq(Rows)]
  /\ sent \in [Relays -> SUBSET Rows]
  /\ listening \in BOOLEAN

OutboxInit ==
  /\ outbox = [row \in Rows |-> Absent]
  /\ written = {}
  /\ batch = [r \in Relays |-> <<>>]
  /\ sent = [r \in Relays |-> {}]
  /\ listening \in BOOLEAN

\* A handler's transaction commits.  created_at is when it began: its rows have
\* the same, and transactions need not commit in the order in which they began.
Write(rows) ==
  /\ rows \cap written = {}
  /\ written' = written \cup rows
  /\ \E begun \in 1 .. Instants :
       outbox' = [row \in Rows |-> IF row \in rows THEN begun ELSE outbox[row]]
  /\ UNCHANGED <<batch, sent, listening, queueVars>>

-----------------------------------------------------------------------------
(* A pass of the relay. *)

RowsOf(seq) == {seq[i] : i \in 1 .. Len(seq)}
Taken(r) == RowsOf(batch[r]) \cup sent[r]
Locked == UNION {Taken(r) : r \in Relays}
Passing(r) == batch[r] # <<>> \/ sent[r] # {}

\* Wrong: rows another relay has locked are not skipped.
TakesLockedRows(row) == TRUE

\* FOR UPDATE SKIP LOCKED.
Available(row) == row \notin Locked

Free == {row \in Rows : outbox[row] # Absent /\ Available(row)}

\* The rows a pass may take: the oldest first, in any order those of one age.
Passes ==
  {pass \in UNION {[1 .. n -> Free] : n \in 1 .. BatchSize} :
     /\ \A i, j \in 1 .. Len(pass) :
          i < j => pass[i] # pass[j] /\ outbox[pass[i]] <= outbox[pass[j]]
     /\ Len(pass) < BatchSize => RowsOf(pass) = Free
     /\ \A row \in Free \ RowsOf(pass) : outbox[pass[Len(pass)]] <= outbox[row]}

Fetch(r) ==
  /\ ~Passing(r)
  /\ \E pass \in Passes : batch' = [batch EXCEPT ![r] = pass]
  /\ UNCHANGED <<outbox, written, sent, listening, queueVars>>

Routable(row) == row \in Messages \/ listening

PublishRow(r) ==
  /\ batch[r] # <<>>
  /\ LET row == Head(batch[r])
     IN /\ Routable(row)
        /\ IF row \in Messages THEN Enqueue(0, Fresh(row)) ELSE UNCHANGED queue
        /\ sent' = [sent EXCEPT ![r] = @ \cup {row}]
  /\ batch' = [batch EXCEPT ![r] = Tail(@)]
  /\ UNCHANGED <<outbox, written, listening, hand, replaying, peeked, handled, losses>>

RollBack(r) ==
  /\ batch' = [batch EXCEPT ![r] = <<>>]
  /\ sent' = [sent EXCEPT ![r] = {}]
  /\ UNCHANGED <<outbox, written, listening, queue, hand, replaying, peeked, handled>>

\* The broker returns the event.  What the pass published before it will be
\* published again; MaxLosses bounds that, too.
Unroutable(r) ==
  /\ batch[r] # <<>>
  /\ ~Routable(Head(batch[r]))
  /\ IF sent[r] = {} THEN UNCHANGED losses ELSE Loss
  /\ RollBack(r)

RelayDies(r) ==
  /\ Passing(r)
  /\ Loss
  /\ RollBack(r)

\* Wrong: the rows are marked in a transaction of their own, before they are out.
MarksOnFetch(r) ==
  /\ Passing(r)
  /\ outbox' = [row \in Rows |-> IF row \in Taken(r) THEN Absent ELSE outbox[row]]
  /\ UNCHANGED <<written, batch, sent, listening, queueVars>>

MarkPublished(r) ==
  /\ batch[r] = <<>>
  /\ sent[r] # {}
  /\ outbox' = [row \in Rows |-> IF row \in sent[r] THEN Absent ELSE outbox[row]]
  /\ sent' = [sent EXCEPT ![r] = {}]
  /\ UNCHANGED <<written, batch, listening, queueVars>>

-----------------------------------------------------------------------------
(* The Gateway, whose exclusive queue lives as long as its connection. *)

Connect ==
  /\ ~listening
  /\ listening' = TRUE
  /\ UNCHANGED <<outbox, written, batch, sent, queueVars>>

Disconnect ==
  /\ listening
  /\ Loss
  /\ listening' = FALSE
  /\ UNCHANGED <<outbox, written, batch, sent, queue, hand, replaying, peeked, handled>>

RelayStep ==
  \/ \E rows \in Transactions : Write(rows)
  \/ \E r \in Relays :
        Fetch(r) \/ PublishRow(r) \/ Unroutable(r) \/ RelayDies(r) \/ MarkPublished(r)
  \/ Connect
  \/ Disconnect
=============================================================================
