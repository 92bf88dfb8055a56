---------------------------- MODULE Reservations ----------------------------
(***************************************************************************)
(* The transactions of the Inventory service, one lock at a time.          *)
(* Sessions of several consumers and HTTP requests run reserve,            *)
(* commit_for_order and release_for_order side by side under READ          *)
(* COMMITTED; what keeps them apart is the advisory lock on an order, the  *)
(* locks on its reservation rows and the locks on product rows, taken in   *)
(* that order and the products by ascending id.                            *)
(*                                                                         *)
(* Nothing a transaction writes is seen by others before its commit, so a  *)
(* write is part of the commit step; dying or rolling back just ends the   *)
(* session.  An order line that names a product twice, or one that does    *)
(* not exist, is one of larger quantity, or one that is out of stock.      *)
(***************************************************************************)
EXTENDS Integers

CONSTANTS
  Orders,
  LastProduct,    \* products are numbered by their ids
  InitialStock,
  Sessions,       \* database sessions of consumer threads and requests
  Asks            \* Asks[o]: the quantities callers ask for in the name of order o

Products == 1 .. LastProduct

ASSUME ReservationsAssumption ==
  /\ LastProduct \in Nat
  /\ InitialStock \in [Products -> Nat]
  /\ Asks \in [Orders -> SUBSET [Products -> Nat]]
  /\ \A o \in Orders : \A qty \in Asks[o] : \E p \in Products : qty[p] > 0

VARIABLES
  stock,
  reservation,
  command,        \* what each session was asked to do
  stage,          \* "idle", or what it locks next: "order", "rows" or "products"
  waiting,        \* ids of the products whose row of that kind it has still to lock
  rows,           \* ids of the products whose reservation row it has locked, still held
  taken,          \* product rows it has locked
  seen            \* stock_qty of those, as read when they were locked

sessionVars == <<command, stage, waiting, rows, taken, seen>>
vars == <<stock, reservation, sessionVars>>

Quantities == UNION {Asks[o] : o \in Orders}

S == INSTANCE Stock

Commands ==
  [op : {"reserve", "commit", "release"}, order : Orders, ask : [Products -> Nat]]
NoUnits == [p \in Products |-> 0]
NoCommand == [op |-> "none", order |-> "none", ask |-> NoUnits]

TypeOK ==
  /\ stock \in [Products -> Nat]
  /\ reservation \in [Orders -> [status : {"none", "held", "committed", "released"},
                                 qty : [Products -> Nat]]]
  /\ command \in [Sessions -> Commands \cup {NoCommand}]
  /\ stage \in [Sessions -> {"idle", "order", "lookup", "rows", "products"}]
  /\ waiting \in [Sessions -> SUBSET Products]
  /\ rows \in [Sessions -> SUBSET Products]
  /\ taken \in [Sessions -> SUBSET Products]
  /\ seen \in [Sessions -> [Products -> Nat]]

Init ==
  /\ S!Init
  /\ command = [s \in Sessions |-> NoCommand]
  /\ stage = [s \in Sessions |-> "idle"]
  /\ waiting = [s \in Sessions |-> {}]
  /\ rows = [s \in Sessions |-> {}]
  /\ taken = [s \in Sessions |-> {}]
  /\ seen = [s \in Sessions |-> NoUnits]

Op(s) == command[s].op
Order(s) == command[s].order
Ask(s) == command[s].ask
Status(s) == reservation[Order(s)].status

Named(qty) == {p \in Products : qty[p] > 0}

\* Commit, rollback, or the end of the session: all its locks are released.
End(s) ==
  /\ command' = [command EXCEPT ![s] = NoCommand]
  /\ stage' = [stage EXCEPT ![s] = "idle"]
  /\ waiting' = [waiting EXCEPT ![s] = {}]
  /\ rows' = [rows EXCEPT ![s] = {}]
  /\ taken' = [taken EXCEPT ![s] = {}]
  /\ seen' = [seen EXCEPT ![s] = NoUnits]

RollBack(s) == End(s) /\ UNCHANGED <<stock, reservation>>

-----------------------------------------------------------------------------
(* Locks. *)

\* pg_advisory_xact_lock, held from the lookup to the end of the transaction.
HoldsOrder(s, o) == Op(s) = "reserve" /\ Order(s) = o /\ stage[s] \in {"lookup", "products"}
HoldsRow(s, o, p) == Order(s) = o /\ p \in rows[s]
HoldsProduct(s, p) == p \in taken[s]

\* Wrong: there is no lock on the order.
OrderUnlocked(s) == TRUE

OrderFree(s) == \A t \in Sessions : ~HoldsOrder(t, Order(s))

RowFree(s, p) == \A t \in Sessions : ~HoldsRow(t, Order(s), p)

\* Wrong: the product is read without FOR UPDATE.
ProductUnlocked(p) == TRUE

ProductFree(p) == \A t \in Sessions : ~HoldsProduct(t, p)

\* Wrong: rows are locked in the order of the caller's list.
AsListed(s, p) == p \in waiting[s]

\* Wrong: release goes through the products from the other end.
ReleaseDescends(s, p) ==
  /\ p \in waiting[s]
  /\ \A q \in waiting[s] :
       IF Op(s) = "release" /\ stage[s] = "products" THEN q <= p ELSE p <= q

\* Products are sorted by id; the rows of one order lie in the table as reserve
\* inserted them, and every scan finds them so.
InTurn(s, p) ==
  /\ p \in waiting[s]
  /\ \A q \in waiting[s] : p <= q

-----------------------------------------------------------------------------
(* The transactions. *)

Begin(s, c) ==
  /\ stage[s] = "idle"
  /\ command' = [command EXCEPT ![s] = c]
  /\ stage' = [stage EXCEPT ![s] = IF c.op = "reserve" THEN "order" ELSE "rows"]
  /\ waiting' = [waiting EXCEPT
       ![s] = IF c.op # "reserve" /\ reservation[c.order].status = "held"
              THEN Named(reservation[c.order].qty) ELSE {}]
  /\ UNCHANGED <<stock, reservation, rows, taken, seen>>

LockOrder(s) ==
  /\ stage[s] = "order"
  /\ OrderFree(s)
  /\ stage' = [stage EXCEPT ![s] = "lookup"]
  /\ UNCHANGED <<stock, reservation, command, waiting, rows, taken, seen>>

\* The order has rows, whatever their status: they are returned if the caller asks
\* for the same again and refused if not.  Either way nothing changes.
Replay(s) ==
  /\ stage[s] = "lookup"
  /\ Status(s) # "none"
  /\ RollBack(s)

FindNoRows(s) ==
  /\ stage[s] = "lookup"
  /\ Status(s) = "none"
  /\ stage' = [stage EXCEPT ![s] = "products"]
  /\ waiting' = [waiting EXCEPT ![s] = Named(Ask(s))]
  /\ UNCHANGED <<stock, reservation, command, rows, taken, seen>>

\* Wrong: the row a session waited for is not looked at again.
FoundHeldAtFirst(s) == TRUE

\* A row that is no longer held once it is locked is not part of the result.
StillHeld(s) == Status(s) = "held"

LockRow(s, p) ==
  /\ stage[s] = "rows"
  /\ InTurn(s, p)
  /\ RowFree(s, p)
  /\ waiting' = [waiting EXCEPT ![s] = @ \ {p}]
  /\ rows' = [rows EXCEPT ![s] = IF StillHeld(s) THEN @ \cup {p} ELSE @]
  /\ UNCHANGED <<stock, reservation, command, stage, taken, seen>>

HaveRows(s) == stage[s] = "rows" /\ waiting[s] = {}

NothingHeld(s) ==
  /\ HaveRows(s)
  /\ rows[s] = {}
  /\ RollBack(s)

CommitRows(s) ==
  /\ HaveRows(s)
  /\ rows[s] # {}
  /\ Op(s) = "commit"
  /\ reservation' = [reservation EXCEPT ![Order(s)].status = "committed"]
  /\ End(s)
  /\ UNCHANGED stock

ReleaseRows(s) ==
  /\ HaveRows(s)
  /\ rows[s] # {}
  /\ Op(s) = "release"
  /\ stage' = [stage EXCEPT ![s] = "products"]
  /\ waiting' = [waiting EXCEPT ![s] = rows[s]]
  /\ UNCHANGED <<stock, reservation, command, rows, taken, seen>>

\* Wrong: the last unit is given twice.
EnoughButOne(s, p) == stock[p] + 1 >= Ask(s)[p]

Enough(s, p) == stock[p] >= Ask(s)[p]

LockProduct(s, p) ==
  /\ stage[s] = "products"
  /\ InTurn(s, p)
  /\ ProductFree(p)
  /\ Op(s) = "reserve" => Enough(s, p)
  /\ waiting' = [waiting EXCEPT ![s] = @ \ {p}]
  /\ taken' = [taken EXCEPT ![s] = @ \cup {p}]
  /\ seen' = [seen EXCEPT ![s][p] = stock[p]]
  /\ UNCHANGED <<stock, reservation, command, stage, rows>>

InsufficientStock(s, p) ==
  /\ stage[s] = "products"
  /\ InTurn(s, p)
  /\ ProductFree(p)
  /\ Op(s) = "reserve"
  /\ ~Enough(s, p)
  /\ RollBack(s)

HaveProducts(s) == stage[s] = "products" /\ waiting[s] = {}

\* The stock once the session has changed the products it has locked.
Restocked(s, change) ==
  [p \in Products |-> IF p \in taken[s] THEN seen[s][p] + change[p] ELSE stock[p]]

Reserved(s) ==
  /\ HaveProducts(s)
  /\ Op(s) = "reserve"
  /\ stock' = Restocked(s, [p \in Products |-> -Ask(s)[p]])
  /\ reservation' = [reservation EXCEPT ![Order(s)] = S!Rows("held", Ask(s))]
  /\ End(s)

Released(s) ==
  /\ HaveProducts(s)
  /\ Op(s) = "release"
  /\ stock' = Restocked(s, reservation[Order(s)].qty)
  /\ reservation' = [reservation EXCEPT ![Order(s)].status = "released"]
  /\ End(s)

\* The process or its connection dies: PostgreSQL rolls back.
Die(s) ==
  /\ stage[s] # "idle"
  /\ RollBack(s)

\* The commands there are.
Asked ==
  (UNION {[op : {"reserve"}, order : {o}, ask : Asks[o]] : o \in Orders})
    \cup [op : {"commit", "release"}, order : Orders, ask : {NoUnits}]

Lock(s) ==
  \/ LockOrder(s)
  \/ \E p \in Products : LockRow(s, p) \/ LockProduct(s, p) \/ InsufficientStock(s, p)

Proceed(s) ==
  \/ Replay(s) \/ FindNoRows(s)
  \/ NothingHeld(s) \/ CommitRows(s) \/ ReleaseRows(s)
  \/ Reserved(s) \/ Released(s)

Next ==
  \E s \in Sessions :
    \/ \E c \in Asked : Begin(s, c)
    \/ Lock(s)
    \/ Proceed(s)
    \/ Die(s)

Spec == Init /\ [][Next]_vars

\* A session goes on by itself, and PostgreSQL grants a lock to the waiters in the
\* order they came.
LiveSpec == Spec /\ \A s \in Sessions : SF_vars(Lock(s)) /\ WF_vars(Proceed(s))

-----------------------------------------------------------------------------
(* Properties. *)

\* Is t in the way of s?
Blocks(t, s) ==
  \/ stage[s] = "order" /\ HoldsOrder(t, Order(s))
  \/ \E p \in Products :
       /\ InTurn(s, p)
       /\ \/ stage[s] = "rows" /\ HoldsRow(t, Order(s), p)
          \/ stage[s] = "products" /\ HoldsProduct(t, p)

\* No set of sessions waits for one another: someone in it waits for nobody in it.
\* The locks are taken in one order by reserve, commit and release alike.
NoDeadlock ==
  \A waiters \in (SUBSET Sessions) \ {{}} :
    \E s \in waiters : \A t \in waiters : ~Blocks(t, s)

DecisionHolds(s) ==
  /\ Op(s) = "reserve" /\ stage[s] = "products" => reservation[Order(s)] = S!NoRows
  /\ rows[s] # {} => Status(s) = "held"
  /\ \A p \in taken[s] : seen[s][p] = stock[p]

\* What a transaction read under its locks is still so when it comes to write: the
\* order has no rows yet, the rows it settles are all held, nobody moved the stock.
DecisionsHold == \A s \in Sessions : DecisionHolds(s)

\* The transactions do not interfere: each has the effect, all or nothing, it would
\* have on its own.
ImplementsStock == S!Spec

\* Every transaction comes to an end.
SessionsEnd == \A s \in Sessions : stage[s] # "idle" ~> stage[s] = "idle"
=============================================================================
