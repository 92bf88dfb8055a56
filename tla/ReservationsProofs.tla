------------------------- MODULE ReservationsProofs -------------------------
(***************************************************************************)
(* For any sessions, orders, products and quantities: the transactions of  *)
(* the Inventory service act on what is still so, and implement Stock.     *)
(***************************************************************************)
EXTENDS Reservations, WellFoundedInduction, TLAPS

\* Each stage belongs to the operations that pass through it, with the locks they
\* have by then.
StageOK(s) ==
  /\ stage[s] = "idle" => command[s] = NoCommand
  /\ stage[s] # "idle" => command[s] \in Asked
  /\ stage[s] \in {"order", "lookup"} => Op(s) = "reserve"
  /\ stage[s] = "rows" => Op(s) # "reserve"
  /\ stage[s] = "products" => Op(s) # "commit"
  /\ stage[s] \in {"idle", "order", "lookup"} => waiting[s] = {}
  /\ stage[s] # "products" => taken[s] = {}
  /\ Op(s) \notin {"commit", "release"} => rows[s] = {}

StagesInv == \A s \in Sessions : StageOK(s)

\* No lock has two holders.
LocksInv ==
  \A s, t \in Sessions : s # t =>
    /\ \A o \in Orders : ~(HoldsOrder(s, o) /\ HoldsOrder(t, o))
    /\ Order(s) = Order(t) => rows[s] \cap rows[t] = {}
    /\ taken[s] \cap taken[t] = {}

\* What a session has locked and what it waits for is all it needs.
ScopeOK(s) ==
  /\ stage[s] = "rows" =>
       /\ rows[s] # {} => waiting[s] \cup rows[s] = Named(reservation[Order(s)].qty)
       /\ waiting[s] # {} => Status(s) # "none"
       /\ waiting[s] # {} /\ Status(s) = "held" =>
            waiting[s] \cup rows[s] = Named(reservation[Order(s)].qty)
  /\ stage[s] = "products" /\ Op(s) = "reserve" =>
       waiting[s] \cup taken[s] = Named(Ask(s))
  /\ stage[s] = "products" /\ Op(s) = "release" =>
       /\ rows[s] # {}
       /\ rows[s] = Named(reservation[Order(s)].qty)
       /\ waiting[s] \cup taken[s] = rows[s]
  /\ Op(s) = "reserve" => \A p \in taken[s] : seen[s][p] >= Ask(s)[p]

ScopeInv == \A s \in Sessions : ScopeOK(s)

\* An order without a status has no rows.
NoRowsInv == \A o \in Orders : reservation[o].status = "none" => reservation[o] = S!NoRows

IInv == TypeOK /\ StagesInv /\ LocksInv /\ ScopeInv /\ NoRowsInv /\ DecisionsHold

-----------------------------------------------------------------------------

LEMMA AskedAreCommands ==
  ASSUME NEW c \in Asked
  PROVE  /\ c \in Commands
         /\ c.op = "reserve" => c.ask \in Quantities
         /\ c.op \in {"reserve", "commit", "release"}
         /\ c.order \in Orders
         /\ c.ask \in [Products -> Nat]
<1>1. CASE c \in [op : {"commit", "release"}, order : Orders, ask : {NoUnits}]
  <2>1. NoUnits \in [Products -> Nat]
    BY DEF NoUnits
  <2>2. QED
    BY <1>1, <2>1 DEF Commands
<1>2. CASE c \in UNION {[op : {"reserve"}, order : {o}, ask : Asks[o]] : o \in Orders}
  <2>1. PICK o \in Orders : c \in [op : {"reserve"}, order : {o}, ask : Asks[o]]
    BY <1>2
  <2>2. c.op = "reserve" /\ c.order = o /\ c.ask \in Asks[o]
    BY <2>1
  <2>3. c.ask \in [Products -> Nat] /\ c.ask \in Quantities
    BY <2>2, ReservationsAssumption DEF Quantities
  <2>4. QED
    BY <2>1, <2>2, <2>3 DEF Commands
<1>3. QED
  BY <1>1, <1>2 DEF Asked

\* A session that is not idle carries out a command somebody gave.
LEMMA Active ==
  ASSUME IInv, NEW s \in Sessions, stage[s] # "idle"
  PROVE  /\ Op(s) \in {"reserve", "commit", "release"}
         /\ Order(s) \in Orders
         /\ Ask(s) \in [Products -> Nat]
         /\ Op(s) = "reserve" => Ask(s) \in Quantities
         /\ command[s] \in Commands
BY AskedAreCommands DEF IInv, StagesInv, StageOK, Op, Order, Ask

\* A step of one session leaves what the others have alone.
Same(t) ==
  /\ command'[t] = command[t]
  /\ stage'[t] = stage[t]
  /\ waiting'[t] = waiting[t]
  /\ rows'[t] = rows[t]
  /\ taken'[t] = taken[t]
  /\ seen'[t] = seen[t]

LEMMA EndOthers ==
  ASSUME TypeOK, NEW s \in Sessions, NEW t \in Sessions, t # s, End(s)
  PROVE  Same(t)
BY DEF TypeOK, End, Same

LEMMA SameScope ==
  ASSUME NEW t \in Sessions, Same(t), ScopeOK(t),
         reservation'[Order(t)] = reservation[Order(t)]
  PROVE  ScopeOK(t)'
BY DEF Same, ScopeOK, Op, Order, Ask, Status, Named

\* All rows of an order are locked by one session, or some are not locked at all.
LEMMA OthersHaveNoRows ==
  ASSUME IInv, NEW s \in Sessions, NEW t \in Sessions, t # s, Order(t) = Order(s),
         rows[s] = Named(reservation[Order(s)].qty),
         stage[t] \in {"rows", "products"}, stage[s] # "idle"
  PROVE  rows[t] = {}
<1>1. SUFFICES ASSUME rows[t] # {} PROVE FALSE
  OBVIOUS
<1>2. rows[t] \subseteq Named(reservation[Order(t)].qty)
  BY <1>1, Active DEF IInv, ScopeInv, ScopeOK, StagesInv, StageOK
<1>3. rows[s] \cap rows[t] = {}
  BY DEF IInv, LocksInv
<1>4. QED
  BY <1>1, <1>2, <1>3

LEMMA InitIInv == Init => IInv
BY ReservationsAssumption
DEF Init, S!Init, S!NoRows, S!Rows, IInv, TypeOK, StagesInv, LocksInv, ScopeInv, StageOK,
    ScopeOK, NoRowsInv, DecisionsHold, DecisionHolds, NoCommand, NoUnits, Op, Order,
    HoldsOrder, Status

LEMMA RollBackStep ==
  ASSUME IInv, NEW s \in Sessions, RollBack(s)
  PROVE  IInv'
<1>1. TypeOK'
  BY DEF IInv, RollBack, End, NoCommand, NoUnits, TypeOK, Op, Order, Ask, Status, Commands
<1>2. StagesInv'
  BY DEF IInv, RollBack, End, NoCommand, NoUnits, TypeOK, StagesInv, StageOK, Op, Order,
         Ask, Commands
<1>3. LocksInv'
  BY DEF IInv, RollBack, End, NoCommand, NoUnits, TypeOK, StagesInv, StageOK, LocksInv,
         HoldsOrder, Op, Order, Commands
<1>4. ASSUME NEW t \in Sessions PROVE ScopeOK(t)'
  <2>1. CASE t = s
    BY <2>1 DEF IInv, RollBack, End, NoCommand, NoUnits, TypeOK, ScopeOK, Op
  <2>2. CASE t # s
    <3>1. Same(t) /\ ScopeOK(t)
      BY <2>2, EndOthers DEF IInv, RollBack, ScopeInv
    <3>2. QED
      BY <3>1, SameScope DEF RollBack
  <2>3. QED
    BY <2>1, <2>2
<1>5. NoRowsInv'
  BY DEF IInv, RollBack, End, NoCommand, NoUnits, TypeOK, NoRowsInv, Op, Order, Commands
<1>6. DecisionsHold'
  BY DEF IInv, RollBack, End, NoCommand, NoUnits, TypeOK, StagesInv, StageOK, LocksInv,
         ScopeInv, ScopeOK, DecisionsHold, DecisionHolds, Op, Order, Ask, Status, Commands
<1>7. QED
  BY <1>1, <1>2, <1>3, <1>4, <1>5, <1>6 DEF IInv, StagesInv, ScopeInv, DecisionsHold

LEMMA BeginStep ==
  ASSUME IInv, NEW s \in Sessions, NEW c \in Asked, Begin(s, c)
  PROVE  IInv'
<1>1. TypeOK'
  <2>1. c \in Commands
    BY AskedAreCommands
  <2>2. Named(reservation[c.order].qty) \in SUBSET Products
    BY DEF Named
  <2>3. QED
    BY <2>1, <2>2 DEF IInv, TypeOK, Begin
<1>2. ASSUME NEW t \in Sessions PROVE StageOK(t)'
  <2>1. CASE t = s
    <3>1. /\ command'[s] = c /\ c.op \in {"reserve", "commit", "release"}
          /\ stage'[s] = IF c.op = "reserve" THEN "order" ELSE "rows"
          /\ c.op = "reserve" => waiting'[s] = {}
          /\ rows'[s] = rows[s] /\ taken'[s] = taken[s]
      BY AskedAreCommands DEF IInv, TypeOK, Begin
    <3>2. rows[s] = {} /\ taken[s] = {}
      BY DEF IInv, StagesInv, StageOK, Begin, Op, NoCommand
    <3>3. c \in Asked
      OBVIOUS
    <3>4. QED
      BY <2>1, <3>1, <3>2, <3>3 DEF StageOK, Op, Asked
  <2>2. CASE t # s
    BY <2>2 DEF IInv, Begin, TypeOK, StagesInv, StageOK, Op
  <2>3. QED
    BY <2>1, <2>2
<1>3. LocksInv'
  <2>1. \A t \in Sessions, o \in Orders : HoldsOrder(t, o)' => HoldsOrder(t, o)
    BY DEF IInv, Begin, TypeOK, HoldsOrder, Op, Order
  <2>2. rows[s] = {}
    BY DEF IInv, Begin, StagesInv, StageOK, Op, NoCommand
  <2>3. rows' = rows /\ taken' = taken
    BY DEF Begin
  <2>4. \A t \in Sessions : t # s => Order(t)' = Order(t)
    BY DEF IInv, Begin, TypeOK, Order
  <2>5. QED
    BY <2>1, <2>2, <2>3, <2>4 DEF IInv, LocksInv
<1>4. ASSUME NEW t \in Sessions PROVE ScopeOK(t)'
  <2>1. CASE t = s
    <3>1. rows'[s] = {} /\ taken'[s] = {} /\ reservation' = reservation
      BY DEF IInv, Begin, StagesInv, StageOK, Op, NoCommand
    <3>2. /\ command'[s] = c
          /\ stage'[s] \in {"order", "rows"}
          /\ waiting'[s] # {} => /\ waiting'[s] = Named(reservation[c.order].qty)
                               /\ reservation[c.order].status = "held"
      BY DEF IInv, Begin, TypeOK
    <3>3. QED
      BY <2>1, <3>1, <3>2 DEF ScopeOK, Op, Order, Status, Named
  <2>2. CASE t # s
    <3>1. Same(t) /\ ScopeOK(t) /\ reservation' = reservation
      BY <2>2 DEF IInv, Begin, TypeOK, Same, ScopeInv
    <3>2. QED
      BY <3>1, SameScope
  <2>3. QED
    BY <2>1, <2>2
<1>5. NoRowsInv'
  BY AskedAreCommands DEF IInv, Begin, TypeOK, NoRowsInv, Op, Order, Commands
<1>6. ASSUME NEW t \in Sessions PROVE DecisionHolds(t)'
  <2>1. CASE t = s
    <3>1. rows'[s] = {} /\ taken'[s] = {}
      BY DEF IInv, Begin, StagesInv, StageOK, Op, NoCommand
    <3>2. stage'[s] # "products"
      BY DEF IInv, TypeOK, Begin
    <3>3. QED
      BY <2>1, <3>1, <3>2 DEF DecisionHolds
  <2>2. CASE t # s
    BY <2>2 DEF IInv, Begin, TypeOK, DecisionsHold, DecisionHolds, Op, Order, Status
  <2>3. QED
    BY <2>1, <2>2
<1>7. QED
  BY <1>1, <1>2, <1>3, <1>4, <1>5, <1>6 DEF IInv, StagesInv, ScopeInv, DecisionsHold

LEMMA LockOrderStep ==
  ASSUME IInv, NEW s \in Sessions, LockOrder(s)
  PROVE  IInv'
<1>1. TypeOK'
  BY DEF IInv, LockOrder, OrderFree, TypeOK, Op, Order, Ask, Status, Commands
<1>2. StagesInv'
  BY DEF IInv, LockOrder, OrderFree, TypeOK, StagesInv, StageOK, Op, Order, Ask, Commands
<1>3. LocksInv'
  BY DEF IInv, LockOrder, OrderFree, TypeOK, StagesInv, StageOK, LocksInv, HoldsOrder, Op,
         Order, Commands
<1>4. ASSUME NEW t \in Sessions PROVE ScopeOK(t)'
  <2>1. CASE t = s
    BY <2>1 DEF IInv, TypeOK, ScopeInv, LockOrder, ScopeOK, StagesInv, StageOK,
           Op, Order, Ask, Status, Named
  <2>2. CASE t # s
    <3>1. Same(t)
      BY <2>2 DEF IInv, TypeOK, LockOrder, Same
    <3>2. reservation' = reservation
      BY DEF LockOrder
    <3>3. QED
      BY <3>1, <3>2, SameScope DEF IInv, ScopeInv
  <2>3. QED
    BY <2>1, <2>2
<1>5. NoRowsInv'
  BY DEF IInv, LockOrder, OrderFree, TypeOK, NoRowsInv, Op, Order, Commands
<1>6. DecisionsHold'
  BY DEF IInv, LockOrder, OrderFree, TypeOK, StagesInv, StageOK, LocksInv, ScopeInv,
         ScopeOK, DecisionsHold, DecisionHolds, Op, Order, Ask, Status, Commands
<1>7. QED
  BY <1>1, <1>2, <1>3, <1>4, <1>5, <1>6 DEF IInv, StagesInv, ScopeInv, DecisionsHold

LEMMA FindNoRowsStep ==
  ASSUME IInv, NEW s \in Sessions, FindNoRows(s)
  PROVE  IInv'
<1>1. TypeOK'
  BY DEF IInv, FindNoRows, TypeOK, Named
<1>2. StagesInv'
  BY DEF IInv, FindNoRows, TypeOK, StagesInv, StageOK, Op, Order, Ask, Commands
<1>3. LocksInv'
  BY DEF IInv, FindNoRows, TypeOK, StagesInv, StageOK, LocksInv, HoldsOrder, Op, Order,
         Commands
<1>4. ASSUME NEW t \in Sessions PROVE ScopeOK(t)'
  <2>1. CASE t = s
    BY <2>1 DEF IInv, TypeOK, ScopeInv, FindNoRows, ScopeOK, StagesInv, StageOK,
           Op, Order, Ask, Status, Named
  <2>2. CASE t # s
    <3>1. Same(t)
      BY <2>2 DEF IInv, TypeOK, FindNoRows, Same
    <3>2. reservation' = reservation
      BY DEF FindNoRows
    <3>3. QED
      BY <3>1, <3>2, SameScope DEF IInv, ScopeInv
  <2>3. QED
    BY <2>1, <2>2
<1>5. NoRowsInv'
  BY DEF IInv, FindNoRows, TypeOK, NoRowsInv, Op, Order, Commands, S!Rows, S!NoRows
<1>6. ASSUME NEW t \in Sessions PROVE DecisionHolds(t)'
  <2>1. CASE t = s
    <3>1. Order(s) \in Orders
      BY Active DEF FindNoRows
    <3>2. reservation[Order(s)] = S!NoRows
      BY <3>1 DEF IInv, NoRowsInv, FindNoRows, Status
    <3>3. QED
      BY <2>1, <3>2 DEF IInv, FindNoRows, TypeOK, DecisionsHold, DecisionHolds, Op, Order,
         Status
  <2>2. CASE t # s
    BY <2>2 DEF IInv, FindNoRows, TypeOK, DecisionsHold, DecisionHolds, Op, Order, Status
  <2>3. QED
    BY <2>1, <2>2
<1>7. QED
  BY <1>1, <1>2, <1>3, <1>4, <1>5, <1>6 DEF IInv, StagesInv, ScopeInv, DecisionsHold

LEMMA LockRowStep ==
  ASSUME IInv, NEW s \in Sessions, NEW p \in Products, LockRow(s, p)
  PROVE  IInv'
<1>1. TypeOK'
  BY DEF IInv, LockRow, InTurn, RowFree, StillHeld, HoldsRow, TypeOK, Op, Order, Ask,
         Status, Commands
<1>2. ASSUME NEW t \in Sessions PROVE StageOK(t)'
  <2>1. CASE t = s
    BY <2>1, Active
    DEF IInv, LockRow, InTurn, RowFree, StillHeld, HoldsRow, TypeOK, StagesInv, StageOK,
        Op, Order, Ask, Commands
  <2>2. CASE t # s
    BY <2>2, Active
    DEF IInv, LockRow, InTurn, RowFree, StillHeld, HoldsRow, TypeOK, StagesInv, StageOK,
        Op, Order, Ask, Commands
  <2>3. QED
    BY <2>1, <2>2
<1>3. LocksInv'
  BY DEF IInv, LockRow, InTurn, RowFree, StillHeld, HoldsRow, TypeOK, StagesInv, StageOK,
         LocksInv, HoldsOrder, Op, Order, Commands
<1>4. ASSUME NEW t \in Sessions PROVE ScopeOK(t)'
  <2>1. CASE t = s
    <3>1. /\ waiting[s] # {} /\ p \in waiting[s] /\ waiting'[s] = waiting[s] \ {p}
          /\ rows'[s] = IF Status(s) = "held" THEN rows[s] \cup {p} ELSE rows[s]
          /\ stage'[s] = "rows" /\ stage[s] = "rows"
          /\ command' = command /\ reservation' = reservation /\ taken' = taken
          /\ seen' = seen
      BY DEF IInv, TypeOK, LockRow, InTurn, StillHeld
    <3>2. rows[s] # {} => Status(s) = "held"
      BY DEF IInv, DecisionsHold, DecisionHolds
    <3>3. ScopeOK(s)
      BY DEF IInv, ScopeInv
    <3>4. Status(s)' = Status(s) /\ Order(s)' = Order(s) /\ Op(s)' = Op(s) /\ Ask(s)' = Ask(s)
      BY <3>1 DEF Status, Order, Op, Ask
    <3>5. Op(s) # "reserve"
      BY <3>1 DEF IInv, StagesInv, StageOK
    <3>6. waiting'[s] # {} /\ Status(s) = "held" =>
            waiting'[s] \cup rows'[s] = Named(reservation[Order(s)].qty)
      BY <3>1, <3>3 DEF ScopeOK
    <3>7. rows'[s] # {} => waiting'[s] \cup rows'[s] = Named(reservation[Order(s)].qty)
      BY <3>1, <3>2, <3>3 DEF ScopeOK
    <3>8. QED
      BY <2>1, <3>1, <3>3, <3>4, <3>5, <3>6, <3>7 DEF ScopeOK, Named
  <2>2. CASE t # s
    <3>1. Same(t) /\ ScopeOK(t) /\ reservation' = reservation
      BY <2>2 DEF IInv, LockRow, TypeOK, Same, ScopeInv
    <3>2. QED
      BY <3>1, SameScope
  <2>3. QED
    BY <2>1, <2>2
<1>5. NoRowsInv'
  BY DEF IInv, LockRow, InTurn, RowFree, StillHeld, HoldsRow, TypeOK, NoRowsInv, Op,
         Order, Commands
<1>6. DecisionsHold'
  BY DEF IInv, LockRow, InTurn, RowFree, StillHeld, HoldsRow, TypeOK, StagesInv, StageOK,
         LocksInv, ScopeInv, ScopeOK, DecisionsHold, DecisionHolds, Op, Order, Ask,
         Status, Commands
<1>7. QED
  BY <1>1, <1>2, <1>3, <1>4, <1>5, <1>6 DEF IInv, StagesInv, ScopeInv, DecisionsHold

\* commit_for_order and release_for_order settle all rows of an order, all held.
LEMMA Settling ==
  ASSUME IInv, NEW s \in Sessions, CommitRows(s) \/ Released(s)
  PROVE  /\ rows[s] = Named(reservation[Order(s)].qty)
         /\ Status(s) = "held"
         /\ Order(s) \in Orders
         /\ stage[s] # "idle"
<1>1. stage[s] \in {"rows", "products"} /\ Op(s) \in {"commit", "release"}
  BY DEF CommitRows, Released, HaveRows, HaveProducts
<1>2. Order(s) \in Orders
  BY <1>1, Active
<1>3. rows[s] = Named(reservation[Order(s)].qty) /\ rows[s] # {}
  BY DEF IInv, ScopeInv, ScopeOK, CommitRows, Released, HaveRows, HaveProducts
<1>4. QED
  BY <1>1, <1>2, <1>3 DEF IInv, DecisionsHold, DecisionHolds

LEMMA CommitRowsStep ==
  ASSUME IInv, NEW s \in Sessions, CommitRows(s)
  PROVE  IInv'
<1>1. TypeOK'
  BY DEF IInv, CommitRows, HaveRows, End, NoCommand, NoUnits, TypeOK, Op, Order, Ask,
         Status, Commands
<1>2. StagesInv'
  BY DEF IInv, CommitRows, HaveRows, End, NoCommand, NoUnits, TypeOK, StagesInv, StageOK,
         Op, Order, Ask, Commands
<1>3. LocksInv'
  BY DEF IInv, CommitRows, HaveRows, End, NoCommand, NoUnits, TypeOK, StagesInv, StageOK,
         LocksInv, HoldsOrder, Op, Order, Commands
<1>4. ASSUME NEW t \in Sessions PROVE ScopeOK(t)'
  <2>1. CASE t = s
    BY <2>1 DEF IInv, CommitRows, End, NoCommand, NoUnits, TypeOK, ScopeOK, Op
  <2>2. CASE t # s
    <3>1. Same(t) /\ ScopeOK(t)
      BY <2>2, EndOthers DEF IInv, CommitRows, ScopeInv
    <3>2. CASE Order(t) # Order(s)
      <4>1. reservation'[Order(t)] = reservation[Order(t)]
        BY <3>2 DEF IInv, TypeOK, CommitRows
      <4>2. QED
        BY <3>1, <4>1, SameScope
    <3>3. CASE Order(t) = Order(s) /\ stage[t] \in {"rows", "products"}
      <4>1. rows[t] = {}
        BY <3>3, <2>2, OthersHaveNoRows, Settling
      <4>2. reservation'[Order(t)].status = "committed"
        BY <3>3, Active, Settling DEF IInv, TypeOK, CommitRows
      <4>3. QED
        BY <3>1, <3>3, <4>1, <4>2 DEF Same, ScopeOK, Op, Order, Status, Ask, Named
    <3>4. CASE stage[t] \notin {"rows", "products"}
      BY <3>1, <3>4 DEF IInv, StagesInv, StageOK, Same, ScopeOK, Op, Ask
    <3>5. QED
      BY <3>2, <3>3, <3>4
  <2>3. QED
    BY <2>1, <2>2
<1>5. NoRowsInv'
  BY DEF IInv, CommitRows, HaveRows, End, NoCommand, NoUnits, TypeOK, NoRowsInv, Op,
         Order, Commands
<1>6. ASSUME NEW t \in Sessions PROVE DecisionHolds(t)'
  <2>1. CASE t = s
    BY <2>1 DEF IInv, CommitRows, End, NoCommand, NoUnits, TypeOK, DecisionHolds, Op
  <2>2. CASE t # s
    <3>1. Same(t) /\ DecisionHolds(t)
      BY <2>2, EndOthers DEF IInv, CommitRows, DecisionsHold
    <3>2. Op(t) = "reserve" /\ stage[t] = "products" => Order(t) # Order(s)
      BY <3>1, Settling DEF DecisionHolds, Status, S!NoRows, S!Rows
    <3>3. rows[t] # {} => stage[t] \in {"rows", "products"}
      BY DEF IInv, TypeOK, StagesInv, StageOK, NoCommand, Op
    <3>4. rows[t] # {} => Order(t) # Order(s)
      BY <2>2, <3>3, OthersHaveNoRows, Settling
    <3>5. Order(t) # Order(s) => reservation'[Order(t)] = reservation[Order(t)]
      BY DEF IInv, TypeOK, CommitRows
    <3>6. \A q \in taken[t] : q \in Products /\ stock'[q] = stock[q]
      BY <2>2 DEF IInv, TypeOK, CommitRows, HaveProducts, Restocked, LocksInv
    <3>7. QED
      BY <3>1, <3>2, <3>4, <3>5, <3>6 DEF Same, DecisionHolds, Op, Order, Status
  <2>3. QED
    BY <2>1, <2>2
<1>7. QED
  BY <1>1, <1>2, <1>3, <1>4, <1>5, <1>6 DEF IInv, StagesInv, ScopeInv, DecisionsHold

LEMMA ReleaseRowsStep ==
  ASSUME IInv, NEW s \in Sessions, ReleaseRows(s)
  PROVE  IInv'
<1>1. TypeOK'
  BY DEF IInv, ReleaseRows, HaveRows, TypeOK, Op, Order, Ask, Status, Commands
<1>2. StagesInv'
  BY DEF IInv, ReleaseRows, HaveRows, TypeOK, StagesInv, StageOK, Op, Order, Ask, Commands
<1>3. LocksInv'
  BY DEF IInv, ReleaseRows, HaveRows, TypeOK, StagesInv, StageOK, LocksInv, HoldsOrder,
         Op, Order, Commands
<1>4. ASSUME NEW t \in Sessions PROVE ScopeOK(t)'
  <2>1. CASE t = s
    <3>1. /\ command'[s] = command[s] /\ stage'[s] = "products" /\ waiting'[s] = rows[s]
          /\ rows'[s] = rows[s] /\ taken'[s] = taken[s] /\ reservation' = reservation
      BY DEF IInv, TypeOK, ReleaseRows
    <3>2. /\ Op(s) = "release" /\ rows[s] # {}
          /\ stage[s] = "rows" /\ waiting[s] = {} /\ taken[s] = {}
      BY DEF IInv, StagesInv, StageOK, ReleaseRows, HaveRows
    <3>3. rows[s] = Named(reservation[Order(s)].qty)
      BY <3>2 DEF IInv, ScopeInv, ScopeOK
    <3>4. QED
      BY <2>1, <3>1, <3>2, <3>3 DEF ScopeOK, Op, Order, Ask, Status, Named
  <2>2. CASE t # s
    <3>1. Same(t)
      BY <2>2 DEF IInv, TypeOK, ReleaseRows, Same
    <3>2. reservation' = reservation
      BY DEF ReleaseRows
    <3>3. QED
      BY <3>1, <3>2, SameScope DEF IInv, ScopeInv
  <2>3. QED
    BY <2>1, <2>2
<1>5. NoRowsInv'
  BY DEF IInv, ReleaseRows, NoRowsInv
<1>6. DecisionsHold'
  BY DEF IInv, ReleaseRows, HaveRows, TypeOK, StagesInv, StageOK, LocksInv, ScopeInv,
         ScopeOK, DecisionsHold, DecisionHolds, Op, Order, Ask, Status, Commands
<1>7. QED
  BY <1>1, <1>2, <1>3, <1>4, <1>5, <1>6 DEF IInv, StagesInv, ScopeInv, DecisionsHold

LEMMA LockProductStep ==
  ASSUME IInv, NEW s \in Sessions, NEW p \in Products, LockProduct(s, p)
  PROVE  IInv'
<1>1. TypeOK'
  BY DEF IInv, LockProduct, InTurn, ProductFree, HoldsProduct, Enough, TypeOK, Op, Order,
         Ask, Status, Commands
<1>2. StagesInv'
  BY DEF IInv, LockProduct, InTurn, ProductFree, HoldsProduct, Enough, TypeOK, StagesInv,
         StageOK, Op, Order, Ask, Commands
<1>3. LocksInv'
  BY DEF IInv, LockProduct, InTurn, ProductFree, HoldsProduct, Enough, TypeOK, StagesInv,
         StageOK, LocksInv, HoldsOrder, Op, Order, Commands
<1>4. ASSUME NEW t \in Sessions PROVE ScopeOK(t)'
  <2>1. CASE t = s
    <3>1. /\ command'[s] = command[s] /\ stage'[s] = stage[s]
          /\ waiting'[s] = waiting[s] \ {p} /\ taken'[s] = taken[s] \cup {p}
          /\ rows'[s] = rows[s] /\ reservation' = reservation
      BY DEF IInv, TypeOK, LockProduct
    <3>2. stage[s] = "products" /\ p \in waiting[s] /\ (Op(s) = "reserve" => Enough(s, p))
      BY DEF LockProduct, InTurn
    <3>3. waiting'[s] \cup taken'[s] = waiting[s] \cup taken[s]
      BY <3>1, <3>2
    <3>4. ASSUME Op(s) = "reserve", NEW q \in taken'[s] PROVE seen'[s][q] >= Ask(s)[q]
      <4>1. CASE q = p
        <5>1. seen'[s][q] = stock[p]
          BY <4>1 DEF IInv, TypeOK, LockProduct
        <5>2. QED
          BY <3>2, <3>4, <4>1, <5>1 DEF Enough
      <4>2. CASE q # p
        <5>1. q \in taken[s] /\ seen'[s][q] = seen[s][q]
          BY <3>1, <3>4, <4>2 DEF IInv, TypeOK, LockProduct
        <5>2. QED
          BY <3>4, <5>1 DEF IInv, ScopeInv, ScopeOK
      <4>3. QED
        BY <4>1, <4>2
    <3>5. ScopeOK(s)
      BY DEF IInv, ScopeInv
    <3>6. QED
      BY <2>1, <3>1, <3>2, <3>3, <3>4, <3>5 DEF ScopeOK, Op, Order, Ask, Status, Named
  <2>2. CASE t # s
    <3>1. Same(t)
      BY <2>2 DEF IInv, TypeOK, LockProduct, Same
    <3>2. reservation' = reservation
      BY DEF LockProduct
    <3>3. QED
      BY <3>1, <3>2, SameScope DEF IInv, ScopeInv
  <2>3. QED
    BY <2>1, <2>2
<1>5. NoRowsInv'
  BY DEF IInv, LockProduct, InTurn, ProductFree, HoldsProduct, Enough, TypeOK, NoRowsInv,
         Op, Order, Commands
<1>6. DecisionsHold'
  BY DEF IInv, LockProduct, InTurn, ProductFree, HoldsProduct, Enough, TypeOK, StagesInv,
         StageOK, LocksInv, ScopeInv, ScopeOK, DecisionsHold, DecisionHolds, Op, Order,
         Ask, Status, Commands
<1>7. QED
  BY <1>1, <1>2, <1>3, <1>4, <1>5, <1>6 DEF IInv, StagesInv, ScopeInv, DecisionsHold

LEMMA ReservedStep ==
  ASSUME IInv, NEW s \in Sessions, Reserved(s)
  PROVE  IInv'
<1>1. TypeOK'
  <2>1. Order(s) \in Orders /\ Ask(s) \in [Products -> Nat]
    BY Active DEF Reserved, HaveProducts
  <2>2. stock' \in [Products -> Nat]
    <3>1. ASSUME NEW q \in Products PROVE stock'[q] \in Nat
      BY <2>1 DEF IInv, TypeOK, ScopeInv, ScopeOK, Reserved, Restocked
    <3>2. QED
      BY <3>1 DEF Reserved, Restocked
  <2>3. S!Rows("held", Ask(s)) \in [status : {"none", "held", "committed", "released"},
                                   qty : [Products -> Nat]]
    BY <2>1 DEF S!Rows
  <2>4. reservation' \in [Orders -> [status : {"none", "held", "committed", "released"},
                                    qty : [Products -> Nat]]]
    BY <2>1, <2>3 DEF IInv, TypeOK, Reserved
  <2>5. QED
    BY <2>2, <2>4 DEF IInv, TypeOK, Reserved, End, NoUnits
<1>2. StagesInv'
  BY DEF IInv, Reserved, HaveProducts, Restocked, End, NoCommand, NoUnits, TypeOK,
         StagesInv, StageOK, Op, Order, Ask, Commands
<1>3. LocksInv'
  BY DEF IInv, Reserved, HaveProducts, Restocked, End, NoCommand, NoUnits, TypeOK,
         StagesInv, StageOK, LocksInv, HoldsOrder, Op, Order, Commands
<1>4. ASSUME NEW t \in Sessions PROVE ScopeOK(t)'
  <2>1. CASE t = s
    BY <2>1 DEF IInv, Reserved, End, NoCommand, NoUnits, TypeOK, ScopeOK, Op
  <2>2. CASE t # s
    <3>1. Same(t) /\ ScopeOK(t)
      BY <2>2, EndOthers DEF IInv, Reserved, ScopeInv
    <3>2. CASE Order(t) # Order(s)
      <4>1. reservation'[Order(t)] = reservation[Order(t)]
        BY <3>2 DEF IInv, TypeOK, Reserved
      <4>2. QED
        BY <3>1, <4>1, SameScope
    <3>3. CASE Order(t) = Order(s)
      <4>1. Status(t) = "none" /\ rows[t] = {}
        BY <3>3 DEF IInv, DecisionsHold, DecisionHolds, Reserved, HaveProducts, Status,
           S!NoRows, S!Rows
      <4>2. QED
        BY <3>1, <4>1 DEF Same, ScopeOK, Op, Order, Status, Ask, Named
    <3>4. QED
      BY <3>2, <3>3
  <2>3. QED
    BY <2>1, <2>2
<1>5. NoRowsInv'
  BY DEF IInv, Reserved, HaveProducts, Restocked, End, NoCommand, NoUnits, TypeOK,
         NoRowsInv, Op, Order, Commands, S!Rows, S!NoRows
<1>6. ASSUME NEW t \in Sessions PROVE DecisionHolds(t)'
  <2>1. CASE t = s
    BY <2>1 DEF IInv, Reserved, End, NoCommand, NoUnits, TypeOK, DecisionHolds, Op
  <2>2. CASE t # s
    <3>1. Same(t) /\ DecisionHolds(t)
      BY <2>2, EndOthers DEF IInv, Reserved, DecisionsHold
    <3>2. Op(t) = "reserve" /\ stage[t] = "products" => Order(t) # Order(s)
      BY <2>2, Active DEF IInv, LocksInv, HoldsOrder, Reserved, HaveProducts
    <3>3. rows[t] # {} => Order(t) # Order(s)
      BY <3>1 DEF IInv, DecisionsHold, DecisionHolds, Reserved, HaveProducts, Status,
         S!NoRows, S!Rows
    <3>4. Order(t) # Order(s) => reservation'[Order(t)] = reservation[Order(t)]
      BY DEF IInv, TypeOK, Reserved
    <3>5. \A q \in taken[t] : q \in Products /\ stock'[q] = stock[q]
      BY <2>2 DEF IInv, TypeOK, Reserved, HaveProducts, Restocked, LocksInv
    <3>6. QED
      BY <3>1, <3>2, <3>3, <3>4, <3>5 DEF Same, DecisionHolds, Op, Order, Status
  <2>3. QED
    BY <2>1, <2>2
<1>7. QED
  BY <1>1, <1>2, <1>3, <1>4, <1>5, <1>6 DEF IInv, StagesInv, ScopeInv, DecisionsHold

LEMMA ReleasedStep ==
  ASSUME IInv, NEW s \in Sessions, Released(s)
  PROVE  IInv'
<1>1. TypeOK'
  BY DEF IInv, Released, HaveProducts, Restocked, End, NoCommand, NoUnits, TypeOK, Op,
         Order, Ask, Status, Commands
<1>2. StagesInv'
  BY DEF IInv, Released, HaveProducts, Restocked, End, NoCommand, NoUnits, TypeOK,
         StagesInv, StageOK, Op, Order, Ask, Commands
<1>3. LocksInv'
  BY DEF IInv, Released, HaveProducts, Restocked, End, NoCommand, NoUnits, TypeOK,
         StagesInv, StageOK, LocksInv, HoldsOrder, Op, Order, Commands
<1>4. ASSUME NEW t \in Sessions PROVE ScopeOK(t)'
  <2>1. CASE t = s
    BY <2>1 DEF IInv, Released, End, NoCommand, NoUnits, TypeOK, ScopeOK, Op
  <2>2. CASE t # s
    <3>1. Same(t) /\ ScopeOK(t)
      BY <2>2, EndOthers DEF IInv, Released, ScopeInv
    <3>2. CASE Order(t) # Order(s)
      <4>1. reservation'[Order(t)] = reservation[Order(t)]
        BY <3>2 DEF IInv, TypeOK, Released
      <4>2. QED
        BY <3>1, <4>1, SameScope
    <3>3. CASE Order(t) = Order(s) /\ stage[t] \in {"rows", "products"}
      <4>1. rows[t] = {}
        BY <3>3, <2>2, OthersHaveNoRows, Settling
      <4>2. reservation'[Order(t)].status = "released"
        BY <3>3, Active, Settling DEF IInv, TypeOK, Released
      <4>3. QED
        BY <3>1, <3>3, <4>1, <4>2 DEF Same, ScopeOK, Op, Order, Status, Ask, Named
    <3>4. CASE stage[t] \notin {"rows", "products"}
      BY <3>1, <3>4 DEF IInv, StagesInv, StageOK, Same, ScopeOK, Op, Ask
    <3>5. QED
      BY <3>2, <3>3, <3>4
  <2>3. QED
    BY <2>1, <2>2
<1>5. NoRowsInv'
  BY DEF IInv, Released, HaveProducts, Restocked, End, NoCommand, NoUnits, TypeOK,
         NoRowsInv, Op, Order, Commands
<1>6. ASSUME NEW t \in Sessions PROVE DecisionHolds(t)'
  <2>1. CASE t = s
    BY <2>1 DEF IInv, Released, End, NoCommand, NoUnits, TypeOK, DecisionHolds, Op
  <2>2. CASE t # s
    <3>1. Same(t) /\ DecisionHolds(t)
      BY <2>2, EndOthers DEF IInv, Released, DecisionsHold
    <3>2. Op(t) = "reserve" /\ stage[t] = "products" => Order(t) # Order(s)
      BY <3>1, Settling DEF DecisionHolds, Status, S!NoRows, S!Rows
    <3>3. rows[t] # {} => stage[t] \in {"rows", "products"}
      BY DEF IInv, TypeOK, StagesInv, StageOK, NoCommand, Op
    <3>4. rows[t] # {} => Order(t) # Order(s)
      BY <2>2, <3>3, OthersHaveNoRows, Settling
    <3>5. Order(t) # Order(s) => reservation'[Order(t)] = reservation[Order(t)]
      BY DEF IInv, TypeOK, Released
    <3>6. \A q \in taken[t] : q \in Products /\ stock'[q] = stock[q]
      BY <2>2 DEF IInv, TypeOK, Released, HaveProducts, Restocked, LocksInv
    <3>7. QED
      BY <3>1, <3>2, <3>4, <3>5, <3>6 DEF Same, DecisionHolds, Op, Order, Status
  <2>3. QED
    BY <2>1, <2>2
<1>7. QED
  BY <1>1, <1>2, <1>3, <1>4, <1>5, <1>6 DEF IInv, StagesInv, ScopeInv, DecisionsHold

LEMMA StepKeepsIInv ==
  ASSUME IInv, [Next]_vars
  PROVE  IInv'
<1>1. CASE UNCHANGED vars
  <2>1. /\ UNCHANGED <<stock, reservation, command, stage, waiting, rows, taken, seen>>
        /\ IInv
    BY <1>1 DEF vars, sessionVars
  <2>2. TypeOK' /\ NoRowsInv'
    BY <2>1 DEF IInv, TypeOK, NoRowsInv
  <2>3. StagesInv'
    BY <2>1 DEF IInv, StagesInv, StageOK, Op
  <2>4. LocksInv'
    BY <2>1 DEF IInv, LocksInv, HoldsOrder, Op, Order
  <2>5. ScopeInv'
    BY <2>1 DEF IInv, ScopeInv, ScopeOK, Op, Order, Ask, Status, Named
  <2>6. DecisionsHold'
    BY <2>1 DEF IInv, DecisionsHold, DecisionHolds, Op, Order, Status
  <2>7. QED
    BY <2>2, <2>3, <2>4, <2>5, <2>6 DEF IInv
<1>2. CASE Next
  <2>1. PICK s \in Sessions :
          (\E c \in Asked : Begin(s, c)) \/ Lock(s) \/ Proceed(s) \/ Die(s)
    BY <1>2 DEF Next
  <2>2. CASE \E c \in Asked : Begin(s, c)
    BY <2>2, BeginStep
  <2>3. CASE Lock(s)
    BY <2>3, LockOrderStep, LockRowStep, LockProductStep, RollBackStep
    DEF Lock, InsufficientStock
  <2>4. CASE Proceed(s)
    BY <2>4, FindNoRowsStep, CommitRowsStep, ReleaseRowsStep, ReservedStep, ReleasedStep,
       RollBackStep
    DEF Proceed, Replay, NothingHeld
  <2>5. CASE Die(s)
    BY <2>5, RollBackStep DEF Die
  <2>6. QED
    BY <2>1, <2>2, <2>3, <2>4, <2>5
<1>3. QED
  BY <1>1, <1>2

THEOREM ReservationsIInv == Spec => []IInv
BY InitIInv, StepKeepsIInv, PTL DEF Spec

-----------------------------------------------------------------------------

\* The rows and quantities stay of their types; in particular no interleaving makes
\* stock_qty negative.
THEOREM ReservationsTypeOK == Spec => []TypeOK
<1>1. IInv => TypeOK
  BY DEF IInv
<1>2. QED
  BY <1>1, ReservationsIInv, PTL

\* Whatever a transaction of the Inventory service read under its locks is still so
\* when it writes.
THEOREM DecisionsAlwaysHold == Spec => []DecisionsHold
<1>1. IInv => DecisionsHold
  BY DEF IInv
<1>2. QED
  BY <1>1, ReservationsIInv, PTL

-----------------------------------------------------------------------------
(* Refinement: the commit of a transaction is its step of Stock, and everything   *)
(* else is invisible there.                                                       *)

LEMMA ReservedIsReserve ==
  ASSUME IInv, NEW s \in Sessions, Reserved(s)
  PROVE  S!Next
<1>1. Order(s) \in Orders /\ Ask(s) \in [Products -> Nat] /\ Ask(s) \in Quantities
  BY Active DEF Reserved, HaveProducts
<1>2. reservation[Order(s)] = S!NoRows
  BY DEF IInv, DecisionsHold, DecisionHolds, Reserved, HaveProducts
<1>3. ASSUME NEW p \in Products
      PROVE  stock[p] >= Ask(s)[p] /\ stock'[p] = stock[p] - Ask(s)[p]
  <2>1. CASE p \in taken[s]
    <3>1. seen[s][p] = stock[p] /\ seen[s][p] >= Ask(s)[p]
      BY <2>1 DEF IInv, DecisionsHold, DecisionHolds, ScopeInv, ScopeOK, Reserved
    <3>2. QED
      BY <1>1, <2>1, <3>1 DEF IInv, TypeOK, Reserved, Restocked
  <2>2. CASE p \notin taken[s]
    <3>1. taken[s] = Named(Ask(s))
      BY DEF IInv, ScopeInv, ScopeOK, Reserved, HaveProducts
    <3>2. Ask(s)[p] = 0
      BY <1>1, <2>2, <3>1 DEF Named
    <3>3. QED
      BY <2>2, <3>2 DEF IInv, TypeOK, Reserved, Restocked
  <2>3. QED
    BY <2>1, <2>2
<1>4. stock' = [p \in Products |-> stock[p] - Ask(s)[p]]
  BY <1>3 DEF Reserved, Restocked
<1>5. S!Reserve(Order(s), Ask(s))
  BY <1>2, <1>3, <1>4 DEF S!Reserve, Reserved
<1>6. QED
  BY <1>1, <1>5 DEF S!Next

LEMMA CommitRowsIsKeep ==
  ASSUME IInv, NEW s \in Sessions, CommitRows(s)
  PROVE  S!Next
<1>1. S!Keep(Order(s)) /\ Order(s) \in Orders
  BY Settling DEF CommitRows, S!Keep, Status
<1>2. QED
  BY <1>1 DEF S!Next

LEMMA ReleasedIsPutBack ==
  ASSUME IInv, NEW s \in Sessions, Released(s)
  PROVE  S!Next
<1>1. Status(s) = "held" /\ Order(s) \in Orders
  BY Settling
<1>2. ASSUME NEW p \in Products
      PROVE  stock'[p] = stock[p] + reservation[Order(s)].qty[p]
  <2>1. reservation[Order(s)].qty[p] \in Nat /\ stock[p] \in Nat
    BY <1>1 DEF IInv, TypeOK
  <2>2. CASE p \in taken[s]
    <3>1. seen[s][p] = stock[p]
      BY <2>2 DEF IInv, DecisionsHold, DecisionHolds
    <3>2. QED
      BY <2>2, <3>1 DEF Released, Restocked
  <2>3. CASE p \notin taken[s]
    <3>1. taken[s] = Named(reservation[Order(s)].qty)
      BY DEF IInv, ScopeInv, ScopeOK, Released, HaveProducts
    <3>2. reservation[Order(s)].qty[p] = 0
      BY <2>1, <2>3, <3>1 DEF Named
    <3>3. QED
      BY <2>1, <2>3, <3>2 DEF Released, Restocked
  <2>4. QED
    BY <2>2, <2>3
<1>3. stock' = [p \in Products |-> stock[p] + reservation[Order(s)].qty[p]]
  BY <1>2 DEF Released, Restocked
<1>4. S!PutBack(Order(s))
  BY <1>1, <1>3 DEF S!PutBack, Released, Status
<1>5. QED
  BY <1>1, <1>4 DEF S!Next

\* Serializability: any interleaving of reserve, commit_for_order and
\* release_for_order is a behaviour of Stock, where each happens at once.
THEOREM ReservationsImplementStock == Spec => ImplementsStock
<1>1. Init => S!Init
  BY DEF Init
<1>2. IInv /\ [Next]_vars => [S!Next]_(S!stockVars)
  <2>1. SUFFICES ASSUME IInv, [Next]_vars
                 PROVE  S!Next \/ UNCHANGED S!stockVars
    OBVIOUS
  <2>2. CASE UNCHANGED vars
    BY <2>2 DEF vars, S!stockVars
  <2>3. CASE Next
    <3>1. PICK s \in Sessions :
            (\E c \in Asked : Begin(s, c)) \/ Lock(s) \/ Proceed(s) \/ Die(s)
      BY <2>3 DEF Next
    <3>2. CASE (\E c \in Asked : Begin(s, c)) \/ Lock(s) \/ Die(s)
      BY <3>2 DEF Begin, Lock, LockOrder, LockRow, LockProduct, InsufficientStock, Die,
         RollBack, S!stockVars
    <3>3. CASE Replay(s) \/ FindNoRows(s) \/ NothingHeld(s) \/ ReleaseRows(s)
      BY <3>3 DEF Replay, FindNoRows, NothingHeld, ReleaseRows, RollBack, S!stockVars
    <3>4. CASE Reserved(s)
      BY <3>4, <2>1, ReservedIsReserve
    <3>5. CASE CommitRows(s)
      BY <3>5, <2>1, CommitRowsIsKeep
    <3>6. CASE Released(s)
      BY <3>6, <2>1, ReleasedIsPutBack
    <3>7. QED
      BY <3>1, <3>2, <3>3, <3>4, <3>5, <3>6 DEF Proceed
  <2>4. QED
    BY <2>1, <2>2, <2>3
<1>3. QED
  BY <1>1, <1>2, ReservationsIInv, PTL DEF Spec, ImplementsStock, S!Spec

-----------------------------------------------------------------------------
(* Deadlock freedom: what a session waits for comes after all it has locked. *)

AscendingOK(s) ==
  \A p \in waiting[s] :
    /\ stage[s] = "rows" => \A q \in rows[s] : q < p
    /\ stage[s] = "products" => \A q \in taken[s] : q < p

AscendingInv == \A s \in Sessions : AscendingOK(s)

LEMMA EndAscends ==
  ASSUME IInv, NEW s \in Sessions, End(s), NEW t \in Sessions, AscendingOK(t)
  PROVE  AscendingOK(t)'
BY DEF IInv, TypeOK, End, AscendingOK

LEMMA StepKeepsAscending ==
  ASSUME IInv, AscendingInv, [Next]_vars
  PROVE  AscendingInv'
<1> SUFFICES ASSUME NEW t \in Sessions PROVE AscendingOK(t)'
  BY DEF AscendingInv
<1>a. AscendingOK(t)
  BY DEF AscendingInv
<1>b. Products \subseteq Nat /\ \A s \in Sessions :
        waiting[s] \subseteq Products /\ rows[s] \subseteq Products /\ taken[s] \subseteq Products
  BY ReservationsAssumption DEF Products, IInv, TypeOK
<1>1. CASE UNCHANGED vars
  BY <1>1, <1>a DEF vars, sessionVars, AscendingOK
<1>2. ASSUME NEW s \in Sessions, NEW c \in Asked, Begin(s, c)
      PROVE  AscendingOK(t)'
  <2>1. rows[s] = {}
    BY <1>2 DEF IInv, Begin, StagesInv, StageOK, Op, NoCommand
  <2>2. stage'[s] # "products"
    BY <1>2 DEF IInv, TypeOK, Begin
  <2>3. CASE t = s
    BY <2>1, <2>2, <2>3, <1>2 DEF Begin, AscendingOK
  <2>4. CASE t # s
    BY <2>4, <1>2, <1>a DEF IInv, TypeOK, Begin, AscendingOK
  <2>5. QED
    BY <2>3, <2>4
<1>3. ASSUME NEW s \in Sessions, LockOrder(s)
      PROVE  AscendingOK(t)'
  BY <1>3, <1>a DEF IInv, TypeOK, LockOrder, AscendingOK
<1>4. ASSUME NEW s \in Sessions, NEW p \in Products, LockRow(s, p)
      PROVE  AscendingOK(t)'
  <2>1. CASE t = s
    <3>1. /\ waiting'[s] = waiting[s] \ {p} /\ rows'[s] \subseteq rows[s] \cup {p}
          /\ stage[s] = "rows" /\ stage' = stage
      BY <1>4 DEF IInv, TypeOK, LockRow
    <3>2. \A q \in waiting[s] : p <= q
      BY <1>4 DEF LockRow, InTurn
    <3>3. ASSUME NEW q \in waiting'[s], NEW r \in rows'[s] PROVE r < q
      <4>0. q \in waiting[s] /\ q # p
        BY <3>1
      <4>1. p < q
        <5>1. p \in Nat /\ q \in Nat
          BY <4>0, <1>b
        <5>2. p <= q
          BY <4>0, <3>2
        <5>3. QED
          BY <4>0, <5>1, <5>2
      <4>2. r = p \/ r \in rows[s]
        BY <3>1
      <4>3. QED
        BY <4>0, <4>1, <4>2, <2>1, <3>1, <1>a, <1>b DEF AscendingOK
    <3>4. stage'[t] = "rows"
      BY <2>1, <3>1
    <3>5. QED
      BY <2>1, <3>3, <3>4 DEF AscendingOK
  <2>2. CASE t # s
    BY <2>2, <1>4, <1>a DEF IInv, TypeOK, LockRow, AscendingOK
  <2>3. QED
    BY <2>1, <2>2
<1>5. ASSUME NEW s \in Sessions, NEW p \in Products, LockProduct(s, p)
      PROVE  AscendingOK(t)'
  <2>1. CASE t = s
    <3>1. /\ waiting'[s] = waiting[s] \ {p} /\ taken'[s] = taken[s] \cup {p}
          /\ stage[s] = "products" /\ stage' = stage
      BY <1>5 DEF IInv, TypeOK, LockProduct
    <3>2. \A q \in waiting[s] : p <= q
      BY <1>5 DEF LockProduct, InTurn
    <3>3. ASSUME NEW q \in waiting'[s], NEW r \in taken'[s] PROVE r < q
      <4>0. q \in waiting[s] /\ q # p
        BY <3>1
      <4>1. p < q
        <5>1. p \in Nat /\ q \in Nat
          BY <4>0, <1>b
        <5>2. p <= q
          BY <4>0, <3>2
        <5>3. QED
          BY <4>0, <5>1, <5>2
      <4>2. r = p \/ r \in taken[s]
        BY <3>1
      <4>3. QED
        BY <4>0, <4>1, <4>2, <2>1, <3>1, <1>a, <1>b DEF AscendingOK
    <3>4. stage'[t] = "products"
      BY <2>1, <3>1
    <3>5. QED
      BY <2>1, <3>3, <3>4 DEF AscendingOK
  <2>2. CASE t # s
    BY <2>2, <1>5, <1>a DEF IInv, TypeOK, LockProduct, AscendingOK
  <2>3. QED
    BY <2>1, <2>2
<1>6. ASSUME NEW s \in Sessions, FindNoRows(s) \/ ReleaseRows(s)
      PROVE  AscendingOK(t)'
  <2>1. CASE t = s
    <3>1. taken[s] = {}
      BY <1>6 DEF FindNoRows, ReleaseRows, HaveRows, IInv, StagesInv, StageOK
    <3>2. stage'[s] = "products" /\ taken' = taken
      BY <1>6 DEF IInv, TypeOK, FindNoRows, ReleaseRows
    <3>3. QED
      BY <2>1, <3>1, <3>2 DEF AscendingOK
  <2>2. CASE t # s
    BY <2>2, <1>6, <1>a DEF IInv, TypeOK, FindNoRows, ReleaseRows, AscendingOK
  <2>3. QED
    BY <2>1, <2>2
<1>7. ASSUME NEW s \in Sessions, End(s)
      PROVE  AscendingOK(t)'
  BY <1>7, <1>a, EndAscends
<1>8. CASE Next
  <2>1. PICK s \in Sessions :
          (\E c \in Asked : Begin(s, c)) \/ Lock(s) \/ Proceed(s) \/ Die(s)
    BY <1>8 DEF Next
  <2>2. CASE \E c \in Asked : Begin(s, c)
    BY <2>2, <1>2
  <2>3. CASE Lock(s)
    BY <2>3, <1>3, <1>4, <1>5, <1>7 DEF Lock, InsufficientStock, RollBack
  <2>4. CASE Proceed(s)
    BY <2>4, <1>6, <1>7 DEF Proceed, Replay, NothingHeld, CommitRows, Reserved, Released,
       RollBack
  <2>5. CASE Die(s)
    BY <2>5, <1>7 DEF Die, RollBack
  <2>6. QED
    BY <2>1, <2>2, <2>3, <2>4, <2>5
<1>9. QED
  BY <1>1, <1>8

\* A set of product ids has a greatest one.
LEMMA Greatest ==
  ASSUME NEW T, T \subseteq Products, T # {}
  PROVE  \E m \in T : \A n \in T : n <= m
<1> DEFINE Less == {ss \in Nat \X Nat : ss[1] < ss[2]}
           Gaps == {LastProduct - n : n \in T}
<1>1. IsWellFoundedOn(Less, Nat)
  BY NatLessThanWellFounded DEF OpToRel
<1>2. Gaps \subseteq Nat /\ Gaps # {}
  <2>1. \A n \in T : LastProduct - n \in Nat
    BY ReservationsAssumption DEF Products
  <2>2. QED
    BY <2>1
<1>3. PICK g \in Gaps : \A h \in Gaps : <<h, g>> \notin Less
  <2> HIDE DEF Less, Gaps
  <2>1. QED
    BY <1>1, <1>2, WFMin, Zenon
<1>4. ASSUME NEW h \in Gaps PROVE g <= h
  <2>1. g \in Nat /\ h \in Nat
    BY <1>2
  <2>2. ~(h < g)
    BY <2>1, <1>3
  <2>3. QED
    BY <2>1, <2>2
<1>5. PICK m \in T : g = LastProduct - m
  OBVIOUS
<1>6. \A n \in T : LastProduct - n >= LastProduct - m
  BY <1>4, <1>5
<1>7. QED
  BY <1>6, ReservationsAssumption DEF Products

LEMMA NobodyWaitsInACircle ==
  ASSUME IInv, AscendingInv
  PROVE  NoDeadlock
<1> SUFFICES ASSUME NEW waiters \in SUBSET Sessions, waiters # {},
                    \A s \in waiters : \E t \in waiters : Blocks(t, s)
             PROVE  FALSE
  BY DEF NoDeadlock
<1> DEFINE At(st) == {p \in Products : \E s \in waiters : stage[s] = st /\ InTurn(s, p)}
<1>b. Products \subseteq Nat /\ \A s \in Sessions :
        waiting[s] \subseteq Products /\ rows[s] \subseteq Products /\ taken[s] \subseteq Products
  BY ReservationsAssumption DEF Products, IInv, TypeOK
<1>1. At("products") = {}
  <2>1. SUFFICES ASSUME At("products") # {} PROVE FALSE
    OBVIOUS
  <2>2. PICK m \in At("products") : \A n \in At("products") : n <= m
    BY <2>1, Greatest
  <2>3. PICK s \in waiters : stage[s] = "products" /\ InTurn(s, m)
    OBVIOUS
  <2>4. PICK t \in waiters : m \in taken[t]
    <3>1. PICK t \in waiters : Blocks(t, s)
      OBVIOUS
    <3>2. \A p \in Products : InTurn(s, p) => p = m
      BY <2>3, <1>b DEF InTurn
    <3>3. QED
      BY <2>3, <3>1, <3>2 DEF Blocks, HoldsProduct
  <2>5. stage[t] = "products"
    BY <2>4 DEF IInv, StagesInv, StageOK
  <2>6. PICK p \in Products : InTurn(t, p)
    BY <2>5 DEF Blocks
  <2>7. m < p
    BY <2>4, <2>5, <2>6 DEF AscendingInv, AscendingOK, InTurn
  <2>8. p \in At("products")
    BY <2>5, <2>6
  <2>9. QED
    BY <2>2, <2>7, <2>8, <1>b
<1>2. At("rows") = {}
  <2>1. SUFFICES ASSUME At("rows") # {} PROVE FALSE
    OBVIOUS
  <2>2. PICK m \in At("rows") : \A n \in At("rows") : n <= m
    BY <2>1, Greatest
  <2>3. PICK s \in waiters : stage[s] = "rows" /\ InTurn(s, m)
    OBVIOUS
  <2>4. PICK t \in waiters : m \in rows[t]
    <3>1. PICK t \in waiters : Blocks(t, s)
      OBVIOUS
    <3>2. \A p \in Products : InTurn(s, p) => p = m
      BY <2>3, <1>b DEF InTurn
    <3>3. QED
      BY <2>3, <3>1, <3>2 DEF Blocks, HoldsRow
  <2>5. stage[t] \in {"rows", "products"}
    <3>1. Op(t) \in {"commit", "release"}
      BY <2>4 DEF IInv, StagesInv, StageOK
    <3>2. stage[t] # "idle"
      BY <3>1 DEF IInv, StagesInv, StageOK, NoCommand, Op
    <3>3. stage[t] \notin {"order", "lookup"}
      BY <3>1 DEF IInv, StagesInv, StageOK
    <3>4. QED
      BY <3>2, <3>3 DEF IInv, TypeOK
  <2>6. PICK p \in Products : InTurn(t, p)
    BY <2>5 DEF Blocks
  <2>7. stage[t] = "rows"
    BY <2>5, <2>6, <1>1
  <2>8. m < p
    BY <2>4, <2>6, <2>7 DEF AscendingInv, AscendingOK, InTurn
  <2>9. QED
    BY <2>2, <2>6, <2>7, <2>8, <1>b
<1>3. \A s \in waiters : stage[s] = "order"
  BY <1>1, <1>2 DEF Blocks
<1>4. \A s, t \in waiters : ~Blocks(t, s)
  BY <1>3 DEF Blocks, HoldsOrder
<1>5. QED
  BY <1>4

\* However many sessions run, no set of them waits for one another for ever.
THEOREM ReservationsNeverDeadlock == Spec => []NoDeadlock
<1>1. Init => AscendingInv
  BY DEF Init, AscendingInv, AscendingOK
<1>2. IInv /\ AscendingInv /\ [Next]_vars => AscendingInv'
  BY StepKeepsAscending
<1>3. IInv /\ AscendingInv => NoDeadlock
  BY NobodyWaitsInACircle
<1>4. QED
  BY <1>1, <1>2, <1>3, ReservationsIInv, PTL DEF Spec

=============================================================================
