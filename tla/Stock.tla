------------------------------- MODULE Stock -------------------------------
(***************************************************************************)
(* What the Inventory service promises its callers, with no transactions   *)
(* and no locks: an order's units are taken from the shelf once, all of    *)
(* them or none, and later either kept or put back.                        *)
(***************************************************************************)
EXTENDS Integers

CONSTANTS
  Orders,
  Products,
  InitialStock,
  Quantities    \* what callers ask for, per product

VARIABLES
  stock,        \* products.stock_qty
  reservation   \* the rows of each order: their common status, the units of each product

stockVars == <<stock, reservation>>

Rows(status, qty) == [status |-> status, qty |-> qty]
NoRows == Rows("none", [p \in Products |-> 0])

Init ==
  /\ stock = InitialStock
  /\ reservation = [o \in Orders |-> NoRows]

\* Wrong: nobody looks whether there is enough.
ReserveUnseen(o, qty) ==
  /\ reservation[o] = NoRows
  /\ stock' = [p \in Products |-> stock[p] - qty[p]]
  /\ reservation' = [reservation EXCEPT ![o] = Rows("held", qty)]

Reserve(o, qty) ==
  /\ reservation[o] = NoRows
  /\ \A p \in Products : stock[p] >= qty[p]
  /\ stock' = [p \in Products |-> stock[p] - qty[p]]
  /\ reservation' = [reservation EXCEPT ![o] = Rows("held", qty)]

Keep(o) ==
  /\ reservation[o].status = "held"
  /\ reservation' = [reservation EXCEPT ![o].status = "committed"]
  /\ UNCHANGED stock

PutBack(o) ==
  /\ reservation[o].status = "held"
  /\ stock' = [p \in Products |-> stock[p] + reservation[o].qty[p]]
  /\ reservation' = [reservation EXCEPT ![o].status = "released"]

Next ==
  \E o \in Orders :
    \/ \E qty \in Quantities : Reserve(o, qty)
    \/ Keep(o)
    \/ PutBack(o)

Spec == Init /\ [][Next]_stockVars
=============================================================================
