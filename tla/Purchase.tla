------------------------------ MODULE Purchase ------------------------------
(***************************************************************************)
(* What the checkout promises, with no messages, databases or failures:    *)
(* each order, its goods and its money move together in the only orders    *)
(* that make a purchase fair to both sides.  The saga implements this      *)
(* specification.                                                          *)
(***************************************************************************)
CONSTANT Orders

VARIABLES
  status,   \* what the shopper is told
  goods,    \* what became of the units set aside for the order
  money     \* what became of the shopper's money

purchaseVars == <<status, goods, money>>

TypeOK ==
  /\ status \in [Orders -> {"none", "pending", "reserved", "paid", "fulfilled", "cancelled"}]
  /\ goods \in [Orders -> {"none", "held", "committed", "released"}]
  /\ money \in [Orders -> {"kept", "captured", "returned"}]

Init ==
  /\ status = [o \in Orders |-> "none"]
  /\ goods = [o \in Orders |-> "none"]
  /\ money = [o \in Orders |-> "kept"]

\* The shopper orders.
Place(o) ==
  /\ status[o] = "none"
  /\ status' = [status EXCEPT ![o] = "pending"]
  /\ UNCHANGED <<goods, money>>

\* Units are set aside once, whether or not the order is still wanted.
SetAside(o) ==
  /\ status[o] \in {"pending", "cancelled"}
  /\ goods[o] = "none"
  /\ goods' = [goods EXCEPT ![o] = "held"]
  /\ UNCHANGED <<status, money>>

Accept(o) ==
  /\ status[o] = "pending"
  /\ goods[o] = "held"
  /\ status' = [status EXCEPT ![o] = "reserved"]
  /\ UNCHANGED <<goods, money>>

\* The money may come in while the order is being given up.
Capture(o) ==
  /\ status[o] \in {"reserved", "cancelled"}
  /\ money[o] = "kept"
  /\ money' = [money EXCEPT ![o] = "captured"]
  /\ UNCHANGED <<status, goods>>

ConfirmPaid(o) ==
  /\ status[o] = "reserved"
  /\ goods[o] = "held"
  /\ money[o] = "captured"
  /\ status' = [status EXCEPT ![o] = "paid"]
  /\ UNCHANGED <<goods, money>>

HandOver(o) ==
  /\ status[o] = "paid"
  /\ goods[o] = "held"
  /\ goods' = [goods EXCEPT ![o] = "committed"]
  /\ UNCHANGED <<status, money>>

Fulfil(o) ==
  /\ status[o] = "paid"
  /\ goods[o] = "committed"
  /\ status' = [status EXCEPT ![o] = "fulfilled"]
  /\ UNCHANGED <<goods, money>>

\* Orders that are not paid may be given up, several at a time.
GiveUp(unwanted) ==
  /\ \A o \in unwanted : status[o] \in {"pending", "reserved"}
  /\ status' = [o \in Orders |-> IF o \in unwanted THEN "cancelled" ELSE status[o]]
  /\ UNCHANGED <<goods, money>>

PutBack(o) ==
  /\ status[o] = "cancelled"
  /\ goods[o] = "held"
  /\ goods' = [goods EXCEPT ![o] = "released"]
  /\ UNCHANGED <<status, money>>

GiveBack(o) ==
  /\ status[o] = "cancelled"
  /\ money[o] = "captured"
  /\ money' = [money EXCEPT ![o] = "returned"]
  /\ UNCHANGED <<status, goods>>

Next ==
  \/ \E o \in Orders :
        \/ Place(o)    \/ SetAside(o) \/ Accept(o) \/ Capture(o)
        \/ ConfirmPaid(o) \/ HandOver(o) \/ Fulfil(o)
        \/ PutBack(o)  \/ GiveBack(o)
  \/ \E unwanted \in SUBSET Orders : GiveUp(unwanted)

Spec == Init /\ [][Next]_purchaseVars
=============================================================================
