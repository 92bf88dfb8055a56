---------------------------- MODULE HttpCheckout ----------------------------
(***************************************************************************)
(* Checkout with the event bus off (USE_EVENT_BUS=false).  The request     *)
(* that creates an order leaves a background task behind, which calls      *)
(* Inventory and Payment over HTTP and writes the status after each        *)
(* answer.  There is no outbox, no consumer and no Payment reconciler; the *)
(* Order service's reconciler still cancels what stays pending or          *)
(* reserved.                                                               *)
(*                                                                         *)
(* The task reads an order without a lock, holds no lock during a call and *)
(* writes the status blindly.  It waits five seconds for an answer; a      *)
(* request that was not answered by then may be carried out later all the  *)
(* same, or never.                                                         *)
(***************************************************************************)
EXTENDS OrderIntake

CONSTANTS Products, InitialStock

VARIABLES
  stock,
  reservation,
  payment,     \* payments.status, "none" before the row exists
  captured,    \* orders whose money the provider took
  charging,    \* orders whose charge is between its two transactions
  task,        \* what the task does next, or the call it waits for
  calls,       \* requests on their way
  heard        \* the answer a task has been given and has not yet acted on

inventoryVars == <<stock, reservation>>
paymentVars == <<payment, captured, charging>>
taskVars == <<task, calls, heard>>
vars == <<status, intakeVars, inventoryVars, paymentVars, taskVars>>

Inventory == INSTANCE Stock WITH Quantities <- {ItemsOf[o] : o \in Orders}

ASSUME CheckoutAssumption ==
  /\ InitialStock \in [Products -> Nat]
  /\ ItemsOf \in [Orders -> [Products -> Nat]]

Operations == {"reserve", "charge", "commit", "release"}
Answers == {"ok", "refused", "succeeded", "failed", "unresolved"}

TypeOK ==
  /\ IntakeTypeOK
  /\ status \in [Orders -> {"none", "pending", "reserved", "paid", "fulfilled", "cancelled"}]
  /\ stock \in [Products -> Nat]
  /\ reservation \in [Orders -> [status : {"none", "held", "committed", "released"},
                                 qty : [Products -> Nat]]]
  /\ payment \in [Orders -> {"none", "pending", "unknown", "succeeded", "failed"}]
  /\ captured \in SUBSET Orders
  /\ charging \in SUBSET Orders
  /\ task \in [Orders -> {"none", "begin", "pay"} \cup Operations]
  /\ calls \in SUBSET (Operations \X Orders)
  /\ heard \in [Orders -> Answers \cup {"nothing"}]

Init ==
  /\ IntakeInit
  /\ Inventory!Init
  /\ status = [o \in Orders |-> "none"]
  /\ payment = [o \in Orders |-> "none"]
  /\ captured = {}
  /\ charging = {}
  /\ task = [o \in Orders |-> "none"]
  /\ calls = {}
  /\ heard = [o \in Orders |-> "nothing"]

-----------------------------------------------------------------------------
(* The background task. *)

SetStatus(o, st) == status' = [status EXCEPT ![o] = st]

Call(o, op) ==
  /\ task' = [task EXCEPT ![o] = op]
  /\ calls' = calls \cup {<<op, o>>}
  /\ heard' = [heard EXCEPT ![o] = "nothing"]

GoTo(o, next) ==
  /\ task' = [task EXCEPT ![o] = next]
  /\ heard' = [heard EXCEPT ![o] = "nothing"]
  /\ UNCHANGED calls

Finish(o) == GoTo(o, "none")

Hears(o, op, ans) == task[o] = op /\ heard[o] = ans

OthersIdle == UNCHANGED <<intakeVars, inventoryVars, paymentVars>>

BeginReserve(o) ==
  /\ task[o] = "begin"
  /\ IF status[o] = "pending" THEN Call(o, "reserve") ELSE Finish(o)
  /\ UNCHANGED status
  /\ OthersIdle

OnReserved(o) ==
  /\ Hears(o, "reserve", "ok")
  /\ SetStatus(o, "reserved")
  /\ GoTo(o, "pay")
  /\ OthersIdle

OnReserveRefused(o) ==
  /\ Hears(o, "reserve", "refused")
  /\ SetStatus(o, "cancelled")
  /\ Finish(o)
  /\ OthersIdle

BeginCharge(o) ==
  /\ task[o] = "pay"
  /\ IF status[o] = "reserved" THEN Call(o, "charge") ELSE Finish(o)
  /\ UNCHANGED status
  /\ OthersIdle

\* Wrong: whatever has not been declined has succeeded.
UnlessFailed(o) == task[o] = "charge" /\ heard[o] \in {"succeeded", "unresolved"}

Succeeded(o) == Hears(o, "charge", "succeeded")

OnChargeSucceeded(o) ==
  /\ Succeeded(o)
  /\ SetStatus(o, "paid")
  /\ Call(o, "commit")
  /\ OthersIdle

\* Wrong: whatever has not succeeded is a decline.
UnlessSucceeded(o) == task[o] = "charge" /\ heard[o] \in {"failed", "unresolved"}

Declined(o) == Hears(o, "charge", "failed")

OnChargeFailed(o) ==
  /\ Declined(o)
  /\ SetStatus(o, "cancelled")
  /\ Call(o, "release")
  /\ OthersIdle

OnChargeUnresolved(o) ==
  /\ Hears(o, "charge", "unresolved")
  /\ Finish(o)
  /\ UNCHANGED status
  /\ OthersIdle

OnCommitted(o) ==
  /\ Hears(o, "commit", "ok")
  /\ SetStatus(o, "fulfilled")
  /\ Finish(o)
  /\ OthersIdle

OnReleased(o) ==
  /\ Hears(o, "release", "ok")
  /\ Finish(o)
  /\ UNCHANGED status
  /\ OthersIdle

\* The call fails or times out, or the process dies.
GiveUp(o) ==
  /\ task[o] # "none"
  /\ Finish(o)
  /\ UNCHANGED status
  /\ OthersIdle

-----------------------------------------------------------------------------
(* The services.  An answer to a task that has given up is lost. *)

Take(o, op) ==
  /\ <<op, o>> \in calls
  /\ calls' = calls \ {<<op, o>>}

Answer(o, op, ans) ==
  heard' = [heard EXCEPT ![o] = IF task[o] = op THEN ans ELSE @]

Serve(o, op, ans) ==
  /\ Take(o, op)
  /\ Answer(o, op, ans)
  /\ UNCHANGED <<status, intakeVars, paymentVars, task>>

Enough(o) == \A p \in Products : stock[p] >= ItemsOf[o][p]

ServeReserve(o) ==
  \/ Inventory!Reserve(o, ItemsOf[o]) /\ Serve(o, "reserve", "ok")
  \/ ~Enough(o) /\ Serve(o, "reserve", "refused") /\ UNCHANGED inventoryVars

Held(o) == reservation[o].status = "held"

ServeCommit(o) ==
  /\ Serve(o, "commit", "ok")
  /\ IF Held(o) THEN Inventory!Keep(o) ELSE UNCHANGED inventoryVars

ServeRelease(o) ==
  /\ Serve(o, "release", "ok")
  /\ IF Held(o) THEN Inventory!PutBack(o) ELSE UNCHANGED inventoryVars

\* The claim is committed before the provider is called.
ClaimCharge(o) ==
  /\ Take(o, "charge")
  /\ payment' = [payment EXCEPT ![o] = "pending"]
  /\ charging' = charging \cup {o}
  /\ UNCHANGED <<status, intakeVars, inventoryVars, captured, task, heard>>

\* What the provider did, what the service wrote of it and what it answers.
Outcome(took, st, ans) == [took |-> took, status |-> st, answer |-> ans]
Outcomes ==
  {Outcome(TRUE, "succeeded", "succeeded"), Outcome(FALSE, "failed", "failed"),
   Outcome(TRUE, "unknown", "unresolved"), Outcome(FALSE, "unknown", "unresolved")}

SettleCharge(o) ==
  /\ o \in charging
  /\ \E outcome \in Outcomes :
       /\ captured' = IF outcome.took THEN captured \cup {o} ELSE captured
       /\ payment' = [payment EXCEPT ![o] = outcome.status]
       /\ Answer(o, "charge", outcome.answer)
  /\ charging' = charging \ {o}
  /\ UNCHANGED <<status, intakeVars, inventoryVars, task, calls>>

\* The Payment service dies before or after the provider was called.
DieCharging(o) ==
  /\ o \in charging
  /\ captured' \in {captured, captured \cup {o}}
  /\ charging' = charging \ {o}
  /\ UNCHANGED <<status, intakeVars, inventoryVars, payment, taskVars>>

-----------------------------------------------------------------------------

\* The row of a new order is committed before the task is scheduled; a process that
\* dies in between is a task that gives up at once.
CreateOrder(r) ==
  /\ Insert(r)
  /\ GoTo(r, "begin")
  /\ UNCHANGED <<answer, inventoryVars, paymentVars>>

Intake(r) ==
  /\ LookUp(r) \/ FetchPrices(r) \/ LoseRace(r)
  /\ UNCHANGED <<inventoryVars, paymentVars, taskVars>>

\* Wrong: nobody looks after reserved orders.
OnlyPending == {"pending"}

Stuck == {"pending", "reserved"}

\* reconcile_stuck_orders; without the bus it tells nobody, and leaves paid orders alone.
Reconcile(o) ==
  /\ status[o] \in Stuck
  /\ SetStatus(o, "cancelled")
  /\ UNCHANGED <<intakeVars, inventoryVars, paymentVars, taskVars>>

Task(o) ==
  \/ BeginReserve(o) \/ OnReserved(o) \/ OnReserveRefused(o)
  \/ BeginCharge(o) \/ OnChargeSucceeded(o) \/ OnChargeFailed(o) \/ OnChargeUnresolved(o)
  \/ OnCommitted(o) \/ OnReleased(o)

Next ==
  \E o \in Orders :
    \/ CreateOrder(o) \/ Intake(o)
    \/ Task(o) \/ GiveUp(o)
    \/ ServeReserve(o) \/ ServeCommit(o) \/ ServeRelease(o)
    \/ ClaimCharge(o) \/ SettleCharge(o) \/ DieCharging(o)
    \/ Reconcile(o)

Spec == Init /\ [][Next]_vars

\* A call times out if it is not answered, and the reconciler is a thread that loops
\* for ever.  Shoppers and services owe nothing.
LiveSpec ==
  Spec /\ \A o \in Orders : WF_vars(Task(o) \/ GiveUp(o)) /\ WF_vars(Reconcile(o))

-----------------------------------------------------------------------------
(* Properties. *)

Paid(o) == status[o] \in {"paid", "fulfilled"}

\* However the task, the reconciler and late requests interleave, an order that counts
\* as paid has been paid for, and one that counts as fulfilled has its goods for good.
PaidForGoods ==
  \A o \in Orders :
    /\ Paid(o) => o \in captured
    /\ status[o] = "fulfilled" => reservation[o].status = "committed"

\* Money that may have been taken keeps its goods: nothing paid for goes back on the
\* shelf to be sold again, even when nobody knows yet that it was paid for.
CapturedKeepsGoods ==
  \A o \in captured : reservation[o].status \in {"held", "committed"}

\* In the end no order is left pending or reserved.
NobodyLeftWaiting == \A o \in Orders : <>[](status[o] \notin {"pending", "reserved"})
=============================================================================
