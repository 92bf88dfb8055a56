------------------------- MODULE HttpCheckoutProofs -------------------------
(***************************************************************************)
(* For any requests, keys, quantities and stock: checkout over HTTP        *)
(* neither counts as paid what is not, nor gives up goods that were paid   *)
(* for, and one key is one order.                                          *)
(***************************************************************************)
EXTENDS HttpCheckout, TLAPS

-----------------------------------------------------------------------------
(* One key, one order. *)

KeysInv ==
  \A o, q \in Orders :
    status[o] # "none" /\ status[q] # "none" /\ KeyOf[o] = KeyOf[q] => o = q

PhaseOK(r) ==
  /\ phase[r] # "replayed" => answer[r] = r
  /\ phase[r] = "created" => status[r] # "none"
  /\ phase[r] = "replayed" => answer[r] \in Recorded(r) /\ ItemsOf[answer[r]] = ItemsOf[r]
  /\ phase[r] = "conflict" => \E o \in Recorded(r) : ItemsOf[o] # ItemsOf[r]

PhasesInv == \A r \in Requests : PhaseOK(r)

-----------------------------------------------------------------------------
(* What the state of an order's task, calls and payment say about each other. *)

InFlight(o, op) == <<op, o>> \in calls
Quiet(o) == \A op \in Operations : ~InFlight(o, op)
Alone(o, op) == \A other \in Operations : InFlight(o, other) => other = op

Unpaid(o) == payment[o] = "none" /\ o \notin captured /\ o \notin charging
Untouched(o) == Quiet(o) /\ Unpaid(o)

\* Until the stock is reserved nobody has asked for money.
BeforeReserved(o) ==
  /\ status[o] = "none" => task[o] = "none" /\ Untouched(o)
  /\ task[o] = "begin" => Untouched(o)
  /\ task[o] = "reserve" => Unpaid(o) /\ Alone(o, "reserve")
  /\ task[o] = "reserve" /\ heard[o] = "ok" => Held(o) /\ Quiet(o)
  /\ InFlight(o, "reserve") =>
       Unpaid(o) /\ Alone(o, "reserve") /\ task[o] \in {"reserve", "none"}

\* While a charge may be made the stock is held.
WhileCharging(o) ==
  /\ task[o] = "pay" => Held(o) /\ Untouched(o)
  /\ InFlight(o, "charge") => Held(o) /\ Unpaid(o) /\ Alone(o, "charge")
  /\ o \in charging => Held(o) /\ Quiet(o) /\ payment[o] = "pending" /\ o \notin captured
  /\ task[o] = "charge" /\ heard[o] = "succeeded" => o \in captured
  /\ task[o] = "charge" /\ heard[o] = "failed" => payment[o] = "failed"

\* A commit follows a capture, a release follows a failure.
AfterCharge(o) ==
  /\ o \in captured =>
       /\ reservation[o].status \in {"held", "committed"}
       /\ payment[o] \notin {"none", "failed"}
  /\ InFlight(o, "commit") => o \in captured
  /\ InFlight(o, "release") => payment[o] = "failed"
  /\ task[o] = "commit" => o \in captured
  /\ task[o] = "commit" /\ heard[o] = "ok" => reservation[o].status = "committed"
  /\ Paid(o) => o \in captured
  /\ status[o] = "fulfilled" => reservation[o].status = "committed"

OrderOK(o) == BeforeReserved(o) /\ WhileCharging(o) /\ AfterCharge(o)

IInv == TypeOK /\ KeysInv /\ PhasesInv /\ \A o \in Orders : OrderOK(o)

-----------------------------------------------------------------------------

\* A step for one order leaves the others alone.
Same(q) ==
  /\ status'[q] = status[q]
  /\ reservation'[q] = reservation[q]
  /\ payment'[q] = payment[q]
  /\ (q \in captured') = (q \in captured)
  /\ (q \in charging') = (q \in charging)
  /\ task'[q] = task[q]
  /\ heard'[q] = heard[q]
  /\ \A op \in Operations : (<<op, q>> \in calls') = (<<op, q>> \in calls)

LEMMA SameOrderOK ==
  ASSUME NEW q \in Orders, Same(q), OrderOK(q)
  PROVE  OrderOK(q)'
BY DEF Same, OrderOK, BeforeReserved, WhileCharging, AfterCharge, InFlight, Quiet, Alone,
       Unpaid, Untouched, Held, Paid, Operations

LEMMA InitIInv == Init => IInv
<1>1. ASSUME Init PROVE TypeOK
  <2>1. IntakeTypeOK
    BY <1>1 DEF Init, IntakeInit, IntakeTypeOK, Phases, Orders
  <2>a. Inventory!NoRows \in [status : {"none", "held", "committed", "released"},
                              qty : [Products -> Nat]]
    BY DEF Inventory!NoRows, Inventory!Rows
  <2>2. /\ stock \in [Products -> Nat]
        /\ reservation \in [Orders -> [status : {"none", "held", "committed", "released"},
                                       qty : [Products -> Nat]]]
    BY <1>1, <2>a, CheckoutAssumption DEF Init, Inventory!Init
  <2>3. /\ status \in [Orders -> {"none", "pending", "reserved", "paid", "fulfilled", "cancelled"}]
        /\ payment \in [Orders -> {"none", "pending", "unknown", "succeeded", "failed"}]
        /\ task \in [Orders -> {"none", "begin", "pay"} \cup Operations]
        /\ heard \in [Orders -> Answers \cup {"nothing"}]
    BY <1>1 DEF Init
  <2>4. calls \in SUBSET (Operations \X Orders)
    BY <1>1 DEF Init
  <2>5. QED
    BY <1>1, <2>1, <2>2, <2>3, <2>4 DEF Init, TypeOK
<1>2. Init => KeysInv /\ PhasesInv
  BY DEF Init, IntakeInit, KeysInv, PhasesInv, PhaseOK, Orders
<1>3. Init => \A o \in Orders : OrderOK(o)
  BY DEF Init, OrderOK, BeforeReserved, WhileCharging, AfterCharge, InFlight, Quiet, Alone,
         Unpaid, Untouched, Paid
<1>4. QED
  BY <1>1, <1>2, <1>3 DEF IInv

-----------------------------------------------------------------------------
(* The tables keep their types. *)

LEMMA TaskTyped ==
  ASSUME TypeOK, NEW o \in Orders, Task(o) \/ GiveUp(o)
  PROVE  TypeOK'
<1>1. status' \in [Orders -> {"none", "pending", "reserved", "paid", "fulfilled", "cancelled"}]
  BY DEF TypeOK, Task, GiveUp, BeginReserve, OnReserved, OnReserveRefused, BeginCharge,
         OnChargeSucceeded, OnChargeFailed, OnChargeUnresolved, OnCommitted, OnReleased, SetStatus
<1>2. /\ task' \in [Orders -> {"none", "begin", "pay"} \cup Operations]
      /\ calls' \in SUBSET (Operations \X Orders)
      /\ heard' \in [Orders -> Answers \cup {"nothing"}]
  <2>1. CASE \E op \in Operations : Call(o, op)
    BY <2>1 DEF TypeOK, Call
  <2>2. CASE GoTo(o, "pay") \/ GoTo(o, "none")
    BY <2>2 DEF TypeOK, GoTo
  <2>3. QED
    BY <2>1, <2>2
    DEF Task, GiveUp, BeginReserve, OnReserved, OnReserveRefused, BeginCharge,
        OnChargeSucceeded, OnChargeFailed, OnChargeUnresolved, OnCommitted, OnReleased,
        Finish, Operations
<1>3. OthersIdle
  BY DEF Task, GiveUp, BeginReserve, OnReserved, OnReserveRefused, BeginCharge,
         OnChargeSucceeded, OnChargeFailed, OnChargeUnresolved, OnCommitted, OnReleased
<1>4. QED
  BY <1>1, <1>2, <1>3
  DEF TypeOK, IntakeTypeOK, OthersIdle, intakeVars, inventoryVars, paymentVars

LEMMA ServeTyped ==
  ASSUME TypeOK, NEW o \in Orders, NEW op \in Operations, NEW ans \in Answers,
         Serve(o, op, ans),
         \/ UNCHANGED inventoryVars
         \/ Inventory!Reserve(o, ItemsOf[o]) \/ Inventory!Keep(o) \/ Inventory!PutBack(o)
  PROVE  TypeOK'
<1>1. /\ stock' \in [Products -> Nat]
      /\ reservation' \in [Orders -> [status : {"none", "held", "committed", "released"},
                                      qty : [Products -> Nat]]]
  <2>1. CASE UNCHANGED inventoryVars
    BY <2>1 DEF TypeOK, inventoryVars
  <2>2. CASE Inventory!Reserve(o, ItemsOf[o])
    <3>1. ItemsOf[o] \in [Products -> Nat]
      BY CheckoutAssumption
    <3>2. stock' \in [Products -> Nat]
      BY <2>2, <3>1 DEF TypeOK, Inventory!Reserve
    <3>3. QED
      BY <2>2, <3>1, <3>2 DEF TypeOK, Inventory!Reserve, Inventory!Rows
  <2>3. CASE Inventory!Keep(o)
    BY <2>3 DEF TypeOK, Inventory!Keep
  <2>4. CASE Inventory!PutBack(o)
    <3>1. reservation[o].qty \in [Products -> Nat]
      BY DEF TypeOK
    <3>2. stock' \in [Products -> Nat]
      BY <2>4, <3>1 DEF TypeOK, Inventory!PutBack
    <3>3. QED
      BY <2>4, <3>2 DEF TypeOK, Inventory!PutBack
  <2>5. QED
    BY <2>1, <2>2, <2>3, <2>4
<1>2. /\ calls' \in SUBSET (Operations \X Orders)
      /\ heard' \in [Orders -> Answers \cup {"nothing"}]
  BY DEF TypeOK, Serve, Take, Answer
<1>3. QED
  BY <1>1, <1>2 DEF TypeOK, IntakeTypeOK, Serve, intakeVars, paymentVars

LEMMA ChargeTyped ==
  ASSUME TypeOK, NEW o \in Orders, ClaimCharge(o) \/ SettleCharge(o) \/ DieCharging(o)
  PROVE  TypeOK'
<1>1. CASE ClaimCharge(o)
  BY <1>1 DEF TypeOK, IntakeTypeOK, ClaimCharge, Take, intakeVars, inventoryVars
<1>2. CASE SettleCharge(o)
  <2>1. PICK outcome \in Outcomes :
          /\ captured' = IF outcome.took THEN captured \cup {o} ELSE captured
          /\ payment' = [payment EXCEPT ![o] = outcome.status]
          /\ Answer(o, "charge", outcome.answer)
    BY <1>2 DEF SettleCharge
  <2>2. outcome.status \in {"succeeded", "failed", "unknown"} /\ outcome.answer \in Answers
    BY DEF Outcomes, Outcome, Answers
  <2>3. /\ captured' \in SUBSET Orders
        /\ payment' \in [Orders -> {"none", "pending", "unknown", "succeeded", "failed"}]
        /\ heard' \in [Orders -> Answers \cup {"nothing"}]
    BY <2>1, <2>2 DEF TypeOK, Answer
  <2>4. QED
    BY <1>2, <2>3 DEF TypeOK, IntakeTypeOK, SettleCharge, intakeVars, inventoryVars
<1>3. CASE DieCharging(o)
  BY <1>3 DEF TypeOK, IntakeTypeOK, DieCharging, intakeVars, inventoryVars, taskVars
<1>4. QED
  BY <1>1, <1>2, <1>3

LEMMA ReplayTyped ==
  ASSUME IntakeTypeOK, NEW r \in Requests, Replay(r)
  PROVE  IntakeTypeOK'
<1>1. PICK o \in Recorded(r) :
        \/ phase' = [phase EXCEPT ![r] = "replayed"] /\ answer' = [answer EXCEPT ![r] = o]
        \/ Proceed(r, "conflict")
  BY DEF Replay
<1>2. QED
  BY <1>1 DEF IntakeTypeOK, Phases, Recorded, Proceed

LEMMA IntakeTyped ==
  ASSUME TypeOK, NEW r \in Requests, CreateOrder(r) \/ Intake(r) \/ Reconcile(r)
  PROVE  TypeOK'
<1>1. CASE CreateOrder(r)
  <2>1. IntakeTypeOK'
    BY <1>1 DEF TypeOK, IntakeTypeOK, Phases, CreateOrder, Insert, Proceed
  <2>2. /\ status' \in [Orders -> {"none", "pending", "reserved", "paid", "fulfilled",
                                  "cancelled"}]
        /\ task' \in [Orders -> {"none", "begin", "pay"} \cup Operations]
        /\ heard' \in [Orders -> Answers \cup {"nothing"}]
    BY <1>1 DEF TypeOK, CreateOrder, Insert, GoTo, Orders
  <2>3. UNCHANGED <<calls, inventoryVars, paymentVars>>
    BY <1>1 DEF CreateOrder, GoTo
  <2>4. QED
    BY <2>1, <2>2, <2>3 DEF TypeOK, inventoryVars, paymentVars
<1>2. CASE Intake(r)
  <2>1. IntakeTypeOK'
    <3>1. CASE Replay(r)
      BY <3>1, ReplayTyped DEF TypeOK
    <3>2. CASE \E next \in {"pricing", "inserting", "unavailable"} : Proceed(r, next)
      BY <3>2 DEF TypeOK, IntakeTypeOK, Phases, Proceed
    <3>3. QED
      BY <1>2, <3>1, <3>2 DEF Intake, LookUp, FetchPrices, LoseRace
  <2>2. UNCHANGED <<status, inventoryVars, paymentVars, taskVars>>
    BY <1>2 DEF Intake, LookUp, FetchPrices, LoseRace
  <2>3. QED
    BY <2>1, <2>2 DEF TypeOK, inventoryVars, paymentVars, taskVars
<1>3. CASE Reconcile(r)
  BY <1>3 DEF TypeOK, IntakeTypeOK, Orders, Reconcile, SetStatus, intakeVars, inventoryVars,
              paymentVars, taskVars
<1>4. QED
  BY <1>1, <1>2, <1>3

LEMMA NextTyped ==
  ASSUME TypeOK, Next
  PROVE  TypeOK'
<1>1. PICK o \in Orders :
        \/ CreateOrder(o) \/ Intake(o) \/ Reconcile(o)
        \/ Task(o) \/ GiveUp(o)
        \/ ServeReserve(o) \/ ServeCommit(o) \/ ServeRelease(o)
        \/ ClaimCharge(o) \/ SettleCharge(o) \/ DieCharging(o)
  BY DEF Next
<1>2. CASE ServeReserve(o) \/ ServeCommit(o) \/ ServeRelease(o)
  BY <1>2, ServeTyped DEF ServeReserve, ServeCommit, ServeRelease, Operations, Answers
<1>3. QED
  BY <1>1, <1>2, TaskTyped, ChargeTyped, IntakeTyped DEF Orders

-----------------------------------------------------------------------------
(* Keys. *)

\* A step that inserts nothing and answers nobody keeps what is known of keys.
StillThere == \A o \in Orders : (status'[o] = "none") = (status[o] = "none")

LEMMA NothingInserted ==
  ASSUME KeysInv, PhasesInv, StillThere, UNCHANGED intakeVars
  PROVE  KeysInv' /\ PhasesInv'
<1>1. \A r \in Requests : Recorded(r)' = Recorded(r)
  BY DEF StillThere, Recorded
<1>2. KeysInv'
  BY DEF KeysInv, StillThere
<1>3. ASSUME NEW r \in Requests PROVE PhaseOK(r)'
  <2>1. PhaseOK(r)
    BY DEF PhasesInv
  <2>2. (status'[r] = "none") = (status[r] = "none")
    BY DEF StillThere, Orders
  <2>3. QED
    BY <1>1, <2>1, <2>2 DEF PhaseOK, intakeVars
<1>4. QED
  BY <1>2, <1>3 DEF PhasesInv

LEMMA ReplayKeys ==
  ASSUME TypeOK, KeysInv, PhasesInv, UNCHANGED status,
         NEW r \in Requests, Replay(r), phase[r] # "replayed"
  PROVE  KeysInv' /\ PhasesInv'
<1>1. PICK o \in Recorded(r) :
        \/ /\ ItemsOf[o] = ItemsOf[r]
           /\ phase' = [phase EXCEPT ![r] = "replayed"]
           /\ answer' = [answer EXCEPT ![r] = o]
        \/ /\ ItemsOf[o] # ItemsOf[r]
           /\ Proceed(r, "conflict")
  BY DEF Replay
<1>2. PhaseOK(r)'
  BY <1>1 DEF TypeOK, IntakeTypeOK, PhasesInv, PhaseOK, Recorded, Proceed
<1>3. ASSUME NEW q \in Requests, q # r PROVE PhaseOK(q)'
  BY <1>1, <1>3 DEF TypeOK, IntakeTypeOK, PhasesInv, PhaseOK, Recorded, Proceed
<1>4. QED
  BY <1>2, <1>3 DEF KeysInv, PhasesInv

LEMMA CreateKeys ==
  ASSUME TypeOK, KeysInv, PhasesInv, NEW r \in Requests, CreateOrder(r)
  PROVE  KeysInv' /\ PhasesInv'
<1>1. /\ status' = [status EXCEPT ![r] = "pending"]
      /\ phase' = [phase EXCEPT ![r] = "created"]
      /\ answer' = answer
      /\ Recorded(r) = {}
      /\ phase[r] = "inserting"
  BY DEF CreateOrder, Insert, Proceed, Unique
<1>2. \A q \in Requests : Recorded(q) \subseteq Recorded(q)'
  BY <1>1 DEF TypeOK, Recorded, Orders
<1>3. KeysInv'
  BY <1>1 DEF TypeOK, KeysInv, Recorded, Orders
<1>4. ASSUME NEW q \in Requests PROVE PhaseOK(q)'
  <2>1. PhaseOK(q)
    BY DEF PhasesInv
  <2>2. answer'[q] = answer[q] /\ (q # r => phase'[q] = phase[q] /\ status'[q] = status[q])
    BY <1>1 DEF TypeOK, IntakeTypeOK, Orders
  <2>3. phase'[r] = "created" /\ status'[r] = "pending"
    BY <1>1 DEF TypeOK, IntakeTypeOK, Orders
  <2>4. answer[r] = r
    BY <1>1 DEF PhasesInv, PhaseOK
  <2>5. QED
    BY <1>2, <2>1, <2>2, <2>3, <2>4 DEF PhaseOK
<1>5. QED
  BY <1>3, <1>4 DEF PhasesInv

LEMMA IntakeKeys ==
  ASSUME TypeOK, KeysInv, PhasesInv, NEW r \in Requests, Intake(r)
  PROVE  KeysInv' /\ PhasesInv'
<1>1. CASE Replay(r)
  BY <1>1, ReplayKeys DEF Intake, LookUp, FetchPrices, LoseRace
<1>2. CASE \E next \in {"pricing", "inserting", "unavailable"} : Proceed(r, next)
  <2>1. KeysInv' /\ \A q \in Requests : Recorded(q)' = Recorded(q)
    BY DEF Intake, LookUp, FetchPrices, LoseRace, KeysInv, Recorded
  <2>2. phase[r] # "replayed"
    BY DEF Intake, LookUp, FetchPrices, LoseRace
  <2>3. ASSUME NEW q \in Requests PROVE PhaseOK(q)'
    BY <1>2, <2>1, <2>2
    DEF TypeOK, IntakeTypeOK, PhasesInv, PhaseOK, Proceed, Intake, LookUp, FetchPrices, LoseRace
  <2>4. QED
    BY <2>1, <2>3 DEF PhasesInv
<1>3. QED
  BY <1>1, <1>2 DEF Intake, LookUp, FetchPrices, LoseRace

LEMMA NextKeys ==
  ASSUME IInv, Next
  PROVE  KeysInv' /\ PhasesInv'
<1>1. PICK o \in Orders :
        \/ CreateOrder(o) \/ Intake(o) \/ Reconcile(o)
        \/ Task(o) \/ GiveUp(o)
        \/ ServeReserve(o) \/ ServeCommit(o) \/ ServeRelease(o)
        \/ ClaimCharge(o) \/ SettleCharge(o) \/ DieCharging(o)
  BY DEF Next
<1>2. CASE Task(o) \/ GiveUp(o) \/ Reconcile(o)
  <2>1. UNCHANGED intakeVars
    BY <1>2
    DEF Task, GiveUp, Reconcile, BeginReserve, OnReserved, OnReserveRefused, BeginCharge,
        OnChargeSucceeded, OnChargeFailed, OnChargeUnresolved, OnCommitted, OnReleased, OthersIdle
  <2>2. status[o] # "none"
    <3>1. task[o] # "none" \/ status[o] \in Stuck
      BY <1>2
      DEF Task, GiveUp, Reconcile, BeginReserve, OnReserved, OnReserveRefused, BeginCharge,
          OnChargeSucceeded, OnChargeFailed, OnChargeUnresolved, OnCommitted, OnReleased,
          Hears, Succeeded, Declined
    <3>2. QED
      BY <3>1 DEF IInv, OrderOK, BeforeReserved, Stuck
  <2>3. \/ UNCHANGED status
        \/ \E st \in {"reserved", "paid", "fulfilled", "cancelled"} : SetStatus(o, st)
    BY <1>2
    DEF Task, GiveUp, Reconcile, BeginReserve, OnReserved, OnReserveRefused, BeginCharge,
        OnChargeSucceeded, OnChargeFailed, OnChargeUnresolved, OnCommitted, OnReleased
  <2>4. StillThere
    BY <2>2, <2>3 DEF IInv, TypeOK, SetStatus, StillThere
  <2>5. QED
    BY <2>1, <2>4, NothingInserted DEF IInv
<1>3. CASE \/ ServeReserve(o) \/ ServeCommit(o) \/ ServeRelease(o)
           \/ ClaimCharge(o) \/ SettleCharge(o) \/ DieCharging(o)
  <2>1. UNCHANGED <<status, intakeVars>>
    BY <1>3
    DEF ServeReserve, ServeCommit, ServeRelease, Serve, ClaimCharge, SettleCharge, DieCharging
  <2>2. QED
    BY <2>1, NothingInserted DEF IInv, StillThere
<1>4. QED
  BY <1>1, <1>2, <1>3, CreateKeys, IntakeKeys DEF IInv, Orders

-----------------------------------------------------------------------------
(* One lemma for each action: what it does to its own order. *)

\* Once the orders of a step are told apart, only its own remains to be looked at.
LEMMA OneOrder ==
  ASSUME NEW o \in Orders, \A q \in Orders : OrderOK(q),
         \A q \in Orders \ {o} : Same(q), OrderOK(o)'
  PROVE  \A q \in Orders : OrderOK(q)'
BY SameOrderOK

LEMMA TaskIsLocal ==
  ASSUME TypeOK, NEW o \in Orders, NEW q \in Orders, q # o, Task(o) \/ GiveUp(o)
  PROVE  Same(q)
<1>1. UNCHANGED <<inventoryVars, paymentVars>>
  BY DEF Task, GiveUp, BeginReserve, OnReserved, OnReserveRefused, BeginCharge,
         OnChargeSucceeded, OnChargeFailed, OnChargeUnresolved, OnCommitted, OnReleased, OthersIdle
<1>2. \/ UNCHANGED status
      \/ \E st \in {"reserved", "paid", "fulfilled", "cancelled"} : SetStatus(o, st)
  BY DEF Task, GiveUp, BeginReserve, OnReserved, OnReserveRefused, BeginCharge,
         OnChargeSucceeded, OnChargeFailed, OnChargeUnresolved, OnCommitted, OnReleased
<1>3. (\E op \in Operations : Call(o, op)) \/ (\E next \in {"pay", "none"} : GoTo(o, next))
  BY DEF Task, GiveUp, BeginReserve, OnReserved, OnReserveRefused, BeginCharge,
         OnChargeSucceeded, OnChargeFailed, OnChargeUnresolved, OnCommitted, OnReleased,
         Finish, Operations
<1>4. /\ task'[q] = task[q] /\ heard'[q] = heard[q]
      /\ \A op \in Operations : (<<op, q>> \in calls') = (<<op, q>> \in calls)
  BY <1>3 DEF TypeOK, Call, GoTo
<1>5. status'[q] = status[q]
  BY <1>2 DEF TypeOK, SetStatus
<1>6. QED
  BY <1>1, <1>4, <1>5 DEF Same, inventoryVars, paymentVars

LEMMA ServeIsLocal ==
  ASSUME TypeOK, NEW o \in Orders, NEW q \in Orders, q # o,
         ServeReserve(o) \/ ServeCommit(o) \/ ServeRelease(o)
  PROVE  Same(q)
<1>1. PICK op \in Operations, ans \in Answers : Serve(o, op, ans)
  BY DEF ServeReserve, ServeCommit, ServeRelease, Operations, Answers
<1>2. reservation'[q] = reservation[q]
  BY DEF TypeOK, ServeReserve, ServeCommit, ServeRelease, inventoryVars,
         Inventory!Reserve, Inventory!Keep, Inventory!PutBack
<1>3. QED
  BY <1>1, <1>2 DEF TypeOK, Same, Serve, Take, Answer, paymentVars

LEMMA ChargeIsLocal ==
  ASSUME TypeOK, NEW o \in Orders, NEW q \in Orders, q # o,
         ClaimCharge(o) \/ SettleCharge(o) \/ DieCharging(o)
  PROVE  Same(q)
<1>1. CASE ClaimCharge(o)
  BY <1>1 DEF TypeOK, Same, ClaimCharge, Take, inventoryVars
<1>2. CASE SettleCharge(o)
  <2>1. captured' \in {captured, captured \cup {o}}
    BY <1>2 DEF SettleCharge
  <2>2. payment'[q] = payment[q] /\ heard'[q] = heard[q]
    BY <1>2 DEF TypeOK, SettleCharge, Answer
  <2>3. QED
    BY <1>2, <2>1, <2>2 DEF Same, SettleCharge, inventoryVars
<1>3. CASE DieCharging(o)
  BY <1>3 DEF Same, DieCharging, inventoryVars, taskVars
<1>4. QED
  BY <1>1, <1>2, <1>3

LEMMA IntakeIsLocal ==
  ASSUME TypeOK, NEW o \in Orders, NEW q \in Orders, q # o,
         CreateOrder(o) \/ Intake(o) \/ Reconcile(o)
  PROVE  Same(q)
<1>1. CASE CreateOrder(o)
  BY <1>1 DEF TypeOK, Same, CreateOrder, Insert, GoTo, inventoryVars, paymentVars
<1>2. CASE Intake(o)
  BY <1>2
  DEF Same, Intake, LookUp, FetchPrices, LoseRace, inventoryVars, paymentVars, taskVars
<1>3. CASE Reconcile(o)
  BY <1>3 DEF TypeOK, Same, Reconcile, SetStatus, inventoryVars, paymentVars, taskVars
<1>4. QED
  BY <1>1, <1>2, <1>3

USE DEF OrderOK, BeforeReserved, WhileCharging, AfterCharge, InFlight, Quiet, Alone,
        Unpaid, Untouched, Held, Paid, Operations

LEMMA BeginReserveOK ==
  ASSUME TypeOK, NEW o \in Orders, OrderOK(o), BeginReserve(o)
  PROVE  OrderOK(o)'
BY DEF TypeOK, BeginReserve, SetStatus, Call, GoTo, Finish, Hears, OthersIdle,
       inventoryVars, paymentVars

LEMMA OnReservedOK ==
  ASSUME TypeOK, NEW o \in Orders, OrderOK(o), OnReserved(o)
  PROVE  OrderOK(o)'
BY DEF TypeOK, OnReserved, SetStatus, Call, GoTo, Finish, Hears, OthersIdle,
       inventoryVars, paymentVars

LEMMA OnReserveRefusedOK ==
  ASSUME TypeOK, NEW o \in Orders, OrderOK(o), OnReserveRefused(o)
  PROVE  OrderOK(o)'
BY DEF TypeOK, OnReserveRefused, SetStatus, Call, GoTo, Finish, Hears, OthersIdle,
       inventoryVars, paymentVars

LEMMA BeginChargeOK ==
  ASSUME TypeOK, NEW o \in Orders, OrderOK(o), BeginCharge(o)
  PROVE  OrderOK(o)'
BY DEF TypeOK, BeginCharge, SetStatus, Call, GoTo, Finish, Hears, OthersIdle,
       inventoryVars, paymentVars

LEMMA OnChargeSucceededOK ==
  ASSUME TypeOK, NEW o \in Orders, OrderOK(o), OnChargeSucceeded(o)
  PROVE  OrderOK(o)'
BY DEF TypeOK, OnChargeSucceeded, Succeeded, SetStatus, Call, GoTo, Finish, Hears,
       OthersIdle, inventoryVars, paymentVars

LEMMA OnChargeFailedOK ==
  ASSUME TypeOK, NEW o \in Orders, OrderOK(o), OnChargeFailed(o)
  PROVE  OrderOK(o)'
BY DEF TypeOK, OnChargeFailed, Declined, SetStatus, Call, GoTo, Finish, Hears,
       OthersIdle, inventoryVars, paymentVars

LEMMA OnChargeUnresolvedOK ==
  ASSUME TypeOK, NEW o \in Orders, OrderOK(o), OnChargeUnresolved(o)
  PROVE  OrderOK(o)'
BY DEF TypeOK, OnChargeUnresolved, SetStatus, Call, GoTo, Finish, Hears, OthersIdle,
       inventoryVars, paymentVars

LEMMA OnCommittedOK ==
  ASSUME TypeOK, NEW o \in Orders, OrderOK(o), OnCommitted(o)
  PROVE  OrderOK(o)'
BY DEF TypeOK, OnCommitted, SetStatus, Call, GoTo, Finish, Hears, OthersIdle,
       inventoryVars, paymentVars

LEMMA OnReleasedOK ==
  ASSUME TypeOK, NEW o \in Orders, OrderOK(o), OnReleased(o)
  PROVE  OrderOK(o)'
BY DEF TypeOK, OnReleased, SetStatus, Call, GoTo, Finish, Hears, OthersIdle,
       inventoryVars, paymentVars

LEMMA GiveUpOK ==
  ASSUME TypeOK, NEW o \in Orders, OrderOK(o), GiveUp(o)
  PROVE  OrderOK(o)'
BY DEF TypeOK, GiveUp, SetStatus, Call, GoTo, Finish, Hears, OthersIdle, inventoryVars,
       paymentVars

LEMMA ServeReserveOK ==
  ASSUME TypeOK, NEW o \in Orders, OrderOK(o), ServeReserve(o)
  PROVE  OrderOK(o)'
BY DEF TypeOK, ServeReserve, Serve, Take, Answer, Enough, Inventory!Reserve,
       Inventory!NoRows, Inventory!Rows, inventoryVars, paymentVars

LEMMA ServeCommitOK ==
  ASSUME TypeOK, NEW o \in Orders, OrderOK(o), ServeCommit(o)
  PROVE  OrderOK(o)'
BY DEF TypeOK, ServeCommit, Serve, Take, Answer, Inventory!Keep, inventoryVars,
       paymentVars

LEMMA ServeReleaseOK ==
  ASSUME TypeOK, NEW o \in Orders, OrderOK(o), ServeRelease(o)
  PROVE  OrderOK(o)'
BY DEF TypeOK, ServeRelease, Serve, Take, Answer, Inventory!PutBack, inventoryVars,
       paymentVars

LEMMA ClaimChargeOK ==
  ASSUME TypeOK, NEW o \in Orders, OrderOK(o), ClaimCharge(o)
  PROVE  OrderOK(o)'
BY DEF TypeOK, ClaimCharge, Take, inventoryVars

LEMMA SettleChargeOK ==
  ASSUME TypeOK, NEW o \in Orders, OrderOK(o), SettleCharge(o)
  PROVE  OrderOK(o)'
BY DEF TypeOK, SettleCharge, Answer, Outcomes, Outcome, inventoryVars

LEMMA DieChargingOK ==
  ASSUME TypeOK, NEW o \in Orders, OrderOK(o), DieCharging(o)
  PROVE  OrderOK(o)'
BY DEF TypeOK, DieCharging, inventoryVars, taskVars

LEMMA CreateOrderOK ==
  ASSUME TypeOK, NEW o \in Orders, OrderOK(o), CreateOrder(o)
  PROVE  OrderOK(o)'
BY DEF TypeOK, CreateOrder, Insert, Unique, Recorded, GoTo, inventoryVars, paymentVars,
       Orders

LEMMA IntakeOK ==
  ASSUME TypeOK, NEW o \in Orders, OrderOK(o), Intake(o)
  PROVE  OrderOK(o)'
BY DEF TypeOK, Intake, LookUp, FetchPrices, LoseRace, inventoryVars, paymentVars,
       taskVars

LEMMA ReconcileOK ==
  ASSUME TypeOK, NEW o \in Orders, OrderOK(o), Reconcile(o)
  PROVE  OrderOK(o)'
BY DEF TypeOK, Reconcile, Stuck, SetStatus, inventoryVars, paymentVars, taskVars

HIDE DEF OrderOK, BeforeReserved, WhileCharging, AfterCharge, InFlight, Quiet, Alone,
         Unpaid, Untouched, Held, Paid, Operations

-----------------------------------------------------------------------------
(* The theorems. *)

LEMMA StepKeepsOrders ==
  ASSUME IInv, Next
  PROVE  \A q \in Orders : OrderOK(q)'
<1>1. PICK o \in Orders :
        \/ CreateOrder(o) \/ Intake(o) \/ Reconcile(o)
        \/ Task(o) \/ GiveUp(o)
        \/ ServeReserve(o) \/ ServeCommit(o) \/ ServeRelease(o)
        \/ ClaimCharge(o) \/ SettleCharge(o) \/ DieCharging(o)
  BY DEF Next
<1>2. TypeOK /\ \A q \in Orders : OrderOK(q)
  BY DEF IInv
<1>3. \A q \in Orders \ {o} : Same(q)
  BY <1>1, <1>2, TaskIsLocal, ServeIsLocal, ChargeIsLocal, IntakeIsLocal
<1>4. CASE Task(o) \/ GiveUp(o)
  <2>1. OrderOK(o)'
    BY <1>2, <1>4, BeginReserveOK, OnReservedOK, OnReserveRefusedOK, BeginChargeOK,
       OnChargeSucceededOK, OnChargeFailedOK, OnChargeUnresolvedOK, OnCommittedOK, OnReleasedOK,
       GiveUpOK
    DEF Task
  <2>2. QED
    BY <1>2, <1>3, <2>1, OneOrder
<1>5. CASE ServeReserve(o) \/ ServeCommit(o) \/ ServeRelease(o)
  <2>1. OrderOK(o)'
    BY <1>2, <1>5, ServeReserveOK, ServeCommitOK, ServeReleaseOK
  <2>2. QED
    BY <1>2, <1>3, <2>1, OneOrder
<1>6. CASE ClaimCharge(o) \/ SettleCharge(o) \/ DieCharging(o)
  <2>1. OrderOK(o)'
    BY <1>2, <1>6, ClaimChargeOK, SettleChargeOK, DieChargingOK
  <2>2. QED
    BY <1>2, <1>3, <2>1, OneOrder
<1>7. CASE CreateOrder(o) \/ Intake(o) \/ Reconcile(o)
  <2>1. OrderOK(o)'
    BY <1>2, <1>7, CreateOrderOK, IntakeOK, ReconcileOK
  <2>2. QED
    BY <1>2, <1>3, <2>1, OneOrder
<1>8. QED
  BY <1>1, <1>4, <1>5, <1>6, <1>7

LEMMA StutterKeepsIInv ==
  ASSUME IInv, UNCHANGED vars
  PROVE  IInv'
<1>1. TypeOK'
  BY DEF IInv, TypeOK, IntakeTypeOK, vars, intakeVars, inventoryVars, paymentVars, taskVars
<1>2. KeysInv' /\ PhasesInv'
  BY NothingInserted DEF IInv, StillThere, vars
<1>3. \A q \in Orders : OrderOK(q)'
  BY SameOrderOK DEF IInv, Same, vars, inventoryVars, paymentVars, taskVars
<1>4. QED
  BY <1>1, <1>2, <1>3 DEF IInv

\* IInv is an inductive invariant of checkout over HTTP.
THEOREM CheckoutIInv == Spec => []IInv
<1>1. IInv /\ [Next]_vars => IInv'
  BY NextTyped, NextKeys, StepKeepsOrders, StutterKeepsIInv DEF IInv
<1>2. QED
  BY InitIInv, <1>1, PTL DEF Spec

\* The tables and the task keep their types; no stock_qty becomes negative.
THEOREM CheckoutTypeOK == Spec => []TypeOK
<1>1. IInv => TypeOK
  BY DEF IInv
<1>2. QED
  BY <1>1, CheckoutIInv, PTL

\* However many requests race under one idempotency key, they are answered with one
\* order, and only those that asked for what it holds (create_order, _replay).
THEOREM OneKeyOneOrder == Spec => []AnswersAgree
<1>1. IInv => AnswersAgree
  <2>1. SUFFICES ASSUME IInv, NEW r \in Requests, NEW q \in Requests, KeyOf[r] = KeyOf[q]
                 PROVE  /\ Answered(r) /\ Answered(q) => answer[r] = answer[q]
                        /\ Answered(r) => ItemsOf[answer[r]] = ItemsOf[r]
                        /\ phase[r] = "conflict" => \E o \in Recorded(r) : ItemsOf[o] # ItemsOf[r]
    BY DEF AnswersAgree
  <2>2. ASSUME NEW t \in Requests, Answered(t)
        PROVE  answer[t] \in Recorded(t) /\ ItemsOf[answer[t]] = ItemsOf[t]
    <3>1. PhaseOK(t)
      BY <2>1 DEF IInv, PhasesInv
    <3>2. CASE phase[t] = "created"
      BY <2>2, <3>1, <3>2 DEF PhaseOK, Recorded, Orders
    <3>3. CASE phase[t] = "replayed"
      BY <3>1, <3>3 DEF PhaseOK
    <3>4. QED
      BY <2>2, <3>2, <3>3 DEF Answered
  <2>3. Answered(r) /\ Answered(q) => answer[r] = answer[q]
    BY <2>1, <2>2 DEF IInv, KeysInv, Recorded, Orders
  <2>4. phase[r] = "conflict" => \E o \in Recorded(r) : ItemsOf[o] # ItemsOf[r]
    BY <2>1 DEF IInv, PhasesInv, PhaseOK
  <2>5. QED
    BY <2>2, <2>3, <2>4
<1>2. QED
  BY <1>1, CheckoutIInv, PTL

\* An order counts as paid only when the money was taken, and as fulfilled only when its
\* goods are committed, although the task writes the status without looking.
THEOREM PaidAlwaysForGoods == Spec => []PaidForGoods
<1>1. IInv => PaidForGoods
  BY DEF IInv, OrderOK, AfterCharge, PaidForGoods
<1>2. QED
  BY <1>1, CheckoutIInv, PTL

\* Goods somebody may have paid for are never put back on the shelf (charge_payment
\* does not treat an unknown outcome as a decline).
THEOREM CapturedAlwaysKeepsGoods == Spec => []CapturedKeepsGoods
<1>1. IInv => CapturedKeepsGoods
  BY DEF IInv, TypeOK, OrderOK, AfterCharge, CapturedKeepsGoods
<1>2. QED
  BY <1>1, CheckoutIInv, PTL
=============================================================================
