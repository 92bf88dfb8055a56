----------------------------- MODULE OrderIntake -----------------------------
(***************************************************************************)
(* POST /orders.  A request looks for an order under its shopper's         *)
(* idempotency key, asks the Inventory service for prices and inserts an   *)
(* order; between the look and the insert other requests under the same    *)
(* key do the same, and the unique constraint decides.  A shopper's retry  *)
(* is a request of its own.                                                *)
(*                                                                         *)
(* An order is named by the request that inserted it.  Two requests are    *)
(* for the same thing when their quantities are the same, whatever the     *)
(* sequence or split of their lines: that is what the fingerprint (or, for *)
(* rows from before there was one, the items) compares.                    *)
(***************************************************************************)
EXTENDS Integers

CONSTANTS
  Requests,
  KeyOf,     \* KeyOf[r]: shopper and idempotency key
  ItemsOf    \* ItemsOf[r]: the quantities ordered

Orders == Requests

VARIABLES
  status,    \* orders.status, "none" before the row exists
  phase,     \* how far a request is
  answer     \* the order it is answered with, its own to begin with

intakeVars == <<phase, answer>>

Phases == {"new", "pricing", "inserting", "created", "replayed", "conflict", "unavailable"}

IntakeTypeOK ==
  /\ phase \in [Requests -> Phases]
  /\ answer \in [Requests -> Orders]

IntakeInit ==
  /\ phase = [r \in Requests |-> "new"]
  /\ answer = [r \in Requests |-> r]

\* get_by_idempotency_key
Recorded(r) == {o \in Orders : status[o] # "none" /\ KeyOf[o] = KeyOf[r]}

Proceed(r, next) ==
  /\ phase' = [phase EXCEPT ![r] = next]
  /\ UNCHANGED answer

\* Wrong: the key alone decides.
ReplaysAnything(r) ==
  \E o \in Recorded(r) :
    /\ phase' = [phase EXCEPT ![r] = "replayed"]
    /\ answer' = [answer EXCEPT ![r] = o]

Replay(r) ==
  \E o \in Recorded(r) :
    \/ /\ ItemsOf[o] = ItemsOf[r]
       /\ phase' = [phase EXCEPT ![r] = "replayed"]
       /\ answer' = [answer EXCEPT ![r] = o]
    \/ /\ ItemsOf[o] # ItemsOf[r]
       /\ Proceed(r, "conflict")

LookUp(r) ==
  /\ phase[r] = "new"
  /\ IF Recorded(r) = {} THEN Proceed(r, "pricing") ELSE Replay(r)
  /\ UNCHANGED status

\* A product nobody knows, or an Inventory service that does not answer, ends it.
FetchPrices(r) ==
  /\ phase[r] = "pricing"
  /\ \E next \in {"inserting", "unavailable"} : Proceed(r, next)
  /\ UNCHANGED status

\* Wrong: the look at the beginning is all there is.
NoConstraint(r) == TRUE

\* uq_orders_user_idempotency_key
Unique(r) == Recorded(r) = {}

Insert(r) ==
  /\ phase[r] = "inserting"
  /\ Unique(r)
  /\ status' = [status EXCEPT ![r] = "pending"]
  /\ Proceed(r, "created")

LoseRace(r) ==
  /\ phase[r] = "inserting"
  /\ ~Unique(r)
  /\ Replay(r)
  /\ UNCHANGED status

-----------------------------------------------------------------------------

Answered(r) == phase[r] \in {"created", "replayed"}

\* One order per key: whoever is answered is answered with it, and asked for just
\* that; whoever is refused asked for something else under a key that was taken.
AnswersAgree ==
  \A r, q \in Requests : KeyOf[r] = KeyOf[q] =>
    /\ Answered(r) /\ Answered(q) => answer[r] = answer[q]
    /\ Answered(r) => ItemsOf[answer[r]] = ItemsOf[r]
    /\ phase[r] = "conflict" => \E o \in Recorded(r) : ItemsOf[o] # ItemsOf[r]
=============================================================================
