--------------------------- MODULE PaymentService ---------------------------
(***************************************************************************)
(* The Payment service behind the event bus: one payment row per order     *)
(* (its idempotency key is derived from the order), at most one refund     *)
(* attempt per payment, the ledger, the queue consumer and the reconciler. *)
(*                                                                         *)
(* The service commits its claim before it calls the provider and commits  *)
(* the provider's answer afterwards, so a charge or a refund is a session  *)
(* of two transactions between which other sessions run.  A session keeps  *)
(* the row it read first in SQLAlchemy's identity map: sessions are        *)
(* created with expire_on_commit=False and the locking reads do not use    *)
(* populate_existing, so the re-read under the row lock still shows the    *)
(* status the session saw first.  PopulateExisting = FALSE is that         *)
(* behaviour; TRUE is the one in which the re-read refreshes the row.      *)
(*                                                                         *)
(* Definitions marked "Wrong" are slips the code does not make.  Nothing   *)
(* uses them: each can be put in place of the definition that follows, to  *)
(* see that a property notices.                                            *)
(***************************************************************************)
EXTENDS Bus

CONSTANTS
  Scripts,           \* the answers the provider may be set up to give
  PopulateExisting,  \* does a locking read refresh a row already loaded?
  SharedGateway      \* does the reconciler ask the gateway object that refunded?

Script == [charge : {"success", "failure", "timeout"},
           chargeResolution : {"success", "failure", "unknown"},
           refund : {"success", "failure", "timeout"},
           refundResolution : {"success", "failure", "unknown"}]

ASSUME PaymentAssumption ==
  /\ Scripts \subseteq Script
  /\ PopulateExisting \in BOOLEAN
  /\ SharedGateway \in BOOLEAN

VARIABLES
  provider,        \* the provider's script for each order
  payment,         \* payments.status, "none" before the row exists
  ledger,          \* ledger_entries: (order, direction), unique by constraint
  reported,        \* orders whose payment has outcome_reported_at set
  refund,          \* refund_attempts.status, "none" before the row exists
  refundReported,  \* orders whose refund attempt has outcome_reported_at set
  refundCalls,     \* how often gateway.refund was called (2 stands for more)
  charging,        \* consumer sessions between the claim and the answer
  refunding,       \* the same for refunds
  listed,          \* status in the reconciler's copy of a payment it listed
  refundListed     \* status in the reconciler's copy of a refund it listed

paymentVars == <<provider, payment, ledger, reported, refund, refundReported,
                 refundCalls, charging, refunding, listed, refundListed>>
chargeVars == <<payment, reported, charging, listed>>
refundVars == <<refund, refundReported, refundCalls, refunding, refundListed>>

Unresolved == {"pending", "unknown"}
PaymentStatus == Unresolved \cup {"succeeded", "failed", "refunded"}
RefundStatus == Unresolved \cup {"succeeded", "failed"}
Debit(o) == <<o, "debit">>
Credit(o) == <<o, "credit">>

PaymentTypeOK ==
  /\ provider \in [Orders -> Script]
  /\ payment \in [Orders -> PaymentStatus \cup {"none"}]
  /\ ledger \subseteq Orders \X {"debit", "credit"}
  /\ reported \subseteq Orders
  /\ refund \in [Orders -> RefundStatus \cup {"none"}]
  /\ refundReported \subseteq Orders
  /\ refundCalls \in [Orders -> 0 .. 2]
  /\ charging \subseteq Orders
  /\ refunding \subseteq Orders
  /\ listed \in [Orders -> Unresolved \cup {"none"}]
  /\ refundListed \in [Orders -> Unresolved \cup {"none"}]

PaymentInit ==
  /\ provider \in [Orders -> Scripts]
  /\ payment = [o \in Orders |-> "none"]
  /\ ledger = {}
  /\ reported = {}
  /\ refund = [o \in Orders |-> "none"]
  /\ refundReported = {}
  /\ refundCalls = [o \in Orders |-> 0]
  /\ charging = {}
  /\ refunding = {}
  /\ listed = [o \in Orders |-> "none"]
  /\ refundListed = [o \in Orders |-> "none"]

-----------------------------------------------------------------------------
(* MockPaymentGateway. *)

\* charge: an answer, or a timeout that leaves the outcome open.
ChargeAnswer(o) == provider[o].charge

\* lookup: what became of a charge; it answers for any key.
LookupAnswer(o) ==
  IF provider[o].charge # "timeout" THEN provider[o].charge
                                    ELSE provider[o].chargeResolution

\* lookup_refund knows the refunds submitted through the same object.
LookupRefundAnswer(o) ==
  CASE ~SharedGateway \/ refundCalls[o] = 0 -> "not_found"
    [] provider[o].refund # "timeout"       -> provider[o].refund
    [] OTHER                                -> provider[o].refundResolution

-----------------------------------------------------------------------------
(* Writing a provider answer to the payment row. *)

\* The status a session acts on after it locked the row it had read as `held`.
SeenPayment(o, held) == IF PopulateExisting THEN payment[o] ELSE held

\* _apply_gateway_result for a definitive answer, _set_unknown otherwise.
ChargedStatus(o, held, answer) ==
  LET seen == SeenPayment(o, held)
  IN CASE answer = "success" /\ seen \in Unresolved -> "succeeded"
       [] answer = "failure" /\ seen \in Unresolved -> "failed"
       [] answer \notin {"success", "failure"} /\ seen = "pending" -> "unknown"
       [] OTHER -> payment[o]

WritePayment(o, held, answer) ==
  /\ payment' = [payment EXCEPT ![o] = ChargedStatus(o, held, answer)]
  /\ ledger' = IF answer = "success" /\ SeenPayment(o, held) \in Unresolved
               THEN ledger \cup {Debit(o)} ELSE ledger

\* Wrong: every status but succeeded is a failure.
FailsUnlessSucceeded(o, st) ==
  {Event(IF st = "succeeded" THEN "payment.succeeded" ELSE "payment.failed", o)}

\* _publish_payment_outcome: the reply for a terminal payment...
Outcome(o, st) ==
  CASE st = "succeeded" -> {Event("payment.succeeded", o)}
    [] st = "failed"    -> {Event("payment.failed", o)}
    [] OTHER            -> {}

\* Wrong: marked before the outcome is out.
MarksBeforePublishing(o, st, fate) ==
  reported' = IF Outcome(o, st) # {} THEN reported \cup {o} ELSE reported

\* ...and mark_outcome_reported once it was published.
MarkReported(o, st, fate) ==
  reported' = IF Outcome(o, st) # {} /\ fate \in {"acked", "unacked"}
              THEN reported \cup {o} ELSE reported

-----------------------------------------------------------------------------
(* The queue consumer: charge.requested. *)

\* charge, first transaction: the pending row claims the key.
ChargeBegin(o) ==
  /\ Event("charge.requested", o) \in queued
  /\ payment[o] = "none"
  /\ payment' = [payment EXCEPT ![o] = "pending"]
  /\ charging' = charging \cup {o}
  /\ UNCHANGED <<provider, ledger, reported, listed, refundVars, busVars>>

\* charge, second transaction: the provider answered or timed out.
ChargeFinish(o, fate) ==
  LET answer == ChargeAnswer(o)
      st == ChargedStatus(o, "pending", answer)
  IN  /\ o \in charging
      /\ charging' = charging \ {o}
      /\ WritePayment(o, "pending", answer)
      /\ MarkReported(o, st, fate)
      /\ Consume(Event("charge.requested", o), Outcome(o, st), fate)
      /\ UNCHANGED <<provider, listed, refundVars>>

\* The consumer dies while it waits for the provider.
ChargeCrash(o) ==
  /\ o \in charging
  /\ Mishap
  /\ charging' = charging \ {o}
  /\ UNCHANGED <<provider, payment, ledger, reported, listed, refundVars, queued, dead>>

\* charge finds the key: no second call; a terminal outcome is told again.  The
\* first delivery may still be at work when its connection is lost.
ChargeReplay(o, fate) ==
  /\ Event("charge.requested", o) \in queued
  /\ payment[o] # "none"
  /\ MarkReported(o, payment[o], fate)
  /\ Consume(Event("charge.requested", o), Outcome(o, payment[o]), fate)
  /\ UNCHANGED <<provider, payment, ledger, charging, listed, refundVars>>

-----------------------------------------------------------------------------
(* The reconciler: charges. *)

\* reconcile_unresolved lists a payment left open past its timeout.
ListPayment(o) ==
  /\ payment[o] \in Unresolved
  /\ listed[o] = "none"
  /\ listed' = [listed EXCEPT ![o] = payment[o]]
  /\ UNCHANGED <<provider, payment, ledger, reported, charging, refundVars, busVars>>

\* It looks the listed payment up and writes the answer.
ResolvePayment(o) ==
  /\ listed[o] # "none"
  /\ listed' = [listed EXCEPT ![o] = "none"]
  /\ WritePayment(o, listed[o], LookupAnswer(o))
  /\ UNCHANGED <<provider, reported, charging, refundVars, busVars>>

\* It reports a terminal outcome nobody has marked as reported.
ReportPayment(o, fate) ==
  /\ payment[o] \in {"succeeded", "failed"}
  /\ o \notin reported
  /\ IF fate = "acked" THEN UNCHANGED mishaps ELSE Mishap
  /\ queued' = queued \cup Outcome(o, payment[o])
  /\ MarkReported(o, payment[o], fate)
  /\ UNCHANGED <<provider, payment, ledger, charging, listed, refundVars, dead>>

-----------------------------------------------------------------------------
(* The queue consumer: refund.requested. *)

SeenRefund(o, held) == IF PopulateExisting THEN refund[o] ELSE held

\* _apply_refund_result for a definitive answer, _set_refund_unknown otherwise.
RefundedStatus(o, held, answer) ==
  LET seen == SeenRefund(o, held)
  IN CASE answer = "success" /\ seen \in Unresolved -> "succeeded"
       [] answer = "failure" /\ seen \in Unresolved -> "failed"
       [] answer \notin {"success", "failure"} /\ seen = "pending" -> "unknown"
       [] OTHER -> refund[o]

\* A success also closes the payment and writes the credit, in the same commit.
WriteRefund(o, held, answer) ==
  LET credited == answer = "success" /\ SeenRefund(o, held) \in Unresolved
  IN  /\ refund' = [refund EXCEPT ![o] = RefundedStatus(o, held, answer)]
      /\ payment' = [payment EXCEPT ![o] = IF credited THEN "refunded" ELSE @]
      /\ ledger' = IF credited THEN ledger \cup {Credit(o)} ELSE ledger

CallRefund(o) ==
  refundCalls' = [refundCalls EXCEPT ![o] = IF @ = 2 THEN 2 ELSE @ + 1]

\* refund_for_order, first transaction: the attempt row is the claim.
RefundBegin(o) ==
  /\ Event("refund.requested", o) \in queued
  /\ payment[o] = "succeeded"
  /\ refund[o] = "none"
  /\ refund' = [refund EXCEPT ![o] = "pending"]
  /\ refunding' = refunding \cup {o}
  /\ UNCHANGED <<provider, ledger, chargeVars, refundReported, refundCalls,
                 refundListed, busVars>>

\* refund_for_order skips a payment not captured or already being refunded.
RefundSkip(o, fate) ==
  /\ Event("refund.requested", o) \in queued
  /\ payment[o] # "succeeded" \/ refund[o] # "none"
  /\ Consume(Event("refund.requested", o), {}, fate)
  /\ UNCHANGED paymentVars

\* The session read the ledger before it called the provider: a credit written
\* meanwhile makes its own insert break the unique constraint.
CreditClash(o) ==
  /\ ~PopulateExisting
  /\ provider[o].refund = "success"
  /\ Credit(o) \in ledger

\* refund_for_order, second transaction, then the report to the dashboards.
RefundFinish(o, fate) ==
  /\ o \in refunding
  /\ ~CreditClash(o)
  /\ refunding' = refunding \ {o}
  /\ CallRefund(o)
  /\ WriteRefund(o, "pending", provider[o].refund)
  /\ refundReported' = IF RefundedStatus(o, "pending", provider[o].refund) = "succeeded"
                            /\ fate \in {"acked", "unacked"}
                       THEN refundReported \cup {o} ELSE refundReported
  /\ Consume(Event("refund.requested", o), {}, fate)
  /\ UNCHANGED <<provider, reported, charging, listed, refundListed>>

\* The insert fails: the transaction rolls back and the message is retried.
RefundClash(o) ==
  /\ o \in refunding
  /\ CreditClash(o)
  /\ refunding' = refunding \ {o}
  /\ CallRefund(o)
  /\ UNCHANGED <<provider, ledger, chargeVars, refund, refundReported,
                 refundListed, busVars>>

\* The consumer dies before the provider is called, or before the answer commits.
RefundCrash(o, called) ==
  /\ o \in refunding
  /\ Mishap
  /\ refunding' = refunding \ {o}
  /\ IF called THEN CallRefund(o) ELSE UNCHANGED refundCalls
  /\ UNCHANGED <<provider, ledger, chargeVars, refund, refundReported,
                 refundListed, queued, dead>>

-----------------------------------------------------------------------------
(* The reconciler: refunds. *)

\* reconcile_refunds lists an attempt left open past its timeout.
ListRefund(o) ==
  /\ refund[o] \in Unresolved
  /\ refundListed[o] = "none"
  /\ refundListed' = [refundListed EXCEPT ![o] = refund[o]]
  /\ UNCHANGED <<provider, ledger, chargeVars, refund, refundReported, refundCalls,
                 refunding, busVars>>

\* It looks the attempt up; one the provider does not know is submitted again.
ResolveRefund(o) ==
  LET found == LookupRefundAnswer(o)
  IN  /\ refundListed[o] # "none"
      /\ refundListed' = [refundListed EXCEPT ![o] = "none"]
      /\ IF found = "not_found"
         THEN /\ CallRefund(o)
              /\ WriteRefund(o, refundListed[o], provider[o].refund)
         ELSE /\ UNCHANGED refundCalls
              /\ WriteRefund(o, refundListed[o], found)
      /\ UNCHANGED <<provider, reported, charging, listed, refundReported,
                     refunding, busVars>>

\* It reports a successful refund nobody has marked as reported.
ReportRefund(o) ==
  /\ refund[o] = "succeeded"
  /\ o \notin refundReported
  /\ refundReported' = refundReported \cup {o}
  /\ UNCHANGED <<provider, ledger, chargeVars, refund, refundCalls, refunding,
                 refundListed, busVars>>

PaymentStep ==
  \E o \in Orders :
    \/ ChargeBegin(o)
    \/ ChargeCrash(o)
    \/ \E fate \in Fates : ChargeFinish(o, fate) \/ ChargeReplay(o, fate)
    \/ ListPayment(o)
    \/ ResolvePayment(o)
    \/ \E fate \in {"acked", "unmarked"} : ReportPayment(o, fate)
    \/ RefundBegin(o)
    \/ \E fate \in {"acked", "unacked"} : RefundSkip(o, fate)
    \/ \E fate \in Fates : RefundFinish(o, fate)
    \/ RefundClash(o)
    \/ \E called \in BOOLEAN : RefundCrash(o, called)
    \/ ListRefund(o)
    \/ ResolveRefund(o)
    \/ ReportRefund(o)
=============================================================================
