-------------------------- MODULE PaymentProvider --------------------------
(***************************************************************************)
(* The payment provider behind StripeProvider and StripeWebhookVerifier.   *)
(* What Stripe itself does is external: an intent moves through its life   *)
(* (in the order the repository's PaymentStatus table allows), money is    *)
(* refunded up to the intent's amount, and each change emits one event.    *)
(* What the adapters make of it (the reply to a refund, the status an      *)
(* event is distilled to) is translated from them.                         *)
(***************************************************************************)
EXTENDS PaymentTypes

VARIABLES
  intent,     \* [Ref -> the provider's status, Absent before it is created]
  refunded,   \* [Ref -> how much has been given back]
  sent        \* every event emitted so far

provider == <<intent, refunded, sent>>

EventType == {"payment_intent.created",
              "payment_intent.requires_action",
              "payment_intent.amount_capturable_updated",
              "payment_intent.succeeded",
              "payment_intent.payment_failed",
              "payment_intent.canceled",
              "charge.refunded"}

\* An event id is unique; `total` tells successive refunds of an intent apart.
Event == [ref : Ref, type : EventType, total : Nat]

\* The events that can be emitted at all, for properties that quantify over them.
Emittable ==
  [ref : Ref, type : EventType \ {"charge.refunded"}, total : {0}]
    \cup UNION {[ref : {r}, type : {"charge.refunded"}, total : 1..IntentAmount[r]] : r \in Ref}

\* The order in which one intent emits its events.
Phase(e) ==
  CASE e.type = "payment_intent.created" -> 0
    [] e.type = "payment_intent.requires_action" -> 1
    [] e.type = "payment_intent.amount_capturable_updated" -> 2
    [] e.type = "charge.refunded" -> 3 + e.total
    [] OTHER -> 3

EmittedBefore(e, f) == Phase(e) < Phase(f)

ProviderTypeOK ==
  /\ intent \in [Ref -> Status \cup {Absent}]
  /\ refunded \in [Ref -> Nat]
  /\ sent \subseteq Event

ProviderInit ==
  /\ intent = [r \in Ref |-> Absent]
  /\ refunded = [r \in Ref |-> 0]
  /\ sent = {}

\* The event by which the provider announces that an intent reached s.
Announcement(s) ==
  CASE s = "created" -> "payment_intent.created"
    [] s = "requires_action" -> "payment_intent.requires_action"
    [] s = "authorized" -> "payment_intent.amount_capturable_updated"
    [] s = "captured" -> "payment_intent.succeeded"
    [] s = "failed" -> "payment_intent.payment_failed"
    [] s = "canceled" -> "payment_intent.canceled"
    [] OTHER -> "charge.refunded"

\* Mutant: a canceled intent is not recognised.
Distilled_NoCancel(e) ==
  CASE e.type = "payment_intent.requires_action" -> "requires_action"
    [] e.type = "payment_intent.amount_capturable_updated" -> "authorized"
    [] e.type = "payment_intent.succeeded" -> "captured"
    [] e.type = "payment_intent.payment_failed" -> "failed"
    [] e.type = "charge.refunded" -> "refunded"
    [] OTHER -> Absent

\* distill: the status an event reports, Absent for one that is not acted on.
\* A refund is reported as full whatever its amount.
Distilled(e) ==
  CASE e.type = "payment_intent.requires_action" -> "requires_action"
    [] e.type = "payment_intent.amount_capturable_updated" -> "authorized"
    [] e.type = "payment_intent.succeeded" -> "captured"
    [] e.type = "payment_intent.payment_failed" -> "failed"
    [] e.type = "payment_intent.canceled" -> "canceled"
    [] e.type = "charge.refunded" -> "refunded"
    [] OTHER -> Absent

\* External: an intent reaches s, and says so.
Reach(r, s) ==
  /\ intent' = [intent EXCEPT ![r] = s]
  /\ sent' = sent \cup {[ref |-> r, type |-> Announcement(s), total |-> 0]}
  /\ UNCHANGED refunded

\* POST /v1/payment_intents.
CreateIntent(r) == intent[r] = Absent /\ Reach(r, "created")

\* External: the customer, the bank or the host's capture call move an intent.
ProviderProgress(r) ==
  \E s \in Status \ {"partially_refunded", "refunded"} :
    CanTransition(intent[r], s) /\ Reach(r, s)

\* External: the provider gives back at most what it captured.
CanRefund(r, amount) ==
  intent[r] = "captured" /\ refunded[r] + amount <= IntentAmount[r]

MoveMoney(r, amount) ==
  /\ refunded' = [refunded EXCEPT ![r] = @ + amount]
  /\ sent' = sent \cup {[ref |-> r, type |-> "charge.refunded",
                         total |-> refunded[r] + amount]}
  /\ UNCHANGED intent

\* External: somebody refunds from the provider's dashboard.
DashboardRefund(r) ==
  \E amount \in 1..IntentAmount[r] : CanRefund(r, amount) /\ MoveMoney(r, amount)

\* Mutant: the reply is the intent's own status, which a refund leaves alone.
RefundReply_IntentStatus(amount, total) == "captured"

\* StripeProvider::refund: full or partial is told from this refund alone, against
\* the total of the intent as it was fetched.
RefundReply(amount, total) ==
  IF amount >= total THEN "refunded" ELSE "partially_refunded"
=============================================================================
