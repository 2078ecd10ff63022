------------------------------- MODULE Refund -------------------------------
(***************************************************************************)
(* PaymentsService::refund: read the payment and refuse what cannot be     *)
(* refunded, call the provider, then record the move from the status that  *)
(* was read.  The three awaits are three actions, so other requests and    *)
(* webhooks run between them.                                              *)
(***************************************************************************)
EXTENDS PaymentRepository, PaymentProvider

CONSTANT Admin    \* concurrent refund requests

VARIABLE refund

NoRefund == [pc |-> "idle", payment |-> Null, ref |-> Null, seen |-> Absent,
             reply |-> Absent, answer |-> "none", moved |-> FALSE]

Answer == {"none", "ok", "not_found", "not_refundable", "no_reference",
           "rejected", "unavailable", "conflict", "backend"}

RefundTypeOK ==
  refund \in [Admin -> [pc : {"idle", "calling", "recording"},
                        payment : Payment \cup {Null},
                        ref : Ref \cup {Null},
                        seen : Status \cup {Absent},
                        reply : Status \cup {Absent},
                        answer : Answer,
                        moved : BOOLEAN]]   \* did this request move money?

RefundInit == refund = [a \in Admin |-> NoRefund]

\* The request is over: what is left of it is its answer.
AnswerWith(a, answer) ==
  [NoRefund EXCEPT !.payment = refund[a].payment, !.answer = answer, !.moved = refund[a].moved]

\* The checks before the provider is called, in their order.
Refusal(p) ==
  CASE status[p] = Absent -> "not_found"
    [] status[p] \notin Refundable -> "not_refundable"
    [] reference[p] = Null -> "no_reference"
    [] OTHER -> "none"

StartRefund(a, p) ==
  /\ refund[a].pc = "idle"
  /\ LET asked == [NoRefund EXCEPT !.payment = p, !.ref = reference[p], !.seen = status[p]]
     IN refund' = [refund EXCEPT ![a] =
          IF Refusal(p) = "none" THEN [asked EXCEPT !.pc = "calling"]
                                 ELSE [NoRefund EXCEPT !.payment = p, !.answer = Refusal(p)]]
  /\ Works
  /\ UNCHANGED <<repository, provider>>

\* find failed: RefundError::Backend.
StartRefundFails(a, p) ==
  /\ refund[a].pc = "idle"
  /\ refund' = [refund EXCEPT ![a] = [NoRefund EXCEPT !.payment = p, !.answer = "backend"]]
  /\ Fails
  /\ UNCHANGED <<repository, provider>>

\* Mutant: a provider that did not answer is taken to have refunded.
CallProvider_TrustsSilence(a) ==
  LET r == refund[a].ref
      amount == Amount[refund[a].payment]
      reply == RefundReply(amount, IntentAmount[r])
  IN
  /\ refund[a].pc = "calling"
  /\ \/ CanRefund(r, amount) /\ Works /\ MoveMoney(r, amount)
     \/ Fails /\ UNCHANGED provider
  /\ refund' = [refund EXCEPT ![a].pc = "recording", ![a].reply = reply, ![a].moved = TRUE]
  /\ UNCHANGED repository

\* ProviderError: a 4xx is a rejection, a 5xx or no usable answer is not.
ErrorAnswer == {"rejected", "unavailable"}

\* The provider's reply is the status to record, if the status that was read can
\* move there.
Replied(a, reply) ==
  refund' = [refund EXCEPT ![a] =
    IF CanTransition(refund[a].seen, reply)
    THEN [@ EXCEPT !.pc = "recording", !.reply = reply, !.moved = TRUE]
    ELSE [AnswerWith(a, "not_refundable") EXCEPT !.moved = TRUE]]

\* provider.refund(reference, amount).  The provider's own check and the
\* movement of money are one step at the provider.  Then the answer may be lost,
\* or the second call of the adapter, fetch_intent, fails either way, or it
\* brings an intent without an amount, which reads as 0.
CallProvider(a) ==
  LET r == refund[a].ref
      amount == Amount[refund[a].payment]
  IN
  /\ refund[a].pc = "calling"
  /\ \/ CanRefund(r, amount) /\ MoveMoney(r, amount)
        /\ \/ Works /\ Replied(a, RefundReply(amount, IntentAmount[r]))
           \/ Fails /\ Replied(a, RefundReply(amount, 0))
           \/ Fails /\ \E answer \in ErrorAnswer :
                refund' = [refund EXCEPT ![a] = [AnswerWith(a, answer) EXCEPT !.moved = TRUE]]
     \/ ~CanRefund(r, amount) /\ Works /\ UNCHANGED provider
        /\ refund' = [refund EXCEPT ![a] = AnswerWith(a, "rejected")]
     \/ Fails /\ UNCHANGED provider
        /\ \E answer \in ErrorAnswer : refund' = [refund EXCEPT ![a] = AnswerWith(a, answer)]
  /\ UNCHANGED repository

RecordRefund(a) ==
  LET p == refund[a].payment
      seen == refund[a].seen
      reply == refund[a].reply
  IN
  /\ refund[a].pc = "recording"
  /\ \/ Works /\ Transition(p, seen, reply, "admin_refund")
        /\ refund' = [refund EXCEPT ![a] = AnswerWith(a, "ok")]
     \/ Works /\ TransitionConflict(p, seen)
        /\ refund' = [refund EXCEPT ![a] = AnswerWith(a, "conflict")]
     \/ Fails /\ TransitionFails(p, seen, reply, "admin_refund")
        /\ refund' = [refund EXCEPT ![a] = AnswerWith(a, "backend")]
  /\ UNCHANGED provider

\* The request is dropped at an await: the admin hears nothing, and the call
\* that was under way takes effect or not.
DropRefund(a) ==
  LET p == refund[a].payment
      r == refund[a].ref
  IN
  /\ refund[a].pc # "idle"
  /\ Fails
  /\ \/ UNCHANGED <<repository, provider>>
        /\ refund' = [refund EXCEPT ![a] = AnswerWith(a, "none")]
     \/ refund[a].pc = "calling" /\ CanRefund(r, Amount[p]) /\ MoveMoney(r, Amount[p])
        /\ refund' = [refund EXCEPT ![a] = [AnswerWith(a, "none") EXCEPT !.moved = TRUE]]
        /\ UNCHANGED repository
     \/ refund[a].pc = "recording"
        /\ Transition(p, refund[a].seen, refund[a].reply, "admin_refund")
        /\ refund' = [refund EXCEPT ![a] = AnswerWith(a, "none")]
        /\ UNCHANGED provider
=============================================================================
