--------------------------- MODULE WebhookIntake ---------------------------
(***************************************************************************)
(* POST /payments/webhooks: WebhookService::handle over the event store.   *)
(* Delivery is at least once and in any order: any event that was sent may *)
(* arrive again at any time, also after it was acknowledged.  The event is *)
(* claimed, the payment looked up, and the move applied, in three awaits.  *)
(***************************************************************************)
EXTENDS PaymentRepository, PaymentProvider

CONSTANTS
  Handler,       \* concurrent webhook requests
  MaxRejected    \* a bound on the rejected deliveries of a TLC run

ASSUME MaxRejectedAssumption == MaxRejected \in Nat

VARIABLES
  claimed,     \* events with an accepted receipt in webhook_events
  rejected,    \* how many deliveries were recorded as rejected
  acked,       \* events the provider has seen a 2xx for
  concluded,   \* events some delivery brought to Processed or Ignored
  delivery     \* [Handler -> the delivery in progress]

store == <<claimed, rejected>>
outcomes == <<acked, concluded>>
webhooks == <<store, outcomes, delivery>>

NoDelivery == [pc |-> "idle", event |-> Null, payment |-> Null, seen |-> Absent]

WebhookTypeOK ==
  /\ claimed \subseteq Event /\ rejected \in Nat
  /\ acked \subseteq Event /\ concluded \subseteq Event
  /\ delivery \in [Handler -> [pc : {"idle", "claimed", "found"},
                               event : Event \cup {Null},
                               payment : Payment \cup {Null},
                               seen : Status \cup {Absent}]]

WebhookInit ==
  /\ claimed = {} /\ rejected = 0
  /\ acked = {} /\ concluded = {}
  /\ delivery = [h \in Handler |-> NoDelivery]

\* Processed and Ignored: 200, and this delivery is over.
Conclude(h) ==
  /\ acked' = acked \cup {delivery[h].event}
  /\ concluded' = concluded \cup {delivery[h].event}
  /\ delivery' = [delivery EXCEPT ![h] = NoDelivery]

\* Error: 500.
Nack(h) == delivery' = [delivery EXCEPT ![h] = NoDelivery] /\ UNCHANGED outcomes

\* verify fails (a timestamp outside the tolerance, a damaged body): 400.  The
\* receipt is kept without the event id, or lost when record_rejected fails.
RejectDelivery(e) ==
  /\ e \in sent /\ rejected < MaxRejected
  /\ \/ Works /\ rejected' = rejected + 1
     \/ Fails /\ UNCHANGED rejected
  /\ UNCHANGED <<repository, provider, claimed, outcomes, delivery>>

\* record_and_claim inserted the receipt.
ClaimEvent(h, e) ==
  /\ delivery[h].pc = "idle" /\ e \in sent \ claimed
  /\ claimed' = claimed \cup {e}
  /\ delivery' = [delivery EXCEPT ![h] = [NoDelivery EXCEPT !.pc = "claimed", !.event = e]]
  /\ Works
  /\ UNCHANGED <<repository, provider, rejected, outcomes>>

\* Mutant: a duplicate is answered with an error.
Deduplicate_Nacks(h, e) ==
  /\ delivery[h].pc = "idle" /\ e \in sent \cap claimed
  /\ Works
  /\ UNCHANGED <<repository, provider, store, outcomes, delivery>>

\* record_and_claim found the receipt there: Duplicate, 200.
Deduplicate(h, e) ==
  /\ delivery[h].pc = "idle" /\ e \in sent \cap claimed
  /\ acked' = acked \cup {e}
  /\ Works
  /\ UNCHANGED <<repository, provider, store, concluded, delivery>>

\* record_and_claim failed, before or after the receipt was stored: 500.
ClaimFails(h, e) ==
  /\ delivery[h].pc = "idle" /\ e \in sent
  /\ Fails
  /\ claimed' \in {claimed, claimed \cup {e}}
  /\ UNCHANGED <<repository, provider, rejected, outcomes, delivery>>

Deliver(h, e) == ClaimEvent(h, e) \/ Deduplicate(h, e)

\* Mutant: the first payment that has any reference is taken.
Concerns_AnyReference(e, p) == Distilled(e) # Absent /\ reference[p] # Null

\* The stored payment an event is about.
Concerns(e, p) == Distilled(e) # Absent /\ reference[p] = e.ref

\* Mutant: neither the kind of event nor the legality of the move is checked.
LookUp_Blind(h) ==
  /\ delivery[h].pc = "claimed"
  /\ Works
  /\ \E p \in Payment :
       /\ reference[p] = delivery[h].event.ref
       /\ delivery' = [delivery EXCEPT ![h].pc = "found", ![h].payment = p,
                                       ![h].seen = status[p]]
  /\ UNCHANGED <<repository, provider, store, outcomes>>

\* Mutant: the move is not checked against the state machine.
LookUp_Unchecked(h) ==
  LET e == delivery[h].event IN
  /\ delivery[h].pc = "claimed"
  /\ Works
  /\ \/ \E p \in Payment :
          /\ Concerns(e, p)
          /\ delivery' = [delivery EXCEPT ![h].pc = "found", ![h].payment = p,
                                          ![h].seen = status[p]]
          /\ UNCHANGED outcomes
     \/ (\A p \in Payment : ~Concerns(e, p)) /\ Conclude(h)
  /\ UNCHANGED <<repository, provider, store>>

\* find_by_provider_reference and the check of the move.  An event that is not
\* acted on, an unknown payment and an illegal move are all Ignored.
LookUp(h) ==
  LET e == delivery[h].event IN
  /\ delivery[h].pc = "claimed"
  /\ Works
  /\ \/ \E p \in Payment :
          /\ Concerns(e, p) /\ CanTransition(status[p], Distilled(e))
          /\ delivery' = [delivery EXCEPT ![h].pc = "found", ![h].payment = p,
                                          ![h].seen = status[p]]
          /\ UNCHANGED outcomes
     \/ \E p \in Payment :
          Concerns(e, p) /\ ~CanTransition(status[p], Distilled(e)) /\ Conclude(h)
     \/ (\A p \in Payment : ~Concerns(e, p)) /\ Conclude(h)
  /\ UNCHANGED <<repository, provider, store>>

\* Mutant: a conflict is answered with an error instead of Ignored.
Apply_ConflictIsError(h) ==
  LET d == delivery[h] IN
  /\ d.pc = "found" /\ Works
  /\ \/ Transition(d.payment, d.seen, Distilled(d.event), "provider_webhook") /\ Conclude(h)
     \/ TransitionConflict(d.payment, d.seen) /\ Nack(h)
  /\ UNCHANGED <<provider, store>>

\* transition: Processed, or a Conflict, which is Ignored.
Apply(h) ==
  LET d == delivery[h] IN
  /\ d.pc = "found" /\ Works
  /\ \/ Transition(d.payment, d.seen, Distilled(d.event), "provider_webhook")
     \/ TransitionConflict(d.payment, d.seen)
  /\ Conclude(h)
  /\ UNCHANGED <<provider, store>>

\* find or transition answers an error (500), or the request is dropped there.
DeliveryFails(h) ==
  LET d == delivery[h] IN
  /\ Fails
  /\ \/ d.pc = "claimed" /\ UNCHANGED repository
     \/ d.pc = "found"
        /\ TransitionFails(d.payment, d.seen, Distilled(d.event), "provider_webhook")
  /\ Nack(h)
  /\ UNCHANGED <<provider, store>>
=============================================================================
