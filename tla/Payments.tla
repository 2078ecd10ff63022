------------------------------ MODULE Payments ------------------------------
(***************************************************************************)
(* The payments context as it runs: checkouts, admin refunds, webhook      *)
(* deliveries and page reads interleave over one database and one          *)
(* provider.  Every request can fail or be dropped at each of its awaits,  *)
(* within the budget MaxFaults; a crash of the process is all of its       *)
(* requests being dropped, since nothing of theirs outlives it.            *)
(***************************************************************************)
EXTENDS Checkout, Refund, WebhookIntake, PaymentViews, FiniteSets

payments == <<repository, provider, checkouts, refund, webhooks, views, faults>>

TypeOK ==
  /\ RepositoryTypeOK /\ ProviderTypeOK /\ CheckoutTypeOK
  /\ RefundTypeOK /\ WebhookTypeOK /\ ViewsTypeOK
  /\ faults \in Nat

Init ==
  /\ RepositoryInit /\ ProviderInit /\ CheckoutInit
  /\ RefundInit /\ WebhookInit /\ ViewsInit
  /\ FaultsInit

CheckoutStep ==
  /\ \E p \in Payment :
       BeginInsert(p) \/ FinishInsert(p) \/ ObtainIntent(p) \/ LinkIntent(p) \/ AbortCheckout(p)
  /\ UNCHANGED <<refund, webhooks, views>>

ProviderStep ==
  /\ \E r \in Ref : ProviderProgress(r) \/ DashboardRefund(r)
  /\ UNCHANGED <<repository, checkouts, refund, webhooks, views, faults>>

RefundStep ==
  /\ \E a \in Admin :
       \/ \E p \in Payment : StartRefund(a, p) \/ StartRefundFails(a, p)
       \/ CallProvider(a) \/ RecordRefund(a) \/ DropRefund(a)
  /\ UNCHANGED <<checkouts, webhooks, views>>

WebhookStep ==
  /\ \/ \E e \in sent : RejectDelivery(e)
     \/ \E h \in Handler :
          \/ \E e \in sent : ClaimEvent(h, e) \/ Deduplicate(h, e) \/ ClaimFails(h, e)
          \/ LookUp(h) \/ Apply(h) \/ DeliveryFails(h)
  /\ UNCHANGED <<checkouts, refund, views>>

ViewStep ==
  /\ \E v \in Reader :
       \/ \E p \in Payment : ReadPayment(v, p)
       \/ \E q \in Query : CountPayments(v, q)
       \/ ReadHistory(v) \/ ListPayments(v)
  /\ UNCHANGED <<repository, provider, checkouts, refund, webhooks, faults>>

Next == CheckoutStep \/ ProviderStep \/ RefundStep \/ WebhookStep \/ ViewStep

Spec == Init /\ [][Next]_payments

(***************************************************************************)
(* The audit trail and the status column                                   *)
(***************************************************************************)

\* The rows of a history form one chain of legal moves from the creation.
Chained(h) ==
  \A i \in 1..Len(h) :
    IF i = 1 THEN h[i].from = Absent /\ h[i].to = "created"
             ELSE h[i].from = h[i-1].to /\ CanTransition(h[i].from, h[i].to)

\* The status column never drifts from the audit trail: the history is one
\* chain of legal moves that ends at the stored status, and only a payment
\* whose creation row was lost (InsertRow without InsertCreationRecord) has
\* none, and then it never moves.  This is what the guard of transition is for:
\* refunds and webhooks act on a status read one or two awaits earlier.
TrailMatchesStatus ==
  \A p \in Payment :
    /\ Chained(history[p])
    /\ history[p] # << >> => status[p] = history[p][Len(history[p])].to
    /\ history[p] = << >> => status[p] \in {Absent, "created"}

\* How far a checkout is tells which rows exist; only a payment whose creation
\* row was written can get a reference, and so be found by a webhook or refunded.
CreationOrder ==
  \A p \in Payment :
    /\ checkout[p] = "new" => status[p] = Absent
    /\ checkout[p] = "inserting" => status[p] = "created" /\ history[p] = << >>
    /\ checkout[p] \in {"inserted", "linking", "linked"} => history[p] # << >>
    /\ checkout[p] = "linking" => intentFor[p] \in Ref
    /\ status[p] = Absent => history[p] = << >>
    /\ reference[p] # Null => history[p] # << >>

\* A refund past its checks: the status it read allows the move it will record.
RefundsChecked ==
  \A a \in Admin :
    refund[a].pc # "idle" =>
      /\ refund[a].payment \in Payment /\ refund[a].ref \in Ref
      /\ refund[a].seen \in Refundable
      /\ history[refund[a].payment] # << >>
      /\ refund[a].pc = "recording" => CanTransition(refund[a].seen, refund[a].reply)

\* A delivery past its checks, likewise.
DeliveriesChecked ==
  \A h \in Handler :
    /\ delivery[h].pc # "idle" => delivery[h].event \in Event
    /\ delivery[h].pc = "found" =>
         /\ delivery[h].payment \in Payment
         /\ history[delivery[h].payment] # << >>
         /\ CanTransition(delivery[h].seen, Distilled(delivery[h].event))

\* The inductive strengthening of TypeOK and TrailMatchesStatus: the repository
\* trusts its callers for the legality of a move, so what every caller holds
\* between its reads and its write is part of the argument.
TrailInvariant ==
  TypeOK /\ TrailMatchesStatus /\ CreationOrder /\ RefundsChecked /\ DeliveriesChecked

\* The storage keeps the promise of PaymentLedger through every interleaving,
\* failure and dropped request: the creation row aside, status and trail move
\* together and legally.
Ledger == INSTANCE PaymentLedger WITH
  trail <- [p \in Payment |-> IF history[p] = << >> THEN << >> ELSE Tail(history[p])]

LedgerSpec == Ledger!Spec

(***************************************************************************)
(* The program and the provider                                            *)
(***************************************************************************)

\* The provider announced s for r, or s is a refund and it gave money back.
Backed(r, s) ==
  \/ \E e \in sent : e.ref = r /\ Distilled(e) = s
  \/ s \in Refundable \cup {"refunded"} /\ s # "captured" /\ refunded[r] > 0

\* The stored status is never ahead of the provider: it is `created`, or the
\* provider has announced it, or it is a refund of which the provider has given
\* back at least a part.
NeverAheadOfProvider ==
  \A p \in Payment :
    status[p] \notin {Absent, "created"} =>
      reference[p] # Null /\ Backed(reference[p], status[p])

AdminRefundsOf(p) == {i \in DOMAIN history[p] : history[p][i].reason = "admin_refund"}

\* Money behind every line: a request that holds the answer "ok" has its own
\* admin_refund row, and each such row stands for the full amount given back by
\* the provider, however refunds, dashboard refunds and webhooks interleave and
\* whichever answers are lost.
OkHolders(p) == {a \in Admin : refund[a].payment = p /\ refund[a].answer = "ok"}

RefundsAreBacked ==
  \A p \in Payment :
    /\ Cardinality(OkHolders(p)) <= Cardinality(AdminRefundsOf(p))
    /\ AdminRefundsOf(p) # {} =>
         Cardinality(AdminRefundsOf(p)) * Amount[p] <= refunded[reference[p]]

\* Money that an admin's refund gave back does not go unseen.  The request may be
\* answered with an error all the same: with a conflict (which HTTP reports as the
\* very 409 of an early refusal), if another refund or the webhook of this very
\* refund came first, but then the payment shows a refund;
\* with any other error only if a call failed.  No refund that was made is refused
\* as not found or not refundable: the late check of the provider's reply never
\* fires, whatever was stored since the status was read.
MovedMoneyShows ==
  \A a \in Admin :
    refund[a].pc = "idle" /\ refund[a].moved =>
      \/ refund[a].answer \in {"ok", "conflict"}
         /\ status[refund[a].payment] \in {"partially_refunded", "refunded"}
      \/ refund[a].answer \in {"rejected", "unavailable", "backend", "none"} /\ faults > 0

\* Every 2xx has a receipt, and every change a webhook made has the accepted
\* receipt of an event that reports that change for that payment.
ReceiptsPrecedeEffects ==
  /\ acked \subseteq claimed
  /\ \A p \in Payment : \A i \in DOMAIN history[p] :
       history[p][i].reason = "provider_webhook" =>
         \E e \in claimed : e.ref = reference[p] /\ Distilled(e) = history[p][i].to

\* A 2xx, Duplicate included, is answered only for an event that some delivery
\* brought to its end or is still working on: acknowledging it loses nothing.
AcknowledgedIsConcluded ==
  \A e \in acked : e \in concluded \/ \E h \in Handler : delivery[h].event = e

\* As long as nothing has failed, acknowledging an event loses nothing, rejected
\* and duplicate deliveries and lost races for the row included.
AcknowledgedUnlessFailed == faults = 0 => AcknowledgedIsConcluded

(***************************************************************************)
(* The pages                                                               *)
(***************************************************************************)

\* The detail page never shows a status that its history does not mention:
\* the history is read second, so it can only be newer.
DetailExplainsStatus ==
  [][\A v \in Reader :
       detail[v].pc = "half" /\ detail'[v].pc = "idle" =>
         \/ \E i \in DOMAIN Shown(v) : Shown(v)[i].to = detail[v].status
         \/ Shown(v) = << >> /\ detail[v].status = "created"]_payments

\* Statuses that a payment never leaves; Absent is a query for any status.
Lasting == Terminal \cup {Absent}

\* What the list's comment promises of its two reads: payments that come in
\* between only ever make the total an undercount, so a page that is not full is
\* the last one the total promises.  It holds of the whole list and of filters
\* for a final status; a payment can leave any other status between the reads.
TotalsUndercount ==
  [][\A v \in Reader :
       listing[v].pc = "half" /\ listing'[v].pc = "idle" =>
         LET q == listing[v].query IN
         q.status \in Lasting /\ PageSize(q) < Limit(q) =>
           listing[v].total <= q.offset + PageSize(q)]_payments

(***************************************************************************)
(* Progress                                                                *)
(***************************************************************************)

\* The provider redelivers an event until it is acknowledged, and a request
\* that is running makes its next call.  Handlers stand for unbounded request
\* tasks, so an event waits for a free one only because the model has few:
\* hence the strong fairness.
Redeliver(e) == WebhookStep /\ e \notin acked /\ \E h \in Handler : Deliver(h, e)

Progress ==
  /\ \A h \in Handler : WF_payments(WebhookStep /\ (LookUp(h) \/ Apply(h)))
  /\ \A a \in Admin : WF_payments(RefundStep /\ (CallProvider(a) \/ RecordRefund(a)))

FairSpec == Spec /\ Progress /\ \A e \in Emittable : SF_payments(Redeliver(e))

\* The provider stops retrying: every event is acknowledged in the end, with
\* whatever failures come before.
EventsAreAcknowledged == \A e \in Emittable : e \in sent ~> e \in acked

\* What WebhookOutcome::Error promises of a 500, and the README of the retries: an
\* event whose move was found to be legal is processed in the end, or its payment
\* has moved past it, whatever failures come before.
RetriesApply ==
  \A e \in Emittable : \A p \in Payment :
    (\E h \in Handler : delivery[h].pc = "found" /\ delivery[h].event = e
                          /\ delivery[h].payment = p)
      ~> e \in concluded \/ ~CanTransition(status[p], Distilled(e))

\* The status of the provider's last event, as the program reads it: a refund is
\* a full one, whatever was given back.
LastWord(r) == IF refunded[r] = 0 THEN intent[r] ELSE "refunded"

\* The stored status settles on what the provider reported last.  A partial
\* refund by an admin races with its own event, and if it wins between the
\* event's look-up and its UPDATE, the event is dropped: then the status stays
\* partially_refunded, and only if that is what is true.
InSync(p) ==
  LET r == reference[p] IN
  checkout[p] = "linked" =>
    \/ status[p] = LastWord(r)
    \/ status[p] = "partially_refunded" /\ AdminRefundsOf(p) # {}
       /\ refunded[r] \in 1 .. IntentAmount[r] - 1
SettlesInSync == <>[](\A p \in Payment : InSync(p))

\* The orderly provider: an event is first delivered when its payment is linked
\* and the intent's earlier events have been dealt with.
Orderly ==
  \A e \in claimed' \ claimed :
    /\ \E p \in Payment : reference[p] = e.ref
    /\ \A f \in sent : f.ref = e.ref /\ EmittedBefore(f, e) => f \in concluded

OrderlySpec ==
  /\ Init /\ [][Next /\ Orderly]_payments
  /\ Progress /\ \A e \in Emittable : SF_payments(Redeliver(e) /\ Orderly)
=============================================================================
