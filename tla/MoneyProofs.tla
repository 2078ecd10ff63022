----------------------------- MODULE MoneyProofs -----------------------------
(***************************************************************************)
(* The program and the provider, for every number of payments, intents,    *)
(* requests and faults: what is stored and acknowledged is backed by what  *)
(* the provider did and said.                                              *)
(***************************************************************************)
EXTENDS PaymentsProofs

\* Only the end of a checkout gives a payment its reference.
UnlinkedUntilDone ==
  \A p \in Payment :
    checkout[p] \in {"new", "inserting", "inserted", "linking"} => reference[p] = Null

\* A refund past its checks holds the payment's reference, and one with a reply
\* has moved money.
RefundsLinked ==
  \A a \in Admin :
    /\ refund[a].pc # "idle" => refund[a].ref = reference[refund[a].payment]
    /\ refund[a].pc = "recording" =>
         refund[a].reply \in {"partially_refunded", "refunded"} /\ refunded[refund[a].ref] > 0

\* Nobody is answered while the request runs.
Unanswered == \A a \in Admin : refund[a].pc # "idle" => refund[a].answer = "none"

\* A delivery under way has its receipt, and one past its look-up has found the
\* payment of its event.
DeliveriesLinked ==
  \A h \in Handler :
    /\ delivery[h].pc # "idle" => delivery[h].event \in sent \cap claimed
    /\ delivery[h].pc = "found" => reference[delivery[h].payment] = delivery[h].event.ref

\* What the requests hold, and what the tables show for it.
Holdings == UnlinkedUntilDone /\ RefundsLinked /\ Unanswered /\ DeliveriesLinked

\* A request that has called nothing has moved nothing, and one that moved money
\* has its payment.
MovedKnown ==
  \A a \in Admin :
    /\ refund[a].pc = "calling" => ~refund[a].moved
    /\ refund[a].moved => refund[a].payment \in Payment

GivenBack == {"partially_refunded", "refunded"}

\* What a request has read still stands, or a refund has come in between.
SeenStands ==
  \A a \in Admin :
    refund[a].pc # "idle" => status[refund[a].payment] \in GivenBack \cup {refund[a].seen}

MoneyInvariant ==
  /\ Holdings /\ MovedKnown /\ SeenStands
  /\ NeverAheadOfProvider /\ MovedMoneyShows /\ ReceiptsPrecedeEffects

(***************************************************************************)
(* What only grows                                                         *)
(***************************************************************************)

ReferencesStay == \A p \in Payment : reference[p] # Null => reference'[p] = reference[p]
ProviderGrows == sent \subseteq sent' /\ \A r \in Ref : refunded[r] <= refunded'[r]

\* The provider takes nothing back.
LEMMA MoneyGrows ==
  ASSUME ProviderTypeOK, NEW r \in Ref, NEW amount \in Nat, MoveMoney(r, amount)
  PROVE  ProviderGrows
BY DEF MoveMoney, ProviderTypeOK, ProviderGrows

\* A step that leaves the provider alone, likewise.
LEMMA IdleProviderGrows ==
  ASSUME ProviderTypeOK, UNCHANGED provider
  PROVE  ProviderGrows
BY DEF provider, ProviderTypeOK, ProviderGrows

\* An intent that moves gives no money back.
LEMMA ReachGrows ==
  ASSUME ProviderTypeOK, NEW r \in Ref, NEW s, Reach(r, s)
  PROVE  ProviderGrows
BY DEF Reach, ProviderTypeOK, ProviderGrows

\* A set reference stays, the provider forgets nothing, receipts are kept.
LEMMA StepsGrow ==
  ASSUME TrailInvariant, UnlinkedUntilDone, [Next]_payments
  PROVE  ReferencesStay /\ ProviderGrows /\ claimed \subseteq claimed'
<1>1. ProviderTypeOK /\ RefundsChecked
  BY DEF TrailInvariant, TypeOK
<1>2. CASE CheckoutStep
  <2>1. PICK p \in Payment :
          BeginInsert(p) \/ FinishInsert(p) \/ ObtainIntent(p) \/ LinkIntent(p) \/ AbortCheckout(p)
    BY <1>2 DEF CheckoutStep
  <2>2. UNCHANGED reference \/ (checkout[p] = "linking" /\ SetReference(p, intentFor[p]))
    BY <2>1 DEF BeginInsert, FinishInsert, ObtainIntent, LinkIntent, AbortCheckout, Goto,
                InsertRow, InsertCreationRecord, repository
  <2>3. ReferencesStay
    BY <2>2 DEF UnlinkedUntilDone, ReferencesStay, SetReference, TrailInvariant, TypeOK,
                RepositoryTypeOK
  <2>4. UNCHANGED provider \/ \E r \in Ref : Reach(r, "created")
    BY <2>1 DEF BeginInsert, FinishInsert, ObtainIntent, LinkIntent, AbortCheckout, CreateIntent
  <2>5. ProviderGrows
    BY <2>4, <1>1, IdleProviderGrows, ReachGrows
  <2>6. QED BY <1>2, <2>3, <2>5 DEF CheckoutStep, webhooks, store
<1>3. CASE ProviderStep
  <2>1. PICK r \in Ref : ProviderProgress(r) \/ DashboardRefund(r)
    BY <1>3 DEF ProviderStep
  <2>2. ASSUME ProviderProgress(r) PROVE ProviderGrows
    <3>1. PICK s \in Status : Reach(r, s)
      BY <2>2 DEF ProviderProgress
    <3>2. QED BY <3>1, <1>1, ReachGrows
  <2>3. ASSUME DashboardRefund(r) PROVE ProviderGrows
    <3>1. PICK amount \in Nat : MoveMoney(r, amount)
      BY <2>3, PaymentAssumption DEF DashboardRefund
    <3>2. QED BY <3>1, <1>1, MoneyGrows
  <2>4. QED BY <1>3, <2>1, <2>2, <2>3 DEF ProviderStep, repository, webhooks, store, ReferencesStay
<1>4. CASE RefundStep
  <2>1. PICK a \in Admin :
          \/ \E p \in Payment : StartRefund(a, p) \/ StartRefundFails(a, p)
          \/ CallProvider(a) \/ RecordRefund(a) \/ DropRefund(a)
    BY <1>4 DEF RefundStep
  <2>2. UNCHANGED reference
    BY <2>1 DEF StartRefund, StartRefundFails, CallProvider, RecordRefund, DropRefund,
                TransitionConflict, TransitionFails, Transition, repository
  <2>3. \/ UNCHANGED provider
        \/ refund[a].pc # "idle" /\ MoveMoney(refund[a].ref, Amount[refund[a].payment])
    BY <2>1 DEF StartRefund, StartRefundFails, CallProvider, RecordRefund, DropRefund
  <2>4. ProviderGrows
    <3>1. refund[a].pc # "idle" => refund[a].ref \in Ref /\ Amount[refund[a].payment] \in Nat
      BY <1>1, PaymentAssumption DEF RefundsChecked
    <3>2. QED BY <2>3, <3>1, <1>1, IdleProviderGrows, MoneyGrows
  <2>5. QED BY <1>4, <2>2, <2>4 DEF RefundStep, webhooks, store, ReferencesStay
<1>5. CASE WebhookStep
  <2>1. UNCHANGED provider /\ UNCHANGED reference /\ claimed \subseteq claimed'
    BY <1>5 DEF WebhookStep, RejectDelivery, ClaimEvent, Deduplicate, ClaimFails, LookUp, Apply,
                DeliveryFails, TransitionConflict, TransitionFails, Transition, repository, store
  <2>2. QED BY <2>1, <1>1, IdleProviderGrows DEF ReferencesStay
<1>6. CASE ViewStep \/ UNCHANGED payments
  BY <1>1, <1>6, IdleProviderGrows DEF ViewStep, payments, repository, webhooks, store, ReferencesStay
<1>7. QED BY <1>2, <1>3, <1>4, <1>5, <1>6 DEF Next

(***************************************************************************)
(* What a step may write, and on whose behalf                              *)
(***************************************************************************)

RefundMoves(a) ==
  /\ refund[a].pc = "recording"
  /\ Transition(refund[a].payment, refund[a].seen, refund[a].reply, "admin_refund")

DeliveryMoves(h) ==
  /\ delivery[h].pc = "found"
  /\ Transition(delivery[h].payment, delivery[h].seen, Distilled(delivery[h].event), "provider_webhook")

MoneyStep ==
  \/ UNCHANGED <<status, history>>
  \/ \E p \in Payment : InsertRow(p)
  \/ \E p \in Payment : history[p] = << >> /\ InsertCreationRecord(p)
  \/ \E a \in Admin : RefundMoves(a)
  \/ \E h \in Handler : DeliveryMoves(h)

\* Every move is made for a refund with a reply or for a delivery that was looked up.
LEMMA EveryMoveIsHeld ==
  ASSUME TrailInvariant, [Next]_payments
  PROVE  MoneyStep
<1>1. CASE CheckoutStep
  <2>1. PICK p \in Payment :
          BeginInsert(p) \/ FinishInsert(p) \/ ObtainIntent(p) \/ LinkIntent(p) \/ AbortCheckout(p)
    BY <1>1 DEF CheckoutStep
  <2>2. \/ UNCHANGED <<status, history>>
        \/ InsertRow(p)
        \/ checkout[p] = "inserting" /\ InsertCreationRecord(p)
    BY <2>1 DEF BeginInsert, FinishInsert, ObtainIntent, LinkIntent, AbortCheckout, Goto,
                SetReference, repository
  <2>3. checkout[p] = "inserting" => history[p] = << >>
    BY DEF TrailInvariant, CreationOrder
  <2>4. QED BY <2>2, <2>3 DEF MoneyStep
<1>2. CASE RefundStep
  <2>1. PICK a \in Admin :
          \/ \E p \in Payment : StartRefund(a, p) \/ StartRefundFails(a, p)
          \/ CallProvider(a) \/ RecordRefund(a) \/ DropRefund(a)
    BY <1>2 DEF RefundStep
  <2>2. UNCHANGED repository \/ RefundMoves(a)
    BY <2>1 DEF StartRefund, StartRefundFails, CallProvider, RecordRefund, DropRefund,
                TransitionConflict, TransitionFails, RefundMoves
  <2>3. QED BY <2>2 DEF MoneyStep, repository
<1>3. CASE WebhookStep
  <2>1. UNCHANGED repository \/ (\E h \in Handler : Apply(h) \/ DeliveryFails(h))
    BY <1>3 DEF WebhookStep, RejectDelivery, ClaimEvent, Deduplicate, ClaimFails, LookUp
  <2>2. ASSUME NEW h \in Handler, Apply(h) \/ DeliveryFails(h)
        PROVE  UNCHANGED repository \/ DeliveryMoves(h)
    BY <2>2 DEF Apply, DeliveryFails, TransitionConflict, TransitionFails, DeliveryMoves
  <2>3. QED BY <2>1, <2>2 DEF MoneyStep, repository
<1>4. CASE ProviderStep \/ ViewStep \/ UNCHANGED payments
  BY <1>4 DEF ProviderStep, ViewStep, payments, repository, MoneyStep
<1>5. QED BY <1>1, <1>2, <1>3, <1>4 DEF Next

\* What the provider backed stays backed.
LEMMA BackedStays ==
  ASSUME TypeOK, TypeOK', ProviderGrows, NEW r \in Ref, NEW s, Backed(r, s)
  PROVE  Backed(r, s)'
<1>1. \A e \in sent : e \in sent'
  BY DEF ProviderGrows
<1>2. refunded[r] > 0 => refunded'[r] > 0
  BY DEF ProviderGrows, TypeOK, ProviderTypeOK
<1>3. QED BY <1>1, <1>2 DEF Backed

\* A payment whose status stays is no further ahead than before.
LEMMA BehindStays ==
  ASSUME TypeOK, TypeOK', ReferencesStay, ProviderGrows, NEW p \in Payment, status'[p] = status[p],
         status[p] \notin {Absent, "created"} => reference[p] # Null /\ Backed(reference[p], status[p]),
         status[p] \notin {Absent, "created"}
  PROVE  reference'[p] # Null /\ Backed(reference[p], status[p])'
<1>1. PICK r, s : r = reference[p] /\ s = status[p]
  OBVIOUS
<1>2. r \in Ref /\ Backed(r, s)
  BY <1>1 DEF TypeOK, RepositoryTypeOK
<1>3. Backed(r, s)'
  BY <1>2, BackedStays
<1>4. reference'[p] = r /\ status'[p] = s
  BY <1>1 DEF ReferencesStay
<1>5. QED BY <1>2, <1>3, <1>4, PaymentAssumption DEF Backed

\* The stored status stays behind the provider.
LEMMA BackingKept ==
  ASSUME TrailInvariant, TrailInvariant', Holdings, NeverAheadOfProvider,
         ReferencesStay, ProviderGrows, MoneyStep
  PROVE  NeverAheadOfProvider'
<1>1. /\ TypeOK /\ TypeOK' /\ RefundsChecked /\ DeliveriesChecked
      /\ status \in [Payment -> Status \cup {Absent}]
  BY DEF TrailInvariant, TypeOK, RepositoryTypeOK
<1>2. SUFFICES ASSUME NEW p \in Payment, status'[p] \notin {Absent, "created"}
               PROVE  reference'[p] # Null /\ Backed(reference[p], status[p])'
  BY DEF NeverAheadOfProvider
<1>3. CASE status'[p] = status[p]
  BY <1>1, <1>2, <1>3, BehindStays DEF NeverAheadOfProvider
<1>4. ASSUME status'[p] # status[p], NEW a \in Admin, RefundMoves(a)
      PROVE  reference'[p] # Null /\ Backed(reference[p], status[p])'
  <2>1. p = refund[a].payment /\ status'[p] = refund[a].reply
    BY <1>1, <1>4 DEF RefundMoves, Transition
  <2>2. PICK r \in Ref : r = refund[a].ref /\ r = reference[p] /\ refunded[r] > 0
    BY <1>1, <1>4, <2>1 DEF RefundMoves, RefundsChecked, Holdings, RefundsLinked
  <2>3. refunded'[r] > 0
    BY <2>2, <1>1 DEF ProviderGrows, TypeOK, ProviderTypeOK
  <2>4. status'[p] \in {"partially_refunded", "refunded"}
    BY <1>4, <2>1 DEF RefundMoves, Holdings, RefundsLinked
  <2>5. reference'[p] = r /\ r # Null
    BY <2>2, PaymentAssumption DEF ReferencesStay
  <2>6. QED BY <2>3, <2>4, <2>5 DEF Backed, Refundable
<1>5. ASSUME status'[p] # status[p], NEW h \in Handler, DeliveryMoves(h)
      PROVE  reference'[p] # Null /\ Backed(reference[p], status[p])'
  <2>1. p = delivery[h].payment /\ status'[p] = Distilled(delivery[h].event)
    BY <1>1, <1>5 DEF DeliveryMoves, Transition
  <2>2. PICK e \in sent : e = delivery[h].event /\ e \in Event /\ e.ref = reference[p]
    BY <1>1, <1>5, <2>1 DEF DeliveryMoves, DeliveriesChecked, Holdings, DeliveriesLinked
  <2>3. e \in sent' /\ Distilled(e) = status'[p]
    BY <2>1, <2>2 DEF ProviderGrows
  <2>4. reference'[p] = e.ref /\ e.ref # Null
    BY <2>2, PaymentAssumption DEF ReferencesStay, Event
  <2>5. QED BY <2>3, <2>4 DEF Backed
<1>6. CASE (\E q \in Payment : InsertRow(q)) \/ (\E q \in Payment : InsertCreationRecord(q))
  BY <1>1, <1>2, <1>3, <1>6 DEF InsertRow, InsertCreationRecord
<1>7. QED BY <1>3, <1>4, <1>5, <1>6 DEF MoneyStep

(***************************************************************************)
(* Receipts                                                                *)
(***************************************************************************)

\* A change a webhook made has the receipt of an event that reports it.
Receipted(p) ==
  \A i \in DOMAIN history[p] :
    history[p][i].reason = "provider_webhook" =>
      \E e \in claimed : e.ref = reference[p] /\ Distilled(e) = history[p][i].to

\* Whatever is added to a history, its webhook rows stay receipted if the new
\* row is.
LEMMA ReceiptsGrow ==
  ASSUME TypeOK, TypeOK', ReferencesStay, claimed \subseteq claimed', NEW p \in Payment, Receipted(p),
         NEW row \in Entry, history'[p] = Append(history[p], row),
         row.reason = "provider_webhook" =>
           \E e \in claimed' : e.ref = reference'[p] /\ Distilled(e) = row.to
  PROVE  Receipted(p)'
<1>1. history[p] \in Seq(Entry) /\ claimed \subseteq Event /\ claimed' \subseteq Event
  BY DEF TypeOK, RepositoryTypeOK, WebhookTypeOK
<1>2. SUFFICES ASSUME NEW i \in DOMAIN history'[p], history'[p][i].reason = "provider_webhook"
               PROVE  \E e \in claimed' : e.ref = reference'[p] /\ Distilled(e) = history'[p][i].to
  BY DEF Receipted
<1>3. CASE i \in DOMAIN history[p]
  <2>1. history'[p][i] = history[p][i]
    BY <1>1, <1>3
  <2>2. PICK e \in claimed : e.ref = reference[p] /\ Distilled(e) = history[p][i].to
    BY <1>2, <1>3, <2>1 DEF Receipted
  <2>3. reference'[p] = reference[p]
    BY <1>1, <2>2, PaymentAssumption DEF ReferencesStay, Event
  <2>4. QED BY <2>1, <2>2, <2>3
<1>4. CASE i \notin DOMAIN history[p]
  <2>1. i = Len(history[p]) + 1
    BY <1>1, <1>4
  <2>2. history'[p][i] = row
    BY <1>1, <2>1
  <2>3. QED BY <1>2, <2>2
<1>5. QED BY <1>3, <1>4

\* A history that stays, stays receipted.
LEMMA ReceiptsStay ==
  ASSUME TypeOK, ReferencesStay, claimed \subseteq claimed', NEW p \in Payment, Receipted(p),
         history'[p] = history[p]
  PROVE  Receipted(p)'
<1>1. \A e \in claimed : e.ref # Null
  BY PaymentAssumption DEF TypeOK, WebhookTypeOK, Event
<1>2. QED BY <1>1 DEF Receipted, ReferencesStay

\* Every webhook row keeps a receipt, and a new one has it.
LEMMA ReceiptsKept ==
  ASSUME TrailInvariant, TrailInvariant', Holdings, ReceiptsPrecedeEffects,
         ReferencesStay, claimed \subseteq claimed', MoneyStep, NEW p \in Payment
  PROVE  Receipted(p)'
<1>1. /\ TypeOK /\ TypeOK' /\ RefundsChecked /\ DeliveriesChecked
      /\ history \in [Payment -> Seq(Entry)] /\ Receipted(p)
  BY DEF TrailInvariant, TypeOK, RepositoryTypeOK, ReceiptsPrecedeEffects, Receipted
<1>2. CASE history'[p] = history[p]
  BY <1>1, <1>2, ReceiptsStay
<1>3. ASSUME history'[p] # history[p], NEW q \in Payment, InsertCreationRecord(q)
      PROVE  Receipted(p)'
  <2> DEFINE row == [from |-> Absent, to |-> "created", reason |-> "none"]
  <2>1. history'[p] = Append(history[p], row)
    BY <1>1, <1>3 DEF InsertCreationRecord, Record
  <2>2. row \in Entry /\ row.reason # "provider_webhook"
    BY DEF Entry, Status, Reason
  <2>3. QED BY <1>1, <2>1, <2>2, ReceiptsGrow
<1>4. ASSUME history'[p] # history[p], NEW a \in Admin, RefundMoves(a)
      PROVE  Receipted(p)'
  <2> DEFINE row == [from |-> refund[a].seen, to |-> refund[a].reply, reason |-> "admin_refund"]
  <2>1. history'[p] = Append(history[p], row)
    BY <1>1, <1>4 DEF RefundMoves, Transition, Record
  <2>2. CanTransition(refund[a].seen, refund[a].reply)
    BY <1>1, <1>4 DEF RefundMoves, RefundsChecked
  <2>3. row \in Entry /\ row.reason # "provider_webhook"
    BY <2>2, LegalMove DEF Entry, Reason
  <2>4. QED BY <1>1, <2>1, <2>3, ReceiptsGrow
<1>5. ASSUME history'[p] # history[p], NEW h \in Handler, DeliveryMoves(h)
      PROVE  Receipted(p)'
  <2> DEFINE e == delivery[h].event
  <2> DEFINE row == [from |-> delivery[h].seen, to |-> Distilled(e), reason |-> "provider_webhook"]
  <2>1. p = delivery[h].payment /\ history'[p] = Append(history[p], row)
    BY <1>1, <1>5 DEF DeliveryMoves, Transition, Record
  <2>2. CanTransition(delivery[h].seen, Distilled(e)) /\ e \in Event
    BY <1>1, <1>5 DEF DeliveryMoves, DeliveriesChecked
  <2>3. row \in Entry
    BY <2>2, LegalMove DEF Entry, Reason
  <2>4. e \in claimed' /\ e.ref = reference'[p]
    BY <1>5, <2>1, <2>2, PaymentAssumption
       DEF DeliveryMoves, Holdings, DeliveriesLinked, ReferencesStay, Event
  <2>5. QED BY <1>1, <2>1, <2>3, <2>4, ReceiptsGrow
<1>6. CASE \E q \in Payment : InsertRow(q)
  BY <1>2, <1>6 DEF InsertRow
<1>7. QED BY <1>2, <1>3, <1>4, <1>5, <1>6 DEF MoneyStep

(***************************************************************************)
(* What the requests hold                                                  *)
(***************************************************************************)

\* A reference is set by the step that ends its checkout.
LEMMA UnlinkedKept ==
  ASSUME TrailInvariant, UnlinkedUntilDone, [Next]_payments
  PROVE  UnlinkedUntilDone'
<1>1. TypeOK
  BY DEF TrailInvariant
<1>2. CASE CheckoutStep
  <2>1. PICK p \in Payment :
          BeginInsert(p) \/ FinishInsert(p) \/ ObtainIntent(p) \/ LinkIntent(p) \/ AbortCheckout(p)
    BY <1>2 DEF CheckoutStep
  <2>2. \/ /\ UNCHANGED reference
           /\ \E to \in {"inserting", "inserted", "linking", "aborted"} :
                checkout[p] \in {"new", "inserting", "inserted", "linking"}
                  /\ checkout' = [checkout EXCEPT ![p] = to]
        \/ /\ reference' = [reference EXCEPT ![p] = intentFor[p]]
           /\ \E to \in {"linked", "aborted"} : checkout' = [checkout EXCEPT ![p] = to]
    BY <2>1 DEF BeginInsert, FinishInsert, ObtainIntent, LinkIntent, AbortCheckout, Goto,
                InsertRow, InsertCreationRecord, SetReference, repository
  <2>3. QED BY <1>1, <2>2 DEF UnlinkedUntilDone, TypeOK, RepositoryTypeOK, CheckoutTypeOK
<1>3. ASSUME UNCHANGED <<reference, checkout>> PROVE UnlinkedUntilDone'
  BY <1>3 DEF UnlinkedUntilDone
<1>4. ProviderStep \/ ViewStep \/ UNCHANGED payments => UNCHANGED <<reference, checkout>>
  BY DEF ProviderStep, ViewStep, payments, repository, checkouts
<1>5. RefundStep => UNCHANGED <<reference, checkout>>
  BY DEF RefundStep, StartRefund, StartRefundFails, CallProvider, RecordRefund, DropRefund,
         TransitionConflict, TransitionFails, Transition, repository, checkouts
<1>6. WebhookStep => UNCHANGED <<reference, checkout>>
  BY DEF WebhookStep, RejectDelivery, ClaimEvent, Deduplicate, ClaimFails, LookUp, Apply,
         DeliveryFails, TransitionConflict, TransitionFails, Transition, repository, checkouts
<1>7. QED BY <1>2, <1>3, <1>4, <1>5, <1>6 DEF Next

\* A request that is not this step's keeps what it holds.
LEMMA RefundHolds ==
  ASSUME TypeOK, TypeOK', RefundsChecked, ReferencesStay, ProviderGrows,
         NEW a \in Admin, refund'[a] = refund[a],
         refund[a].pc # "idle" => refund[a].ref = reference[refund[a].payment],
         refund[a].pc = "recording" =>
           refund[a].reply \in {"partially_refunded", "refunded"} /\ refunded[refund[a].ref] > 0
  PROVE  /\ refund'[a].pc # "idle" => refund'[a].ref = reference'[refund'[a].payment]
         /\ refund'[a].pc = "recording" =>
              refund'[a].reply \in {"partially_refunded", "refunded"} /\ refunded'[refund'[a].ref] > 0
<1>1. refund[a].pc # "idle" => reference'[refund[a].payment] = reference[refund[a].payment]
  BY PaymentAssumption DEF RefundsChecked, ReferencesStay
<1>2. refund[a].pc = "recording" =>
        /\ refunded[refund[a].ref] \in Nat /\ refunded'[refund[a].ref] \in Nat
        /\ refunded[refund[a].ref] <= refunded'[refund[a].ref]
  BY DEF RefundsChecked, ProviderGrows, TypeOK, ProviderTypeOK
<1>3. refund[a].pc = "recording" => refunded'[refund[a].ref] > 0
  BY <1>2
<1>4. QED BY <1>1, <1>3

\* A refund that is answered holds nothing any more.
LEMMA AnsweredHoldsNothing ==
  ASSUME RefundTypeOK, NEW a \in Admin, NEW answer, NEW moved \in BOOLEAN,
         \/ refund' = [refund EXCEPT ![a] = AnswerWith(a, answer)]
         \/ refund' = [refund EXCEPT ![a] = [AnswerWith(a, answer) EXCEPT !.moved = moved]]
  PROVE  /\ refund'[a].pc = "idle" /\ refund'[a].answer = answer
         /\ refund'[a].payment = refund[a].payment
         /\ refund'[a].moved \in {moved, refund[a].moved}
         /\ refund' = [refund EXCEPT ![a] = AnswerWith(a, answer)] =>
              refund'[a].moved = refund[a].moved
<1>1. CASE refund' = [refund EXCEPT ![a] = AnswerWith(a, answer)]
  BY <1>1 DEF RefundTypeOK, AnswerWith, NoRefund
<1>2. CASE refund' = [refund EXCEPT ![a] = [AnswerWith(a, answer) EXCEPT !.moved = moved]]
  <2>1. /\ refund'[a].pc = "idle" /\ refund'[a].answer = answer
        /\ refund'[a].payment = refund[a].payment /\ refund'[a].moved = moved
    BY <1>2 DEF RefundTypeOK, AnswerWith, NoRefund
  <2>2. QED BY <1>1, <2>1
<1>3. QED BY <1>1, <1>2

\* The state machine has a move for whatever the provider replies.
LEMMA ReplyIsLegal ==
  ASSUME NEW seen \in Refundable, NEW amount, NEW total
  PROVE  /\ RefundReply(amount, total) \in {"partially_refunded", "refunded"}
         /\ CanTransition(seen, RefundReply(amount, total))
BY DEF Refundable, RefundReply, CanTransition

\* What comes of the call of the provider: the late check of its reply never
\* refuses, and money goes unmentioned only when something failed.
LEMMA CallOutcomes ==
  ASSUME RefundsChecked, NEW a \in Admin, CallProvider(a)
  PROVE  \/ /\ MoveMoney(refund[a].ref, Amount[refund[a].payment])
            /\ \E reply \in {"partially_refunded", "refunded"} :
                 refund' = [refund EXCEPT ![a] =
                              [@ EXCEPT !.pc = "recording", !.reply = reply, !.moved = TRUE]]
         \/ /\ Fails
            /\ \E answer \in ErrorAnswer :
                 refund' = [refund EXCEPT ![a] = [AnswerWith(a, answer) EXCEPT !.moved = TRUE]]
         \/ \E answer \in ErrorAnswer : refund' = [refund EXCEPT ![a] = AnswerWith(a, answer)]
<1> DEFINE r == refund[a].ref
<1> DEFINE amount == Amount[refund[a].payment]
<1>1. refund[a].seen \in Refundable
  BY DEF CallProvider, RefundsChecked
<1>2. ASSUME NEW total, Replied(a, RefundReply(amount, total))
      PROVE  \E reply \in {"partially_refunded", "refunded"} :
               refund' = [refund EXCEPT ![a] =
                            [@ EXCEPT !.pc = "recording", !.reply = reply, !.moved = TRUE]]
  BY <1>1, <1>2, ReplyIsLegal DEF Replied
<1>3. "rejected" \in ErrorAnswer
  BY DEF ErrorAnswer
<1>4. QED BY <1>2, <1>3 DEF CallProvider

\* Money that moved is on the provider's books.
LEMMA MovedIsPositive ==
  ASSUME ProviderTypeOK, NEW r \in Ref, NEW amount \in Nat \ {0}, MoveMoney(r, amount)
  PROVE  refunded'[r] > 0
BY DEF ProviderTypeOK, MoveMoney

\* A refund step concerns one request.
LEMMA OneRequest ==
  ASSUME RefundTypeOK, NEW a \in Admin,
         \/ \E p \in Payment : StartRefund(a, p) \/ StartRefundFails(a, p)
         \/ CallProvider(a) \/ RecordRefund(a) \/ DropRefund(a)
  PROVE  \A b \in Admin : b # a => refund'[b] = refund[b]
<1>1. CASE \E p \in Payment : StartRefund(a, p) \/ StartRefundFails(a, p)
  BY <1>1 DEF StartRefund, StartRefundFails, RefundTypeOK
<1>2. CASE CallProvider(a)
  <2>1. \/ \E total : Replied(a, RefundReply(Amount[refund[a].payment], total))
        \/ \E answer : refund' = [refund EXCEPT ![a] = [AnswerWith(a, answer) EXCEPT !.moved = TRUE]]
        \/ \E answer : refund' = [refund EXCEPT ![a] = AnswerWith(a, answer)]
    BY <1>2 DEF CallProvider
  <2>2. ASSUME NEW reply, Replied(a, reply) PROVE \A b \in Admin : b # a => refund'[b] = refund[b]
    BY <2>2 DEF Replied, RefundTypeOK
  <2>3. QED BY <2>1, <2>2 DEF RefundTypeOK
<1>3. CASE RecordRefund(a) \/ DropRefund(a)
  BY <1>3 DEF RecordRefund, DropRefund, RefundTypeOK
<1>4. QED BY <1>1, <1>2, <1>3

\* What a request holds, whatever step it takes.
LEMMA RefundsLinkedKept ==
  ASSUME TrailInvariant, TrailInvariant', RefundsLinked, Unanswered,
         ReferencesStay, ProviderGrows, [Next]_payments
  PROVE  RefundsLinked' /\ Unanswered'
<1>1. TypeOK /\ TypeOK' /\ RefundsChecked /\ RefundTypeOK /\ RefundTypeOK' /\ ProviderTypeOK
  BY DEF TrailInvariant, TypeOK
<1>2. CASE UNCHANGED refund
  BY <1>1, <1>2, RefundHolds DEF RefundsLinked, Unanswered
<1>3. ASSUME RefundStep
      PROVE  RefundsLinked' /\ Unanswered'
  <2>1. PICK a \in Admin :
          \/ \E p \in Payment : StartRefund(a, p) \/ StartRefundFails(a, p)
          \/ CallProvider(a) \/ RecordRefund(a) \/ DropRefund(a)
    BY <1>3 DEF RefundStep
  <2>2. \A b \in Admin : b # a => refund'[b] = refund[b]
    BY <1>1, <2>1, OneRequest
  <2> DEFINE Linked == /\ refund'[a].pc # "idle" => refund'[a].ref = reference'[refund'[a].payment]
                       /\ refund'[a].pc = "recording" =>
                            /\ refund'[a].reply \in {"partially_refunded", "refunded"}
                            /\ refunded'[refund'[a].ref] > 0
                       /\ refund'[a].pc # "idle" => refund'[a].answer = "none"
  <2>3. ASSUME NEW p \in Payment, StartRefund(a, p) PROVE Linked
    BY <1>1, <2>3 DEF StartRefund, RefundTypeOK, NoRefund, repository
  <2>4. ASSUME NEW p \in Payment, StartRefundFails(a, p) PROVE Linked
    BY <1>1, <2>4 DEF StartRefundFails, RefundTypeOK, NoRefund
  <2>5. ASSUME CallProvider(a) PROVE Linked
    <3> DEFINE r == refund[a].ref
    <3> DEFINE amount == Amount[refund[a].payment]
    <3>1. /\ r \in Ref /\ amount \in Nat \ {0} /\ r = reference[refund[a].payment]
          /\ UNCHANGED reference
      BY <1>1, <2>5, PaymentAssumption
         DEF CallProvider, RefundsChecked, RefundsLinked, repository
    <3>4. ASSUME MoveMoney(r, amount), NEW reply \in {"partially_refunded", "refunded"},
                 refund' = [refund EXCEPT ![a] =
                    [@ EXCEPT !.pc = "recording", !.reply = reply, !.moved = TRUE]]
          PROVE  Linked
      <4>1. refunded'[r] > 0
        BY <1>1, <3>1, <3>4, MovedIsPositive
      <4>2. /\ refund'[a].pc = "recording" /\ refund'[a].reply = reply
            /\ refund'[a].ref = r /\ refund'[a].payment = refund[a].payment
            /\ refund'[a].answer = refund[a].answer
        BY <1>1, <3>4 DEF RefundTypeOK
      <4>3. refund[a].answer = "none"
        BY <2>5 DEF CallProvider, Unanswered
      <4>4. QED BY <3>1, <4>1, <4>2, <4>3
    <3>5. ASSUME NEW answer \in ErrorAnswer,
                 \/ refund' = [refund EXCEPT ![a] = [AnswerWith(a, answer) EXCEPT !.moved = TRUE]]
                 \/ refund' = [refund EXCEPT ![a] = AnswerWith(a, answer)]
          PROVE  Linked
      <4>1. refund'[a].pc = "idle"
        BY <1>1, <3>5, AnsweredHoldsNothing
      <4>2. QED BY <4>1
    <3>6. QED BY <1>1, <2>5, <3>4, <3>5, CallOutcomes
  <2>6. ASSUME RecordRefund(a) PROVE Linked
    <3>1. \E answer \in {"ok", "conflict", "backend"} :
            refund' = [refund EXCEPT ![a] = AnswerWith(a, answer)]
      BY <2>6 DEF RecordRefund
    <3>2. refund'[a].pc = "idle" /\ refund'[a].answer \in {"ok", "conflict", "backend"}
      BY <1>1, <3>1, AnsweredHoldsNothing
    <3>3. QED BY <3>2
  <2>7. ASSUME DropRefund(a) PROVE Linked
    <3>1. \/ refund' = [refund EXCEPT ![a] = AnswerWith(a, "none")]
          \/ refund' = [refund EXCEPT ![a] = [AnswerWith(a, "none") EXCEPT !.moved = TRUE]]
      BY <2>7 DEF DropRefund
    <3>2. refund'[a].pc = "idle" /\ refund'[a].answer = "none"
      BY <1>1, <3>1, AnsweredHoldsNothing
    <3>3. QED BY <3>2
  <2>8. Linked
    BY <2>1, <2>3, <2>4, <2>5, <2>6, <2>7
  <2>9. \A b \in Admin : b # a =>
          /\ refund'[b].pc # "idle" => refund'[b].ref = reference'[refund'[b].payment]
          /\ refund'[b].pc = "recording" =>
               refund'[b].reply \in {"partially_refunded", "refunded"} /\ refunded'[refund'[b].ref] > 0
    BY <1>1, <2>2, RefundHolds DEF RefundsLinked
  <2>10. QED BY <2>2, <2>8, <2>9 DEF RefundsLinked, Unanswered
<1>4. RefundStep \/ UNCHANGED refund
  BY DEF Next, CheckoutStep, ProviderStep, WebhookStep, ViewStep, payments
<1>5. QED BY <1>2, <1>3, <1>4

\* What a delivery holds, whatever step it takes.
LEMMA DeliveriesLinkedKept ==
  ASSUME TrailInvariant, TrailInvariant', DeliveriesLinked,
         ReferencesStay, ProviderGrows, claimed \subseteq claimed', [Next]_payments
  PROVE  DeliveriesLinked'
<1>1. /\ WebhookTypeOK /\ sent \subseteq sent' /\ DeliveriesChecked
  BY DEF TrailInvariant, TypeOK, ProviderGrows
<1> DEFINE Linked(h) ==
      /\ delivery[h].pc # "idle" => delivery[h].event \in sent \cap claimed
      /\ delivery[h].pc = "found" => reference[delivery[h].payment] = delivery[h].event.ref
<1>2. ASSUME NEW h \in Handler, delivery'[h] = delivery[h]
      PROVE  Linked(h)'
  <2>1. delivery[h].pc # "idle" => delivery[h].event \in sent' \cap claimed'
    BY <1>1 DEF DeliveriesLinked
  <2>2. delivery[h].pc = "found" => reference'[delivery[h].payment] = delivery[h].event.ref
    BY <1>1, PaymentAssumption DEF DeliveriesLinked, DeliveriesChecked, ReferencesStay, Event
  <2>3. QED BY <1>2, <2>1, <2>2
<1>3. ASSUME WebhookStep PROVE DeliveriesLinked'
  <2>1. UNCHANGED reference
    BY <1>3 DEF WebhookStep, RejectDelivery, ClaimEvent, Deduplicate, ClaimFails, LookUp, Apply,
                DeliveryFails, TransitionConflict, TransitionFails, Transition, repository
  <2>2. ASSUME NEW h \in Handler, NEW e \in sent, ClaimEvent(h, e) PROVE DeliveriesLinked'
    <3>1. Linked(h)'
      BY <2>2, <1>1 DEF ClaimEvent, NoDelivery, WebhookTypeOK
    <3>2. \A g \in Handler : g # h => delivery'[g] = delivery[g]
      BY <2>2, <1>1 DEF ClaimEvent, WebhookTypeOK
    <3>3. QED BY <3>1, <3>2, <1>2 DEF DeliveriesLinked
  <2>3. ASSUME NEW h \in Handler, LookUp(h) PROVE DeliveriesLinked'
    <3>1. \A g \in Handler : g # h => delivery'[g] = delivery[g]
      BY <2>3, <1>1 DEF LookUp, Conclude, WebhookTypeOK
    <3>2. CASE Conclude(h)
      <4>1. delivery'[h].pc = "idle"
        BY <3>2, <1>1 DEF Conclude, NoDelivery, WebhookTypeOK
      <4>2. QED BY <3>1, <4>1, <1>2 DEF DeliveriesLinked
    <3>3. ASSUME NEW p \in Payment, Concerns(delivery[h].event, p),
                 delivery' = [delivery EXCEPT ![h].pc = "found", ![h].payment = p,
                                              ![h].seen = status[p]]
          PROVE  DeliveriesLinked'
      <4>1. /\ delivery'[h].event = delivery[h].event /\ delivery'[h].payment = p
            /\ delivery[h].pc # "idle"
        BY <3>3, <2>3, <1>1 DEF WebhookTypeOK, LookUp
      <4>2. Linked(h)'
        BY <4>1, <3>3, <2>1, <1>1 DEF DeliveriesLinked, Concerns
      <4>3. QED BY <3>1, <4>2, <1>2 DEF DeliveriesLinked
    <3>4. QED BY <2>3, <3>2, <3>3 DEF LookUp
  <2>4. ASSUME NEW h \in Handler, Apply(h) \/ DeliveryFails(h) PROVE DeliveriesLinked'
    <3>1. delivery' = [delivery EXCEPT ![h] = NoDelivery]
      BY <2>4 DEF Apply, DeliveryFails, Conclude, Nack
    <3>2. \A g \in Handler : g # h => delivery'[g] = delivery[g]
      BY <3>1, <1>1 DEF WebhookTypeOK
    <3>3. delivery'[h].pc = "idle"
      BY <3>1, <1>1 DEF NoDelivery, WebhookTypeOK
    <3>4. QED BY <3>2, <3>3, <1>2 DEF DeliveriesLinked
  <2>5. CASE UNCHANGED delivery
    BY <2>5, <1>2 DEF DeliveriesLinked
  <2>6. QED BY <1>3, <2>2, <2>3, <2>4, <2>5 DEF WebhookStep, RejectDelivery, Deduplicate, ClaimFails
<1>4. WebhookStep \/ UNCHANGED delivery
  BY DEF Next, CheckoutStep, ProviderStep, RefundStep, ViewStep, payments, webhooks
<1>5. CASE UNCHANGED delivery
  BY <1>5, <1>2 DEF DeliveriesLinked
<1>6. QED BY <1>3, <1>4, <1>5

\* A 2xx is only ever answered for an event with a receipt.
LEMMA AcksKept ==
  ASSUME DeliveriesLinked, acked \subseteq claimed, claimed \subseteq claimed', [Next]_payments
  PROVE  acked' \subseteq claimed'
<1>1. CASE UNCHANGED acked
  BY <1>1
<1>2. ASSUME NEW h \in Handler, delivery[h].pc # "idle", Conclude(h)
      PROVE  acked' \subseteq claimed'
  BY <1>2 DEF Conclude, DeliveriesLinked
<1>3. ASSUME NEW h \in Handler, NEW e \in sent, Deduplicate(h, e)
      PROVE  acked' \subseteq claimed'
  BY <1>3 DEF Deduplicate
<1>4. ASSUME NEW h \in Handler, LookUp(h) \/ Apply(h) \/ DeliveryFails(h)
      PROVE  UNCHANGED acked \/ (delivery[h].pc # "idle" /\ Conclude(h))
  BY <1>4 DEF LookUp, Apply, DeliveryFails, Nack, outcomes
<1>5. WebhookStep =>
        \/ UNCHANGED acked
        \/ \E h \in Handler : LookUp(h) \/ Apply(h) \/ DeliveryFails(h)
        \/ \E h \in Handler, e \in sent : Deduplicate(h, e)
  BY DEF WebhookStep, RejectDelivery, ClaimEvent, ClaimFails, outcomes
<1>6. ~WebhookStep => UNCHANGED acked
  BY DEF Next, CheckoutStep, ProviderStep, RefundStep, ViewStep, payments, webhooks, outcomes
<1>7. QED BY <1>1, <1>2, <1>3, <1>4, <1>5, <1>6

(***************************************************************************)
(* Money that was given back shows                                         *)
(***************************************************************************)

\* Each step works, or spends one fault.
LEMMA FaultsCount ==
  ASSUME [Next]_payments
  PROVE  faults' = faults \/ faults' = faults + 1
BY DEF Next, CheckoutStep, BeginInsert, FinishInsert, ObtainIntent, LinkIntent, AbortCheckout,
   ProviderStep, RefundStep, StartRefund, StartRefundFails, CallProvider, RecordRefund, DropRefund,
   WebhookStep, RejectDelivery, ClaimEvent, Deduplicate, ClaimFails, LookUp, Apply, DeliveryFails,
   ViewStep, payments, Works, Fails

\* From a status that a refund may start from, the only moves are refunds.
LEMMA RefundsStay ==
  ASSUME TrailInvariant, [Next]_payments, NEW p \in Payment,
         status[p] \in Refundable \cup GivenBack
  PROVE  status'[p] = status[p] \/ status'[p] \in GivenBack
<1>1. TablesStep /\ RepositoryTypeOK
  BY EveryStepWrites DEF TrailInvariant, TypeOK
<1>2. status[p] # Absent
  BY DEF Refundable, GivenBack, Absent
<1>3. ASSUME NEW q \in Payment, InsertRow(q) PROVE status'[p] = status[p]
  BY <1>1, <1>2, <1>3 DEF InsertRow, RepositoryTypeOK
<1>4. ASSUME NEW q \in Payment, NEW expected, NEW to, NEW why,
             CanTransition(expected, to), Transition(q, expected, to, why)
      PROVE  status'[p] = status[p] \/ status'[p] \in GivenBack
  <2>1. p = q => status[p] = expected /\ status'[p] = to
    BY <1>1, <1>4 DEF Transition, RepositoryTypeOK
  <2>2. p # q => status'[p] = status[p]
    BY <1>1, <1>4 DEF Transition, RepositoryTypeOK
  <2>3. expected \in Refundable \cup GivenBack => to \in GivenBack
    BY <1>4 DEF Refundable, GivenBack, CanTransition
  <2>4. QED BY <2>1, <2>2, <2>3
<1>5. ASSUME NEW q \in Payment, InsertCreationRecord(q) PROVE status'[p] = status[p]
  BY <1>5 DEF InsertCreationRecord
<1>6. QED BY <1>1, <1>3, <1>4, <1>5 DEF TablesStep

\* A step concerns one refund request at most.
LEMMA RequestsTurn ==
  ASSUME TrailInvariant, [Next]_payments
  PROVE  \/ UNCHANGED refund
         \/ \E a \in Admin :
              /\ \A b \in Admin : b # a => refund'[b] = refund[b]
              /\ \/ \E p \in Payment : StartRefund(a, p) \/ StartRefundFails(a, p)
                 \/ CallProvider(a) \/ RecordRefund(a) \/ DropRefund(a)
<1>1. RefundTypeOK
  BY DEF TrailInvariant, TypeOK
<1>2. ~RefundStep => UNCHANGED refund
  BY DEF Next, CheckoutStep, ProviderStep, WebhookStep, ViewStep, payments
<1>3. QED BY <1>1, <1>2, OneRequest DEF RefundStep

\* A request that starts has moved nothing, and holds what it has just read.
LEMMA StartLeaves ==
  ASSUME RefundTypeOK, NEW a \in Admin, NEW p \in Payment, StartRefund(a, p) \/ StartRefundFails(a, p)
  PROVE  /\ ~refund'[a].moved /\ UNCHANGED status
         /\ refund'[a].pc # "idle" => refund'[a].payment = p /\ refund'[a].seen = status[p]
<1>1. UNCHANGED status
  BY DEF StartRefund, StartRefundFails, repository
<1>2. CASE StartRefundFails(a, p)
  BY <1>1, <1>2 DEF StartRefundFails, RefundTypeOK, NoRefund
<1>3. CASE StartRefund(a, p)
  <2> DEFINE asked == [NoRefund EXCEPT !.payment = p, !.ref = reference[p], !.seen = status[p]]
  <2>1. CASE refund' = [refund EXCEPT ![a] = [asked EXCEPT !.pc = "calling"]]
    BY <1>1, <2>1 DEF RefundTypeOK, NoRefund
  <2>2. ASSUME NEW answer, refund' = [refund EXCEPT ![a] = [NoRefund EXCEPT !.payment = p, !.answer = answer]]
        PROVE  refund'[a].pc = "idle" /\ ~refund'[a].moved
    BY <2>2 DEF RefundTypeOK, NoRefund
  <2>3. QED BY <1>1, <1>3, <2>1, <2>2 DEF StartRefund
<1>4. QED BY <1>2, <1>3

\* A request that ends goes to idle, and its payment is the one it had.
LEMMA EndsOf ==
  ASSUME RefundTypeOK, NEW a \in Admin, RecordRefund(a) \/ DropRefund(a)
  PROVE  /\ refund[a].pc # "idle"
         /\ refund'[a].pc = "idle" /\ refund'[a].payment = refund[a].payment
<1>1. \E answer : \/ refund' = [refund EXCEPT ![a] = AnswerWith(a, answer)]
                   \/ refund' = [refund EXCEPT ![a] = [AnswerWith(a, answer) EXCEPT !.moved = TRUE]]
  BY DEF RecordRefund, DropRefund
<1>2. refund[a].pc # "idle"
  BY DEF RecordRefund, DropRefund
<1>3. QED BY <1>1, <1>2, AnsweredHoldsNothing

\* What the call of the provider leaves, field by field.
LEMMA CallLeaves ==
  ASSUME RefundTypeOK, RefundsChecked, NEW a \in Admin, CallProvider(a)
  PROVE  /\ refund[a].pc = "calling" /\ refund'[a].payment = refund[a].payment
         /\ \/ refund'[a].pc = "recording" /\ refund'[a].seen = refund[a].seen
            \/ /\ refund'[a].pc = "idle" /\ refund'[a].answer \in ErrorAnswer
               /\ refund'[a].moved = refund[a].moved \/ Fails
<1>1. refund[a].pc = "calling"
  BY DEF CallProvider
<1>2. ASSUME NEW reply,
             refund' = [refund EXCEPT ![a] =
                          [@ EXCEPT !.pc = "recording", !.reply = reply, !.moved = TRUE]]
      PROVE  /\ refund'[a].pc = "recording" /\ refund'[a].seen = refund[a].seen
             /\ refund'[a].payment = refund[a].payment
  BY <1>2 DEF RefundTypeOK
<1>3. ASSUME NEW answer \in ErrorAnswer, Fails,
             refund' = [refund EXCEPT ![a] = [AnswerWith(a, answer) EXCEPT !.moved = TRUE]]
      PROVE  /\ refund'[a].pc = "idle" /\ refund'[a].answer \in ErrorAnswer
             /\ refund'[a].payment = refund[a].payment
  BY <1>3, AnsweredHoldsNothing
<1>4. ASSUME NEW answer \in ErrorAnswer, refund' = [refund EXCEPT ![a] = AnswerWith(a, answer)]
      PROVE  /\ refund'[a].pc = "idle" /\ refund'[a].answer \in ErrorAnswer
             /\ refund'[a].payment = refund[a].payment /\ refund'[a].moved = refund[a].moved
  BY <1>4, AnsweredHoldsNothing
<1>5. QED BY <1>1, <1>2, <1>3, <1>4, CallOutcomes

\* Money only ever moves for a payment, after the call.
LEMMA MovedKnownKept ==
  ASSUME TrailInvariant, MovedKnown, [Next]_payments
  PROVE  MovedKnown'
<1>1. RefundTypeOK /\ RefundsChecked
  BY DEF TrailInvariant, TypeOK
<1>2. CASE UNCHANGED refund
  BY <1>2 DEF MovedKnown
<1>3. ASSUME NEW a \in Admin, \A b \in Admin : b # a => refund'[b] = refund[b],
             /\ refund'[a].pc = "calling" => ~refund'[a].moved
             /\ refund'[a].moved => refund'[a].payment \in Payment
      PROVE  MovedKnown'
  BY <1>3 DEF MovedKnown
<1>4. ASSUME NEW a \in Admin, NEW p \in Payment, StartRefund(a, p) \/ StartRefundFails(a, p)
      PROVE  ~refund'[a].moved
  BY <1>1, <1>4, StartLeaves
<1>5. ASSUME NEW a \in Admin, CallProvider(a) \/ RecordRefund(a) \/ DropRefund(a)
      PROVE  refund'[a].pc # "calling" /\ refund'[a].payment \in Payment
  <2>1. refund[a].pc # "idle" => refund[a].payment \in Payment
    BY <1>1 DEF RefundsChecked
  <2>2. QED BY <1>1, <1>5, <2>1, CallLeaves, EndsOf
<1>7. ASSUME NEW a \in Admin, NEW p \in Payment, StartRefund(a, p) \/ StartRefundFails(a, p),
             \A b \in Admin : b # a => refund'[b] = refund[b]
      PROVE  MovedKnown'
  BY <1>3, <1>4, <1>7
<1>6. QED BY <1>2, <1>3, <1>5, <1>7, RequestsTurn

\* What a request has read stands until a refund comes in between.
LEMMA SeenKept ==
  ASSUME TrailInvariant, SeenStands, [Next]_payments
  PROVE  SeenStands'
<1>1. RefundTypeOK /\ RefundsChecked
  BY DEF TrailInvariant, TypeOK
<1> DEFINE Stands(a) == refund[a].pc # "idle" =>
                          status[refund[a].payment] \in GivenBack \cup {refund[a].seen}
<1>2. ASSUME NEW a \in Admin, refund[a].pc # "idle",
             refund'[a].payment = refund[a].payment, refund'[a].seen = refund[a].seen
      PROVE  Stands(a)'
  <2>1. refund[a].payment \in Payment /\ refund[a].seen \in Refundable /\ Stands(a)
    BY <1>1, <1>2 DEF RefundsChecked, SeenStands
  <2>2. QED BY <1>2, <2>1, RefundsStay
<1>3. ASSUME NEW a \in Admin, refund'[a] = refund[a] PROVE Stands(a)'
  BY <1>2, <1>3
<1>4. ASSUME NEW a \in Admin, NEW p \in Payment, StartRefund(a, p) \/ StartRefundFails(a, p)
      PROVE  Stands(a)'
  BY <1>1, <1>4, StartLeaves
<1>5. ASSUME NEW a \in Admin, CallProvider(a) PROVE Stands(a)'
  BY <1>1, <1>2, <1>5, CallLeaves
<1>6. ASSUME NEW a \in Admin, RecordRefund(a) \/ DropRefund(a) PROVE Stands(a)'
  BY <1>1, <1>6, EndsOf
<1>7. \A a \in Admin : Stands(a)'
  BY <1>3, <1>4, <1>5, <1>6, RequestsTurn
<1>8. QED BY <1>7 DEF SeenStands

\* An answer to a request that moved money, whatever step it is.
LEMMA MovedShowsKept ==
  ASSUME TrailInvariant, MovedKnown, SeenStands, RefundsLinked, MovedMoneyShows, [Next]_payments
  PROVE  MovedMoneyShows'
<1>1. RefundTypeOK /\ RefundsChecked /\ RepositoryTypeOK /\ faults \in Nat
  BY DEF TrailInvariant, TypeOK
<1> DEFINE Shows(a) ==
      refund[a].pc = "idle" /\ refund[a].moved =>
        \/ refund[a].answer \in {"ok", "conflict"} /\ status[refund[a].payment] \in GivenBack
        \/ refund[a].answer \in {"rejected", "unavailable", "backend", "none"} /\ faults > 0
<1>8. Fails => faults' > 0
  BY <1>1 DEF Fails
<1>2. ASSUME NEW a \in Admin, refund'[a] = refund[a] PROVE Shows(a)'
  <2>1. faults > 0 => faults' > 0
    BY <1>1, FaultsCount
  <2>2. refund[a].moved /\ status[refund[a].payment] \in GivenBack =>
          status'[refund[a].payment] \in GivenBack
    BY RefundsStay DEF MovedKnown
  <2>3. Shows(a)
    BY DEF MovedMoneyShows, GivenBack
  <2>4. QED BY <1>2, <2>1, <2>2, <2>3
<1>3. ASSUME NEW a \in Admin, NEW p \in Payment, StartRefund(a, p) \/ StartRefundFails(a, p)
      PROVE  Shows(a)'
  BY <1>1, <1>3, StartLeaves
<1>4. ASSUME NEW a \in Admin, CallProvider(a) PROVE Shows(a)'
  <2>1. refund[a].pc = "calling" => ~refund[a].moved
    BY DEF MovedKnown
  <2>2. QED BY <1>1, <1>4, <1>8, <2>1, CallLeaves DEF ErrorAnswer
<1>5. ASSUME NEW a \in Admin, RecordRefund(a) PROVE Shows(a)'
  <2> DEFINE p == refund[a].payment
  <2>1. /\ p \in Payment /\ refund[a].pc = "recording" /\ refund[a].reply \in GivenBack
        /\ status[p] \in GivenBack \cup {refund[a].seen}
    BY <1>1, <1>5 DEF RecordRefund, RefundsChecked, RefundsLinked, SeenStands, GivenBack
  <2>2. CASE /\ Transition(p, refund[a].seen, refund[a].reply, "admin_refund")
             /\ refund' = [refund EXCEPT ![a] = AnswerWith(a, "ok")]
    <3>1. status'[p] \in GivenBack
      BY <1>1, <2>1, <2>2 DEF Transition, RepositoryTypeOK
    <3>2. refund'[a].answer = "ok" /\ refund'[a].payment = p
      BY <1>1, <2>2, AnsweredHoldsNothing
    <3>3. QED BY <3>1, <3>2
  <2>3. CASE /\ TransitionConflict(p, refund[a].seen)
             /\ refund' = [refund EXCEPT ![a] = AnswerWith(a, "conflict")]
    <3>1. status'[p] \in GivenBack
      BY <2>1, <2>3 DEF TransitionConflict, repository
    <3>2. refund'[a].answer = "conflict" /\ refund'[a].payment = p
      BY <1>1, <2>3, AnsweredHoldsNothing
    <3>3. QED BY <3>1, <3>2
  <2>4. CASE Fails /\ refund' = [refund EXCEPT ![a] = AnswerWith(a, "backend")]
    <3>1. refund'[a].answer = "backend"
      BY <1>1, <2>4, AnsweredHoldsNothing
    <3>2. QED BY <2>4, <3>1, <1>8
  <2>5. QED BY <1>5, <2>2, <2>3, <2>4 DEF RecordRefund
<1>6. ASSUME NEW a \in Admin, DropRefund(a) PROVE Shows(a)'
  <2>1. \/ refund' = [refund EXCEPT ![a] = AnswerWith(a, "none")]
        \/ refund' = [refund EXCEPT ![a] = [AnswerWith(a, "none") EXCEPT !.moved = TRUE]]
    BY <1>6 DEF DropRefund
  <2>2. refund'[a].answer = "none"
    BY <1>1, <2>1, AnsweredHoldsNothing
  <2>3. Fails
    BY <1>6 DEF DropRefund
  <2>4. QED BY <2>2, <2>3, <1>8
<1>7. \A a \in Admin : Shows(a)'
  BY <1>2, <1>3, <1>4, <1>5, <1>6, RequestsTurn
<1>9. QED BY <1>7 DEF MovedMoneyShows, GivenBack

(***************************************************************************)
(* The theorems                                                            *)
(***************************************************************************)

\* The invariant holds before anything has happened.
LEMMA MoneyInitially ==
  ASSUME Init
  PROVE  MoneyInvariant
<1>1. Holdings
  BY DEF Init, RepositoryInit, RefundInit, NoRefund, WebhookInit, NoDelivery, Holdings,
         UnlinkedUntilDone, RefundsLinked, Unanswered, DeliveriesLinked
<1>2. NeverAheadOfProvider /\ ReceiptsPrecedeEffects
  BY DEF Init, RepositoryInit, WebhookInit, NeverAheadOfProvider, ReceiptsPrecedeEffects
<1>3. MovedKnown /\ SeenStands /\ MovedMoneyShows
  BY DEF Init, RefundInit, NoRefund, MovedKnown, SeenStands, MovedMoneyShows
<1>4. QED BY <1>1, <1>2, <1>3 DEF MoneyInvariant

\* Every step keeps it.
LEMMA MoneyKept ==
  ASSUME TrailInvariant, TrailInvariant', MoneyInvariant, [Next]_payments
  PROVE  MoneyInvariant'
<1>1. ReferencesStay /\ ProviderGrows /\ claimed \subseteq claimed' /\ MoneyStep
  BY StepsGrow, EveryMoveIsHeld DEF MoneyInvariant, Holdings
<1>2. Holdings'
  BY <1>1, UnlinkedKept, RefundsLinkedKept, DeliveriesLinkedKept DEF MoneyInvariant, Holdings
<1>6. MovedKnown' /\ SeenStands' /\ MovedMoneyShows'
  BY MovedKnownKept, SeenKept, MovedShowsKept DEF MoneyInvariant, Holdings
<1>3. NeverAheadOfProvider'
  BY <1>1, BackingKept DEF MoneyInvariant
<1>4. ReceiptsPrecedeEffects'
  <2>1. \A p \in Payment : Receipted(p)'
    BY <1>1, ReceiptsKept DEF MoneyInvariant
  <2>2. acked' \subseteq claimed'
    BY <1>1, AcksKept DEF MoneyInvariant, Holdings, ReceiptsPrecedeEffects
  <2>3. QED BY <2>1, <2>2 DEF ReceiptsPrecedeEffects, Receipted
<1>5. QED BY <1>2, <1>3, <1>4, <1>6 DEF MoneyInvariant

\* The inductive invariant, for every number of payments, intents, requests and
\* faults: what each request holds, and what is stored and acknowledged for it.
THEOREM MoneyIsInvariant == Spec => []MoneyInvariant
<1>1. Init => MoneyInvariant
  BY MoneyInitially
<1>2. TrailInvariant /\ TrailInvariant' /\ MoneyInvariant /\ [Next]_payments => MoneyInvariant'
  BY MoneyKept
<1>3. QED BY <1>1, <1>2, TrailIsInvariant, PTL DEF Spec

\* The stored status is never ahead of what the provider did or announced.
THEOREM NeverAhead == Spec => []NeverAheadOfProvider
<1>1. MoneyInvariant => NeverAheadOfProvider
  BY DEF MoneyInvariant
<1>2. QED BY <1>1, MoneyIsInvariant, PTL

\* Money that an admin's refund gave back shows in the payment, or a call failed:
\* it is answered as done, or as a conflict with a refund that is on record.
THEOREM MovedMoneyAlwaysShows == Spec => []MovedMoneyShows
<1>1. MoneyInvariant => MovedMoneyShows
  BY DEF MoneyInvariant
<1>2. QED BY <1>1, MoneyIsInvariant, PTL

\* Every 2xx and every change a webhook made has the receipt of its event.
THEOREM ReceiptsComeFirst == Spec => []ReceiptsPrecedeEffects
<1>1. MoneyInvariant => ReceiptsPrecedeEffects
  BY DEF MoneyInvariant
<1>2. QED BY <1>1, MoneyIsInvariant, PTL

(***************************************************************************)
(* Acknowledgements, as long as nothing fails                              *)
(***************************************************************************)

\* Every receipt is of an event that is dealt with, or being dealt with.
HeldUnlessFailed ==
  faults = 0 =>
    \A e \in claimed : e \in concluded \/ \E h \in Handler : delivery[h].pc # "idle" /\ delivery[h].event = e

\* A receipt is only left behind by a failure.
LEMMA HeldKept ==
  ASSUME TrailInvariant, HeldUnlessFailed, [Next]_payments
  PROVE  HeldUnlessFailed'
<1>1. WebhookTypeOK /\ faults \in Nat
  BY DEF TrailInvariant, TypeOK
<1>2. CASE UNCHANGED webhooks
  <2>1. faults' = 0 => faults = 0
    <3>1. faults' \in {faults, faults + 1}
      BY <1>2 DEF Next, CheckoutStep, BeginInsert, FinishInsert, ObtainIntent, LinkIntent,
         AbortCheckout, ProviderStep, RefundStep, StartRefund, StartRefundFails, CallProvider,
         RecordRefund, DropRefund, WebhookStep, RejectDelivery, ClaimEvent, Deduplicate, ClaimFails,
         LookUp, Apply, DeliveryFails, ViewStep, payments, Works, Fails
    <3>2. QED BY <1>1, <3>1
  <2>2. QED BY <1>2, <2>1 DEF HeldUnlessFailed, webhooks, store, outcomes
<1>3. ASSUME Fails PROVE HeldUnlessFailed'
  BY <1>1, <1>3 DEF Fails, HeldUnlessFailed
<1>4. ASSUME Works, UNCHANGED <<claimed, concluded, delivery>> PROVE HeldUnlessFailed'
  BY <1>4 DEF Works, HeldUnlessFailed
<1>5. ASSUME NEW h \in Handler, delivery[h].pc # "idle", UNCHANGED claimed, Conclude(h), Works
      PROVE  HeldUnlessFailed'
  <2>1. \A g \in Handler : g # h => delivery'[g] = delivery[g]
    BY <1>1, <1>5 DEF Conclude, WebhookTypeOK
  <2>2. concluded' = concluded \cup {delivery[h].event}
    BY <1>5 DEF Conclude
  <2>3. SUFFICES ASSUME faults = 0, NEW e \in claimed, e \notin concluded'
                 PROVE  \E g \in Handler : delivery'[g].pc # "idle" /\ delivery'[g].event = e
    BY <1>5 DEF HeldUnlessFailed, Works
  <2>4. PICK g \in Handler : delivery[g].pc # "idle" /\ delivery[g].event = e
    BY <2>2, <2>3 DEF HeldUnlessFailed
  <2>5. g # h
    BY <2>2, <2>3, <2>4
  <2>6. QED BY <2>1, <2>4, <2>5
<1>6. ASSUME NEW h \in Handler, NEW e \in sent, ClaimEvent(h, e)
      PROVE  HeldUnlessFailed'
  <2>1. /\ delivery'[h].pc # "idle" /\ delivery'[h].event = e
        /\ \A g \in Handler : g # h => delivery'[g] = delivery[g]
        /\ delivery[h].pc = "idle" /\ claimed' = claimed \cup {e}
        /\ concluded' = concluded /\ faults' = faults
    BY <1>1, <1>6 DEF ClaimEvent, NoDelivery, WebhookTypeOK, outcomes, Works
  <2>2. QED BY <2>1 DEF HeldUnlessFailed
<1>7. ASSUME NEW h \in Handler, LookUp(h) PROVE HeldUnlessFailed'
  <2>1. delivery[h].pc # "idle" /\ UNCHANGED claimed /\ Works
    BY <1>7 DEF LookUp, store
  <2>2. ASSUME NEW p \in Payment,
               delivery' = [delivery EXCEPT ![h].pc = "found", ![h].payment = p, ![h].seen = status[p]],
               UNCHANGED outcomes
        PROVE  HeldUnlessFailed'
    <3>1. /\ delivery'[h].pc # "idle" /\ delivery'[h].event = delivery[h].event
          /\ \A g \in Handler : g # h => delivery'[g] = delivery[g]
      BY <1>1, <2>2 DEF WebhookTypeOK
    <3>2. \A g \in Handler :
            delivery[g].pc # "idle" => delivery'[g].pc # "idle" /\ delivery'[g].event = delivery[g].event
      BY <3>1
    <3>3. QED BY <2>1, <2>2, <3>2 DEF HeldUnlessFailed, Works, outcomes
  <2>3. QED BY <1>7, <2>1, <2>2, <1>5 DEF LookUp
<1>8. ASSUME NEW h \in Handler, Apply(h) PROVE HeldUnlessFailed'
  BY <1>8, <1>5 DEF Apply, store
<1>9. WebhookStep \/ UNCHANGED webhooks
  BY DEF Next, CheckoutStep, ProviderStep, RefundStep, ViewStep, payments
<1>10. CASE WebhookStep
  <2>1. ASSUME NEW e \in sent, RejectDelivery(e) PROVE HeldUnlessFailed'
    BY <2>1, <1>3, <1>4 DEF RejectDelivery, outcomes
  <2>2. ASSUME NEW h \in Handler, NEW e \in sent, Deduplicate(h, e) \/ ClaimFails(h, e)
        PROVE  HeldUnlessFailed'
    BY <2>2, <1>3, <1>4 DEF Deduplicate, ClaimFails, store
  <2>3. ASSUME NEW h \in Handler, DeliveryFails(h) PROVE HeldUnlessFailed'
    BY <2>3, <1>3 DEF DeliveryFails
  <2>4. QED BY <1>10, <2>1, <2>2, <2>3, <1>6, <1>7, <1>8 DEF WebhookStep
<1>11. QED BY <1>2, <1>9, <1>10

\* As long as nothing has failed, acknowledging an event loses nothing.
THEOREM AcksLoseNothing == Spec => []AcknowledgedUnlessFailed
<1>1. Init => HeldUnlessFailed
  BY DEF Init, WebhookInit, HeldUnlessFailed
<1>2. TrailInvariant /\ HeldUnlessFailed /\ [Next]_payments => HeldUnlessFailed'
  BY HeldKept
<1>3. MoneyInvariant /\ HeldUnlessFailed => AcknowledgedUnlessFailed
  BY DEF MoneyInvariant, ReceiptsPrecedeEffects, HeldUnlessFailed, AcknowledgedUnlessFailed,
         AcknowledgedIsConcluded
<1>4. QED BY <1>1, <1>2, <1>3, TrailIsInvariant, MoneyIsInvariant, PTL DEF Spec

(***************************************************************************)
(* Money behind every line                                                 *)
(***************************************************************************)

\* Twice as many lines take twice the money: what a product does.
LEMMA OneMore ==
  ASSUME NEW n \in Nat, NEW amount \in Nat
  PROVE  (n + 1) * amount = n * amount + amount
OBVIOUS

LEMMA FewerCost ==
  ASSUME NEW m \in Nat, NEW n \in Nat, NEW amount \in Nat, m <= n
  PROVE  m * amount <= n * amount
OBVIOUS

\* The requests that have moved money for p and have not recorded it yet.
Held(p) == {a \in Admin : refund[a].pc = "recording" /\ refund[a].payment = p}

\* The lines of p and the requests about to write one are paid for.
Paid(p) ==
  /\ IsFiniteSet(Held(p)) /\ IsFiniteSet(OkHolders(p)) /\ IsFiniteSet(AdminRefundsOf(p))
  /\ Cardinality(OkHolders(p)) <= Cardinality(AdminRefundsOf(p))
  /\ Held(p) \cup AdminRefundsOf(p) # {} =>
       /\ reference[p] \in Ref
       /\ (Cardinality(AdminRefundsOf(p)) + Cardinality(Held(p))) * Amount[p] <= refunded[reference[p]]

AllPaid == \A p \in Payment : Paid(p)

\* What a step may do to them: nothing that costs money, pay, or write a line.
Quiet(p) ==
  /\ Held(p)' \subseteq Held(p) /\ OkHolders(p)' \subseteq OkHolders(p)
  /\ AdminRefundsOf(p)' = AdminRefundsOf(p)

Pays(p, a) ==
  /\ Held(p)' = Held(p) \cup {a} /\ OkHolders(p)' \subseteq OkHolders(p)
  /\ AdminRefundsOf(p)' = AdminRefundsOf(p)
  /\ reference[p] \in Ref /\ reference'[p] = reference[p]
  /\ refunded'[reference[p]] = refunded[reference[p]] + Amount[p]

Records(p, a) ==
  /\ a \in Held(p)
  /\ Held(p)' = Held(p) \ {a} /\ OkHolders(p)' \subseteq OkHolders(p) \cup {a}
  /\ \E n : n \notin AdminRefundsOf(p) /\ AdminRefundsOf(p)' = AdminRefundsOf(p) \cup {n}

\* Nothing that costs money.
LEMMA QuietKeeps ==
  ASSUME TypeOK, TypeOK', ReferencesStay, ProviderGrows, NEW p \in Payment, Paid(p), Quiet(p)
  PROVE  Paid(p)'
<1> DEFINE n == Cardinality(AdminRefundsOf(p))
<1> DEFINE m == Cardinality(Held(p))
<1>1. n \in Nat /\ m \in Nat /\ Cardinality(OkHolders(p)) \in Nat
  BY FS_CardinalityType DEF Paid
<1>2. IsFiniteSet(Held(p)') /\ m' \in Nat /\ m' <= m
  BY FS_Subset, FS_CardinalityType DEF Quiet, Paid
<1>3. IsFiniteSet(OkHolders(p)') /\ Cardinality(OkHolders(p)') \in Nat
      /\ Cardinality(OkHolders(p)') <= Cardinality(OkHolders(p))
  BY FS_Subset, FS_CardinalityType DEF Quiet, Paid
<1>4. AdminRefundsOf(p)' = AdminRefundsOf(p) /\ n' = n
  BY DEF Quiet
<1>5. ASSUME Held(p)' \cup AdminRefundsOf(p)' # {}
      PROVE  reference'[p] \in Ref /\ (n' + m') * Amount[p] <= refunded'[reference'[p]]
  <2>1. Held(p) \cup AdminRefundsOf(p) # {}
    BY <1>5 DEF Quiet
  <2>2. reference[p] \in Ref /\ (n + m) * Amount[p] <= refunded[reference[p]]
    BY <2>1 DEF Paid
  <2>3. reference'[p] = reference[p]
    BY <2>2, PaymentAssumption DEF ReferencesStay
  <2>4. refunded[reference[p]] \in Nat /\ refunded'[reference[p]] \in Nat
        /\ refunded[reference[p]] <= refunded'[reference[p]]
    BY <2>2 DEF ProviderGrows, TypeOK, ProviderTypeOK
  <2>5. Amount[p] \in Nat /\ n' + m' \in Nat /\ n + m \in Nat /\ n' + m' <= n + m
    BY <1>1, <1>2, <1>4, PaymentAssumption
  <2> HIDE DEF n, m
  <2>6. (n' + m') * Amount[p] <= (n + m) * Amount[p] /\ (n' + m') * Amount[p] \in Nat
        /\ (n + m) * Amount[p] \in Nat
    BY <2>5, FewerCost
  <2>7. QED BY <2>2, <2>3, <2>4, <2>6
<1>6. IsFiniteSet(AdminRefundsOf(p)') /\ Cardinality(OkHolders(p)') <= n'
  BY <1>1, <1>3, <1>4 DEF Paid
<1>7. QED BY <1>2, <1>3, <1>5, <1>6 DEF Paid

\* A payment of one more refund.
LEMMA PaysKeeps ==
  ASSUME TypeOK, TypeOK', NEW p \in Payment, NEW a, a \notin Held(p), Paid(p), Pays(p, a)
  PROVE  Paid(p)'
<1> DEFINE n == Cardinality(AdminRefundsOf(p))
<1> DEFINE m == Cardinality(Held(p))
<1>1. n \in Nat /\ m \in Nat /\ Cardinality(OkHolders(p)) \in Nat
  BY FS_CardinalityType DEF Paid
<1>2. IsFiniteSet(Held(p)') /\ m' = m + 1
  BY FS_AddElement DEF Pays, Paid
<1>3. IsFiniteSet(OkHolders(p)') /\ Cardinality(OkHolders(p)') \in Nat
      /\ Cardinality(OkHolders(p)') <= Cardinality(OkHolders(p))
  BY FS_Subset, FS_CardinalityType DEF Pays, Paid
<1>4. AdminRefundsOf(p)' = AdminRefundsOf(p) /\ n' = n
  BY DEF Pays
<1>5. /\ reference[p] \in Ref /\ reference'[p] = reference[p]
      /\ refunded[reference[p]] \in Nat
      /\ refunded'[reference[p]] = refunded[reference[p]] + Amount[p]
      /\ Amount[p] \in Nat
  BY PaymentAssumption DEF Pays, TypeOK, ProviderTypeOK
<1>6. (n + m) * Amount[p] <= refunded[reference[p]]
  <2>1. CASE Held(p) \cup AdminRefundsOf(p) # {}
    BY <2>1 DEF Paid
  <2>2. CASE Held(p) = {} /\ AdminRefundsOf(p) = {}
    <3>1. n = 0 /\ m = 0
      BY <2>2, FS_EmptySet
    <3> HIDE DEF n, m
    <3>2. QED BY <3>1, <1>5
  <2>3. QED BY <2>1, <2>2
<1>7. (n' + m') * Amount[p] <= refunded'[reference'[p]]
  <2> HIDE DEF n, m
  <2>1. n + m \in Nat /\ n' + m' = (n + m) + 1
    BY <1>1, <1>2, <1>4
  <2>2. (n' + m') * Amount[p] = (n + m) * Amount[p] + Amount[p] /\ (n + m) * Amount[p] \in Nat
    BY <2>1, <1>5, OneMore
  <2>3. QED BY <2>2, <1>5, <1>6
<1>8. IsFiniteSet(AdminRefundsOf(p)') /\ Cardinality(OkHolders(p)') <= n'
  BY <1>1, <1>3, <1>4 DEF Paid
<1>9. QED BY <1>2, <1>3, <1>5, <1>7, <1>8 DEF Paid

\* A line written for a request that has paid.
LEMMA RecordsKeeps ==
  ASSUME TypeOK, TypeOK', ReferencesStay, ProviderGrows,
         NEW p \in Payment, NEW a, Paid(p), Records(p, a)
  PROVE  Paid(p)'
<1> DEFINE n == Cardinality(AdminRefundsOf(p))
<1> DEFINE m == Cardinality(Held(p))
<1>1. n \in Nat /\ m \in Nat /\ Cardinality(OkHolders(p)) \in Nat
  BY FS_CardinalityType DEF Paid
<1>2. IsFiniteSet(Held(p)') /\ m' = m - 1
  BY FS_RemoveElement DEF Records, Paid
<1>3. IsFiniteSet(AdminRefundsOf(p)') /\ n' = n + 1
  BY FS_AddElement DEF Records, Paid
<1>4. IsFiniteSet(OkHolders(p)') /\ Cardinality(OkHolders(p)') <= n + 1
  <2>1. IsFiniteSet(OkHolders(p) \cup {a}) /\ Cardinality(OkHolders(p) \cup {a}) \in Nat
        /\ Cardinality(OkHolders(p) \cup {a}) <= Cardinality(OkHolders(p)) + 1
    <3>1. IsFiniteSet(OkHolders(p))
      BY DEF Paid
    <3>2. /\ IsFiniteSet(OkHolders(p) \cup {a})
          /\ Cardinality(OkHolders(p) \cup {a}) =
               IF a \in OkHolders(p) THEN Cardinality(OkHolders(p)) ELSE Cardinality(OkHolders(p)) + 1
      BY <3>1, FS_AddElement
    <3>3. QED BY <1>1, <3>2
  <2>2. IsFiniteSet(OkHolders(p)') /\ Cardinality(OkHolders(p)') \in Nat
        /\ Cardinality(OkHolders(p)') <= Cardinality(OkHolders(p) \cup {a})
    BY <2>1, FS_Subset, FS_CardinalityType DEF Records
  <2>3. Cardinality(OkHolders(p)) <= n
    BY DEF Paid
  <2>4. QED BY <1>1, <2>1, <2>2, <2>3
<1>5. reference[p] \in Ref /\ (n + m) * Amount[p] <= refunded[reference[p]]
  BY DEF Paid, Records
<1>6. /\ reference'[p] = reference[p]
      /\ refunded[reference[p]] \in Nat /\ refunded'[reference[p]] \in Nat
      /\ refunded[reference[p]] <= refunded'[reference[p]]
  BY <1>5, PaymentAssumption DEF ReferencesStay, ProviderGrows, TypeOK, ProviderTypeOK
<1>7. n' + m' = n + m /\ (n + m) * Amount[p] \in Nat
  <2> HIDE DEF n, m
  <2>1. n' + m' = n + m /\ n + m \in Nat /\ Amount[p] \in Nat
    BY <1>1, <1>2, <1>3, PaymentAssumption
  <2>2. QED BY <2>1, FewerCost
<1>8. (n' + m') * Amount[p] <= refunded'[reference'[p]]
  BY <1>5, <1>6, <1>7
<1>9. QED BY <1>1, <1>2, <1>3, <1>4, <1>5, <1>6, <1>8 DEF Paid

\* The lines of a history that is added to.
LEMMA LinesAfter ==
  ASSUME NEW p \in Payment, history[p] \in Seq(Entry), NEW row \in Entry,
         history'[p] = Append(history[p], row)
  PROVE  AdminRefundsOf(p)' = IF row.reason = "admin_refund"
                              THEN AdminRefundsOf(p) \cup {Len(history[p]) + 1} ELSE AdminRefundsOf(p)
<1>1. DOMAIN history'[p] = DOMAIN history[p] \cup {Len(history[p]) + 1}
  OBVIOUS
<1>2. /\ \A i \in DOMAIN history[p] : history'[p][i] = history[p][i]
      /\ history'[p][Len(history[p]) + 1] = row
  OBVIOUS
<1>3. QED BY <1>1, <1>2 DEF AdminRefundsOf

\* A step outside the refunds costs nothing.
LEMMA OthersAreQuiet ==
  ASSUME TrailInvariant, [Next]_payments, ~RefundStep, NEW p \in Payment
  PROVE  Quiet(p)
<1>1. TypeOK /\ history \in [Payment -> Seq(Entry)] /\ DeliveriesChecked
  BY DEF TrailInvariant, TypeOK, RepositoryTypeOK
<1>2. UNCHANGED refund
  BY DEF Next, CheckoutStep, ProviderStep, WebhookStep, ViewStep, payments
<1>3. \/ history'[p] = history[p]
      \/ \E q \in Payment : InsertCreationRecord(q)
      \/ \E h \in Handler : DeliveryMoves(h)
  <2>1. CASE CheckoutStep
    <3>1. PICK q \in Payment :
            BeginInsert(q) \/ FinishInsert(q) \/ ObtainIntent(q) \/ LinkIntent(q) \/ AbortCheckout(q)
      BY <2>1 DEF CheckoutStep
    <3>2. QED BY <3>1 DEF BeginInsert, FinishInsert, ObtainIntent, LinkIntent, AbortCheckout,
                InsertRow, SetReference, repository
  <2>2. CASE WebhookStep
    <3>1. UNCHANGED repository \/ (\E h \in Handler : Apply(h) \/ DeliveryFails(h))
      BY <2>2 DEF WebhookStep, RejectDelivery, ClaimEvent, Deduplicate, ClaimFails, LookUp
    <3>2. ASSUME NEW h \in Handler, Apply(h) \/ DeliveryFails(h)
          PROVE  UNCHANGED repository \/ DeliveryMoves(h)
      BY <3>2 DEF Apply, DeliveryFails, TransitionConflict, TransitionFails, DeliveryMoves
    <3>3. QED BY <3>1, <3>2 DEF repository
  <2>3. CASE ProviderStep \/ ViewStep \/ UNCHANGED payments
    BY <2>3 DEF ProviderStep, ViewStep, payments, repository
  <2>4. QED BY <2>1, <2>2, <2>3 DEF Next
<1>4. ASSUME NEW q \in Payment, InsertCreationRecord(q), history'[p] # history[p]
      PROVE  AdminRefundsOf(p)' = AdminRefundsOf(p)
  <2> DEFINE row == [from |-> Absent, to |-> "created", reason |-> "none"]
  <2>1. history'[p] = Append(history[p], row)
    BY <1>1, <1>4 DEF InsertCreationRecord, Record
  <2>2. row \in Entry /\ row.reason # "admin_refund"
    BY DEF Entry, Status, Reason
  <2>3. QED BY <1>1, <2>1, <2>2, LinesAfter
<1>5. ASSUME NEW h \in Handler, DeliveryMoves(h), history'[p] # history[p]
      PROVE  AdminRefundsOf(p)' = AdminRefundsOf(p)
  <2> DEFINE row == [from |-> delivery[h].seen, to |-> Distilled(delivery[h].event),
                     reason |-> "provider_webhook"]
  <2>1. history'[p] = Append(history[p], row)
    BY <1>1, <1>5 DEF DeliveryMoves, Transition, Record
  <2>2. CanTransition(delivery[h].seen, Distilled(delivery[h].event))
    BY <1>1, <1>5 DEF DeliveryMoves, DeliveriesChecked
  <2>3. row \in Entry /\ row.reason # "admin_refund"
    BY <2>2, LegalMove DEF Entry, Reason
  <2>4. QED BY <1>1, <2>1, <2>3, LinesAfter
<1>6. AdminRefundsOf(p)' = AdminRefundsOf(p)
  <2>1. CASE history'[p] = history[p]
    BY <2>1 DEF AdminRefundsOf
  <2>2. QED BY <1>3, <1>4, <1>5, <2>1
<1>7. QED BY <1>2, <1>6 DEF Quiet, Held, OkHolders

\* A request that ends without a line costs nothing.
LEMMA EndsAreQuiet ==
  ASSUME TypeOK, NEW a \in Admin, NEW p \in Payment, history'[p] = history[p],
         \A b \in Admin : b # a => refund'[b] = refund[b],
         refund'[a].pc # "recording", refund'[a].answer # "ok"
  PROVE  Quiet(p)
<1>1. AdminRefundsOf(p)' = AdminRefundsOf(p)
  BY DEF AdminRefundsOf
<1>2. Held(p)' \subseteq Held(p) /\ OkHolders(p)' \subseteq OkHolders(p)
  BY DEF Held, OkHolders
<1>3. QED BY <1>1, <1>2 DEF Quiet

\* A request that writes its line.
LEMMA MovesRecord ==
  ASSUME TrailInvariant, NEW a \in Admin, NEW p \in Payment, RefundMoves(a),
         \A b \in Admin : b # a => refund'[b] = refund[b],
         refund'[a].pc # "recording", refund'[a].payment = refund[a].payment
  PROVE  IF p = refund[a].payment THEN Records(p, a) ELSE Quiet(p)
<1>1. /\ history \in [Payment -> Seq(Entry)] /\ RefundsChecked
  BY DEF TrailInvariant, TypeOK, RepositoryTypeOK
<1> DEFINE row == [from |-> refund[a].seen, to |-> refund[a].reply, reason |-> "admin_refund"]
<1>2. row \in Entry
  <2>1. CanTransition(refund[a].seen, refund[a].reply)
    BY <1>1 DEF RefundMoves, RefundsChecked
  <2>2. QED BY <2>1, LegalMove DEF Entry, Reason
<1>3. history' = [history EXCEPT ![refund[a].payment] = Append(@, row)]
  BY DEF RefundMoves, Transition, Record
<1>4. CASE p = refund[a].payment
  <2>1. history'[p] = Append(history[p], row) /\ history[p] \in Seq(Entry)
    BY <1>1, <1>3, <1>4
  <2>2. AdminRefundsOf(p)' = AdminRefundsOf(p) \cup {Len(history[p]) + 1}
    BY <1>2, <2>1, LinesAfter
  <2>3. Len(history[p]) + 1 \notin AdminRefundsOf(p)
    BY <2>1 DEF AdminRefundsOf
  <2>4. a \in Held(p) /\ Held(p)' = Held(p) \ {a} /\ OkHolders(p)' \subseteq OkHolders(p) \cup {a}
    BY <1>4 DEF Held, OkHolders, RefundMoves
  <2>5. QED BY <1>4, <2>2, <2>3, <2>4 DEF Records
<1>5. CASE p # refund[a].payment
  <2>1. history'[p] = history[p]
    BY <1>1, <1>3, <1>5
  <2>2. Held(p)' = Held(p) /\ OkHolders(p)' \subseteq OkHolders(p)
    BY <1>5 DEF Held, OkHolders
  <2>3. QED BY <1>5, <2>1, <2>2 DEF Quiet, AdminRefundsOf
<1>6. QED BY <1>4, <1>5

\* What a refund step does to the payments, one by one.
LEMMA RefundStepCosts ==
  ASSUME TrailInvariant, Holdings, RefundStep, NEW p \in Payment
  PROVE  Quiet(p) \/ \E a \in Admin : (a \notin Held(p) /\ Pays(p, a)) \/ Records(p, a)
<1>1. RefundTypeOK /\ TypeOK /\ RefundsChecked /\ ProviderTypeOK
  BY DEF TrailInvariant, TypeOK
<1>2. PICK a \in Admin :
        \/ \E q \in Payment : StartRefund(a, q) \/ StartRefundFails(a, q)
        \/ CallProvider(a) \/ RecordRefund(a) \/ DropRefund(a)
  BY DEF RefundStep
<1>3. \A b \in Admin : b # a => refund'[b] = refund[b]
  BY <1>1, <1>2, OneRequest
<1>4. ASSUME NEW q \in Payment, StartRefund(a, q) PROVE Quiet(p)
  <2>1. refund'[a].pc # "recording" /\ refund'[a].answer # "ok" /\ history' = history
    BY <1>1, <1>4 DEF StartRefund, RefundTypeOK, NoRefund, Refusal, repository
  <2>2. QED BY <1>1, <1>3, <2>1, EndsAreQuiet
<1>5. ASSUME NEW q \in Payment, StartRefundFails(a, q) PROVE Quiet(p)
  <2>1. refund'[a].pc # "recording" /\ refund'[a].answer # "ok" /\ history' = history
    BY <1>1, <1>5 DEF StartRefundFails, RefundTypeOK, NoRefund, repository
  <2>2. QED BY <1>1, <1>3, <2>1, EndsAreQuiet
<1>6. ASSUME CallProvider(a) PROVE Quiet(p) \/ (a \notin Held(p) /\ Pays(p, a))
  <2> DEFINE r == refund[a].ref
  <2> DEFINE amount == Amount[refund[a].payment]
  <2>2. history' = history /\ reference' = reference /\ refund[a].pc = "calling"
    BY <1>6 DEF CallProvider, repository
  <2>3. ASSUME MoveMoney(r, amount), NEW reply,
               refund' = [refund EXCEPT ![a] =
                  [@ EXCEPT !.pc = "recording", !.reply = reply, !.moved = TRUE]]
        PROVE  Quiet(p) \/ (a \notin Held(p) /\ Pays(p, a))
    <3>1. /\ refund'[a].pc = "recording" /\ refund'[a].payment = refund[a].payment
          /\ refund'[a].answer = refund[a].answer
      BY <1>1, <2>3 DEF RefundTypeOK
    <3>2. AdminRefundsOf(p)' = AdminRefundsOf(p)
      BY <2>2 DEF AdminRefundsOf
    <3>3. CASE p = refund[a].payment
      <4>1. r \in Ref /\ reference[p] = r
        BY <1>1, <2>2, <3>3 DEF RefundsChecked, Holdings, RefundsLinked
      <4>2. refunded'[r] = refunded[r] + Amount[p]
        BY <1>1, <2>3, <3>3, <4>1 DEF MoveMoney, ProviderTypeOK
      <4>3. a \notin Held(p) /\ Held(p)' = Held(p) \cup {a} /\ OkHolders(p)' \subseteq OkHolders(p)
        BY <1>3, <2>2, <3>1, <3>3 DEF Held, OkHolders
      <4>4. QED BY <2>2, <3>2, <4>1, <4>2, <4>3 DEF Pays
    <3>4. CASE p # refund[a].payment
      BY <1>3, <3>1, <3>2, <3>4 DEF Quiet, Held, OkHolders
    <3>5. QED BY <3>3, <3>4
  <2>4. ASSUME NEW answer \in ErrorAnswer,
               \/ refund' = [refund EXCEPT ![a] = [AnswerWith(a, answer) EXCEPT !.moved = TRUE]]
               \/ refund' = [refund EXCEPT ![a] = AnswerWith(a, answer)]
        PROVE  Quiet(p)
    <3>1. refund'[a].pc = "idle" /\ refund'[a].answer # "ok"
      BY <1>1, <2>4, AnsweredHoldsNothing DEF ErrorAnswer
    <3>2. QED BY <1>1, <1>3, <2>2, <3>1, EndsAreQuiet
  <2>5. QED BY <1>1, <1>6, <2>3, <2>4, CallOutcomes
<1>7. ASSUME RecordRefund(a) \/ DropRefund(a) PROVE Quiet(p) \/ Records(p, a)
  <2>1. PICK answer \in Answer :
          /\ \/ refund' = [refund EXCEPT ![a] = AnswerWith(a, answer)]
             \/ refund' = [refund EXCEPT ![a] = [AnswerWith(a, answer) EXCEPT !.moved = TRUE]]
          /\ RefundMoves(a) \/ (UNCHANGED repository /\ answer # "ok")
    BY <1>7 DEF RecordRefund, DropRefund, TransitionConflict, TransitionFails, RefundMoves, Answer
  <2>2. refund'[a].pc = "idle" /\ refund'[a].answer = answer /\ refund'[a].payment = refund[a].payment
    BY <1>1, <2>1, AnsweredHoldsNothing
  <2>3. CASE RefundMoves(a)
    BY <1>3, <2>2, <2>3, MovesRecord
  <2>4. CASE UNCHANGED repository /\ answer # "ok"
    BY <1>1, <1>3, <2>2, <2>4, EndsAreQuiet DEF repository
  <2>5. QED BY <2>1, <2>3, <2>4
<1>8. QED BY <1>2, <1>4, <1>5, <1>6, <1>7

\* Every step keeps every payment paid.
LEMMA PaidKept ==
  ASSUME TrailInvariant, TrailInvariant', MoneyInvariant, AllPaid, [Next]_payments
  PROVE  AllPaid'
<1>1. TypeOK /\ TypeOK' /\ Holdings /\ ReferencesStay /\ ProviderGrows
  BY StepsGrow DEF TrailInvariant, MoneyInvariant, Holdings
<1>2. SUFFICES ASSUME NEW p \in Payment PROVE Paid(p)'
  BY DEF AllPaid
<1>3. Paid(p)
  BY DEF AllPaid
<1>4. Quiet(p) \/ \E a \in Admin : (a \notin Held(p) /\ Pays(p, a)) \/ Records(p, a)
  BY <1>1, OthersAreQuiet, RefundStepCosts
<1>5. QED BY <1>1, <1>3, <1>4, QuietKeeps, PaysKeeps, RecordsKeeps

\* Each admin_refund line stands for its full amount given back by the provider,
\* and each request answered "ok" for a line of its own, for every number of
\* refunds, payments and lost answers.
THEOREM RefundsAlwaysBacked == Spec => []RefundsAreBacked
<1>1. Init => AllPaid
  <2>1. SUFFICES ASSUME Init, NEW p \in Payment PROVE Paid(p)
    BY DEF AllPaid
  <2>2. Held(p) = {} /\ OkHolders(p) = {} /\ AdminRefundsOf(p) = {}
    BY <2>1 DEF Init, RefundInit, NoRefund, RepositoryInit, Held, OkHolders, AdminRefundsOf
  <2>3. QED BY <2>2, FS_EmptySet DEF Paid
<1>2. TrailInvariant /\ TrailInvariant' /\ MoneyInvariant /\ AllPaid /\ [Next]_payments => AllPaid'
  BY PaidKept
<1>3. TrailInvariant /\ AllPaid => RefundsAreBacked
  <2>1. SUFFICES ASSUME TypeOK, AllPaid, NEW p \in Payment, AdminRefundsOf(p) # {}
                 PROVE  Cardinality(AdminRefundsOf(p)) * Amount[p] <= refunded[reference[p]]
    BY DEF AllPaid, Paid, RefundsAreBacked, TrailInvariant
  <2> DEFINE n == Cardinality(AdminRefundsOf(p))
  <2> DEFINE m == Cardinality(Held(p))
  <2>2. n \in Nat /\ m \in Nat /\ n + m \in Nat /\ n <= n + m /\ Amount[p] \in Nat
    BY <2>1, FS_CardinalityType, PaymentAssumption DEF AllPaid, Paid
  <2>3. reference[p] \in Ref /\ (n + m) * Amount[p] <= refunded[reference[p]]
        /\ refunded[reference[p]] \in Nat
    BY <2>1 DEF AllPaid, Paid, TypeOK, ProviderTypeOK
  <2> HIDE DEF n, m
  <2>4. n * Amount[p] <= (n + m) * Amount[p] /\ n * Amount[p] \in Nat /\ (n + m) * Amount[p] \in Nat
    BY <2>2, FewerCost
  <2>5. n * Amount[p] <= refunded[reference[p]]
    BY <2>3, <2>4
  <2>6. QED BY <2>5 DEF n
<1>4. QED BY <1>1, <1>2, <1>3, TrailIsInvariant, MoneyIsInvariant, PTL DEF Spec


(***************************************************************************)
(* One payment per intent                                                  *)
(***************************************************************************)

\* A payment is not linked to another intent, and a receipt is not lost.
THEOREM LinksAndReceiptsStay == Spec => [][ReferencesStay /\ claimed \subseteq claimed']_payments
<1>1. TrailInvariant /\ MoneyInvariant /\ [Next]_payments => ReferencesStay /\ claimed \subseteq claimed'
  BY StepsGrow DEF MoneyInvariant, Holdings
<1>2. QED BY <1>1, TrailIsInvariant, MoneyIsInvariant, PTL DEF Spec

\* No two payments have the same intent.
OnePaymentPerIntent ==
  \A p, q \in Payment : reference[p] # Null /\ reference[p] = reference[q] => p = q

\* The intent a checkout obtained exists, was obtained by no other, and is the
\* only one its payment can be linked to.
IntentsAreOwned ==
  /\ \A p \in Payment : intentFor[p] # Null => intent[intentFor[p]] # Absent
  /\ \A p, q \in Payment : intentFor[p] # Null /\ intentFor[p] = intentFor[q] => p = q
  /\ \A p \in Payment : reference[p] # Null => reference[p] = intentFor[p]

\* An intent that exists does not disappear.
IntentsStay == \A r \in Ref : intent[r] # Absent => intent'[r] # Absent

LEMMA ReachStays ==
  ASSUME ProviderTypeOK, NEW r \in Ref, NEW s \in Status, Reach(r, s)
  PROVE  IntentsStay /\ intent'[r] # Absent
BY StatusNotAbsent DEF ProviderTypeOK, Reach, IntentsStay

\* While references and owners stay, so does what is owned.
LEMMA OwnersRest ==
  ASSUME TypeOK, IntentsAreOwned, IntentsStay, UNCHANGED <<reference, intentFor>>
  PROVE  IntentsAreOwned'
BY DEF TypeOK, CheckoutTypeOK, IntentsAreOwned, IntentsStay

\* A payment obtains its intent before it is linked, and the intent is new.
LEMMA ObtainingOwns ==
  ASSUME TypeOK, IntentsAreOwned, UnlinkedUntilDone, NEW p \in Payment, ObtainIntent(p)
  PROVE  IntentsAreOwned'
<1>1. PICK r \in Ref : CreateIntent(r) /\ intentFor' = [intentFor EXCEPT ![p] = r]
  BY DEF ObtainIntent
<1>2. UNCHANGED reference /\ reference[p] = Null
  BY DEF ObtainIntent, Goto, UnlinkedUntilDone, repository
<1>3. intent[r] = Absent /\ IntentsStay /\ intent'[r] # Absent
  BY <1>1, ReachStays DEF CreateIntent, Status, TypeOK
<1>4. intentFor'[p] = r /\ \A q \in Payment : q # p => intentFor'[q] = intentFor[q]
  BY <1>1 DEF TypeOK, CheckoutTypeOK
<1>5. \A q \in Payment : intentFor[q] # r
  BY <1>3, PaymentAssumption DEF IntentsAreOwned
<1>6. \A q \in Payment : intentFor[q] # Null => intentFor[q] \in Ref /\ intent'[intentFor[q]] # Absent
  BY <1>3 DEF IntentsAreOwned, IntentsStay, TypeOK, CheckoutTypeOK
<1>7. QED BY <1>2, <1>3, <1>4, <1>5, <1>6 DEF IntentsAreOwned

\* A payment is linked to the intent it obtained.
LEMMA LinkingOwns ==
  ASSUME TypeOK, IntentsAreOwned, NEW p \in Payment, SetReference(p, intentFor[p]),
         UNCHANGED <<provider, intentFor>>
  PROVE  IntentsAreOwned'
BY DEF TypeOK, RepositoryTypeOK, SetReference, provider, IntentsAreOwned

LEMMA OwnersKept ==
  ASSUME TrailInvariant, UnlinkedUntilDone, IntentsAreOwned, [Next]_payments
  PROVE  IntentsAreOwned'
<1>1. TypeOK /\ ProviderTypeOK
  BY DEF TrailInvariant, TypeOK
<1>2. ASSUME UNCHANGED <<reference, intentFor, intent>> PROVE IntentsAreOwned'
  BY <1>2 DEF IntentsAreOwned
<1>3. CASE CheckoutStep
  <2>1. PICK p \in Payment :
          BeginInsert(p) \/ FinishInsert(p) \/ ObtainIntent(p) \/ LinkIntent(p) \/ AbortCheckout(p)
    BY <1>3 DEF CheckoutStep
  <2>2. \/ ObtainIntent(p)
        \/ UNCHANGED <<reference, intentFor, provider>>
        \/ SetReference(p, intentFor[p]) /\ UNCHANGED <<provider, intentFor>>
        \/ UNCHANGED <<reference, intentFor>> /\ \E r \in Ref : Reach(r, "created")
    BY <2>1 DEF BeginInsert, FinishInsert, LinkIntent, AbortCheckout, InsertRow,
                InsertCreationRecord, CreateIntent, repository
  <2>3. CASE UNCHANGED <<reference, intentFor>> /\ \E r \in Ref : Reach(r, "created")
    <3>1. "created" \in Status
      BY DEF Status
    <3>2. QED BY <2>3, <3>1, <1>1, ReachStays, OwnersRest
  <2>4. QED BY <2>2, <2>3, <1>1, <1>2, ObtainingOwns, LinkingOwns DEF provider
<1>4. CASE ProviderStep
  <2>1. UNCHANGED <<reference, intentFor>>
    BY <1>4 DEF ProviderStep, repository, checkouts
  <2>2. PICK r \in Ref : ProviderProgress(r) \/ DashboardRefund(r)
    BY <1>4 DEF ProviderStep
  <2>3. UNCHANGED intent \/ \E s \in Status : Reach(r, s)
    BY <2>2 DEF ProviderProgress, DashboardRefund, MoveMoney
  <2>4. QED BY <2>1, <2>3, <1>1, <1>2, ReachStays, OwnersRest
<1>5. RefundStep => UNCHANGED <<reference, intentFor, intent>>
  BY DEF RefundStep, StartRefund, StartRefundFails, CallProvider, RecordRefund, DropRefund, MoveMoney,
         TransitionConflict, TransitionFails, Transition, repository, checkouts, provider
<1>6. WebhookStep => UNCHANGED <<reference, intentFor, intent>>
  BY DEF WebhookStep, RejectDelivery, ClaimEvent, Deduplicate, ClaimFails, LookUp, Apply,
         DeliveryFails, TransitionConflict, TransitionFails, Transition, repository, checkouts, provider
<1>7. ViewStep \/ UNCHANGED payments => UNCHANGED <<reference, intentFor, intent>>
  BY DEF ViewStep, payments, repository, checkouts, provider
<1>8. QED BY <1>2, <1>3, <1>4, <1>5, <1>6, <1>7 DEF Next

\* set_provider_reference never meets the UNIQUE index on provider_reference, and
\* find_by_provider_reference has one payment to find: a webhook event, and the
\* money given back for an intent, is of one payment only.
THEOREM IntentsHaveOnePayment == Spec => []OnePaymentPerIntent
<1>1. Init => IntentsAreOwned
  BY DEF Init, RepositoryInit, CheckoutInit, IntentsAreOwned
<1>2. TrailInvariant /\ MoneyInvariant /\ IntentsAreOwned /\ [Next]_payments => IntentsAreOwned'
  BY OwnersKept DEF MoneyInvariant, Holdings
<1>3. IntentsAreOwned => OnePaymentPerIntent
  BY DEF IntentsAreOwned, OnePaymentPerIntent
<1>4. QED BY <1>1, <1>2, <1>3, TrailIsInvariant, MoneyIsInvariant, PTL DEF Spec
=============================================================================
