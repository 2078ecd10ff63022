--------------------------- MODULE PaymentsProofs ---------------------------
(***************************************************************************)
(* What TLAPS proves of Payments for every set of payments, references,    *)
(* requests and every fault budget.                                        *)
(***************************************************************************)
EXTENDS Payments, FiniteSetTheorems, TLAPS

(***************************************************************************)
(* The state machine                                                       *)
(***************************************************************************)

\* A legal move is between two statuses, and never back to `created`.
LEMMA LegalMove ==
  ASSUME NEW from, NEW to, CanTransition(from, to)
  PROVE  from \in Status /\ to \in Status /\ to # "created" /\ from # Absent
BY DEF CanTransition, Status, Absent

LEMMA StatusNotAbsent == Absent \notin Status
BY DEF Absent, Status

(***************************************************************************)
(* The history of one payment                                              *)
(***************************************************************************)

\* Appending a legal move from the last status keeps a history one chain.
LEMMA ChainGrows ==
  ASSUME NEW h \in Seq(Entry), h # << >>, Chained(h),
         NEW e \in Entry, e.from = h[Len(h)].to, CanTransition(e.from, e.to)
  PROVE  /\ Append(h, e) \in Seq(Entry) /\ Append(h, e) # << >>
         /\ Chained(Append(h, e))
         /\ Append(h, e)[Len(Append(h, e))] = e
<1> DEFINE g == Append(h, e)
<1>1. /\ g \in Seq(Entry) /\ Len(g) = Len(h) + 1 /\ Len(h) \in Nat \ {0}
      /\ \A i \in 1..Len(h) : g[i] = h[i]
      /\ g[Len(h) + 1] = e
  OBVIOUS
<1>2. g # << >>
  BY <1>1
<1>3. ASSUME NEW i \in 1..Len(g)
      PROVE  IF i = 1 THEN g[i].from = Absent /\ g[i].to = "created"
                      ELSE g[i].from = g[i-1].to /\ CanTransition(g[i].from, g[i].to)
  <2>1. CASE i \in 1..Len(h)
    <3>1. i # 1 => i - 1 \in 1..Len(h)
      BY <2>1, <1>1
    <3>2. QED BY <2>1, <3>1, <1>1 DEF Chained
  <2>2. CASE i = Len(h) + 1
    BY <2>2, <1>1
  <2>3. QED BY <2>1, <2>2, <1>1
<1>4. Chained(g)
  BY <1>3 DEF Chained
<1>5. QED BY <1>1, <1>2, <1>4

(***************************************************************************)
(* The operations of the repository                                        *)
(***************************************************************************)

Repository == RepositoryTypeOK /\ TrailMatchesStatus

\* No operation empties a history.
HistoriesKept == \A p \in Payment : history[p] # << >> => history'[p] # << >>

\* A refund or a webhook does not touch a payment without a creation row.
NewbornsUntouched ==
  \A p \in Payment : history[p] = << >> => history'[p] = << >> /\ status'[p] = status[p]

\* What the steps outside the checkout keep.
RepositoryKept ==
  Repository' /\ HistoriesKept /\ NewbornsUntouched /\ UNCHANGED reference

\* A step that leaves the tables alone keeps them.
LEMMA UnchangedKeeps ==
  ASSUME Repository, UNCHANGED repository
  PROVE  RepositoryKept
BY DEF Repository, RepositoryTypeOK, TrailMatchesStatus, HistoriesKept, repository,
       NewbornsUntouched, RepositoryKept

\* The row statement of insert keeps status and trail together.
LEMMA InsertRowKeeps ==
  ASSUME Repository, NEW p \in Payment, InsertRow(p)
  PROVE  Repository' /\ HistoriesKept /\ history[p] = << >>
<1>1. history[p] = << >>
  <2>1. SUFFICES ASSUME history[p] # << >> PROVE FALSE
    OBVIOUS
  <2>2. history[p] \in Seq(Entry) /\ status[p] = history[p][Len(history[p])].to
    BY <2>1 DEF Repository, RepositoryTypeOK, TrailMatchesStatus
  <2>3. history[p][Len(history[p])] \in Entry
    BY <2>1, <2>2
  <2>4. QED BY <2>2, <2>3, StatusNotAbsent DEF InsertRow, Entry
<1>2. RepositoryTypeOK'
  BY DEF Repository, RepositoryTypeOK, InsertRow, Status
<1>3. TrailMatchesStatus' /\ HistoriesKept
  BY <1>1 DEF Repository, RepositoryTypeOK, TrailMatchesStatus, InsertRow, HistoriesKept
<1>4. QED BY <1>1, <1>2, <1>3 DEF Repository

\* The history statement of insert keeps them together too, if the row is fresh.
LEMMA InsertCreationRecordKeeps ==
  ASSUME Repository, NEW p \in Payment, InsertCreationRecord(p),
         status[p] = "created", history[p] = << >>
  PROVE  Repository' /\ HistoriesKept /\ history'[p] # << >>
<1> DEFINE e == [from |-> Absent, to |-> "created", reason |-> "none"]
<1>1. e \in Entry
  BY DEF Entry, Status, Reason
<1>2. history' = [history EXCEPT ![p] = <<e>>] /\ UNCHANGED <<status, reference>>
  BY <1>1 DEF InsertCreationRecord, Record
<1>3. <<e>> \in Seq(Entry) /\ Len(<<e>>) = 1 /\ <<e>>[1] = e /\ <<e>> # << >>
  BY <1>1
<1>4. Chained(<<e>>)
  BY <1>3 DEF Chained
<1>5. RepositoryTypeOK'
  BY <1>2, <1>3 DEF Repository, RepositoryTypeOK
<1>6. TrailMatchesStatus' /\ HistoriesKept /\ history'[p] # << >>
  BY <1>2, <1>3, <1>4 DEF Repository, RepositoryTypeOK, TrailMatchesStatus, HistoriesKept
<1>7. QED BY <1>5, <1>6 DEF Repository

\* set_provider_reference touches neither.
LEMMA SetReferenceKeeps ==
  ASSUME Repository, NEW p \in Payment, NEW r \in Ref, SetReference(p, r)
  PROVE  Repository' /\ HistoriesKept
BY DEF Repository, RepositoryTypeOK, TrailMatchesStatus, HistoriesKept, SetReference

\* The heart of it: a guarded transition asked for by a caller whose move is
\* legal from the status it read keeps the trail, however old that read is.
LEMMA TransitionKeeps ==
  ASSUME Repository, NEW p \in Payment, NEW expected, NEW to, NEW why \in Reason,
         history[p] # << >>, CanTransition(expected, to), Transition(p, expected, to, why)
  PROVE  RepositoryKept
<1> DEFINE e == [from |-> expected, to |-> to, reason |-> why]
<1> DEFINE h == history[p]
<1>1. e \in Entry
  BY LegalMove DEF Entry
<1>2. /\ status[p] = expected
      /\ status' = [status EXCEPT ![p] = to]
      /\ history' = [history EXCEPT ![p] = Append(h, e)]
      /\ reference' = reference
  BY DEF Transition, Record
<1>3. h \in Seq(Entry) /\ Chained(h) /\ h[Len(h)].to = expected
  BY <1>2 DEF Repository, RepositoryTypeOK, TrailMatchesStatus
<1>4. /\ Append(h, e) \in Seq(Entry) /\ Append(h, e) # << >> /\ Chained(Append(h, e))
      /\ Append(h, e)[Len(Append(h, e))] = e
  BY <1>1, <1>3, ChainGrows
<1>5. RepositoryTypeOK'
  BY <1>2, <1>4, LegalMove DEF Repository, RepositoryTypeOK
<1>6. TrailMatchesStatus' /\ HistoriesKept
  BY <1>2, <1>4 DEF Repository, RepositoryTypeOK, TrailMatchesStatus, HistoriesKept
<1>7. NewbornsUntouched
  BY <1>2 DEF NewbornsUntouched, Repository, RepositoryTypeOK
<1>8. QED BY <1>2, <1>5, <1>6, <1>7 DEF Repository, RepositoryKept

\* So does one whose answer was lost.
LEMMA TransitionFailsKeeps ==
  ASSUME Repository, NEW p \in Payment, NEW expected, NEW to, NEW why \in Reason,
         history[p] # << >>, CanTransition(expected, to), TransitionFails(p, expected, to, why)
  PROVE  RepositoryKept
BY UnchangedKeeps, TransitionKeeps DEF TransitionFails

(***************************************************************************)
(* What a step that is not theirs does to checkouts, refunds, deliveries   *)
(***************************************************************************)

\* The order of creation survives every step outside the checkout.
LEMMA CreationOrderKept ==
  ASSUME CreationOrder, RepositoryKept, UNCHANGED checkouts
  PROVE  CreationOrder'
<1>1. UNCHANGED <<checkout, intentFor, reference>>
  BY DEF checkouts, RepositoryKept
<1>2. SUFFICES ASSUME NEW p \in Payment
      PROVE /\ checkout[p] = "new" => status'[p] = Absent
            /\ checkout[p] = "inserting" => status'[p] = "created" /\ history'[p] = << >>
            /\ checkout[p] \in {"inserted", "linking", "linked"} => history'[p] # << >>
            /\ checkout[p] = "linking" => intentFor[p] \in Ref
            /\ status'[p] = Absent => history'[p] = << >>
            /\ reference[p] # Null => history'[p] # << >>
  BY <1>1 DEF CreationOrder
<1>3. status'[p] = Absent => history'[p] = << >>
  <2>1. SUFFICES ASSUME history'[p] # << >> PROVE status'[p] # Absent
    OBVIOUS
  <2>2. history'[p] \in Seq(Entry) /\ status'[p] = history'[p][Len(history'[p])].to
    BY <2>1 DEF RepositoryKept, Repository, RepositoryTypeOK, TrailMatchesStatus
  <2>3. history'[p][Len(history'[p])] \in Entry
    BY <2>1, <2>2
  <2>4. QED BY <2>2, <2>3, StatusNotAbsent DEF Entry
<1>4. QED BY <1>3 DEF CreationOrder, RepositoryKept, HistoriesKept, NewbornsUntouched

\* A refund's checks stay made: histories are not emptied.
LEMMA RefundsCheckedKept ==
  ASSUME RefundsChecked, HistoriesKept, UNCHANGED refund
  PROVE  RefundsChecked'
BY DEF RefundsChecked, HistoriesKept

\* A delivery's checks stay made.
LEMMA DeliveriesCheckedKept ==
  ASSUME DeliveriesChecked, HistoriesKept, UNCHANGED delivery
  PROVE  DeliveriesChecked'
BY DEF DeliveriesChecked, HistoriesKept

(***************************************************************************)
(* The provider                                                            *)
(***************************************************************************)

\* An announcement is an event.
LEMMA AnnouncementIsEvent ==
  ASSUME NEW s
  PROVE  Announcement(s) \in EventType
BY DEF Announcement, EventType

\* An intent's move keeps the provider's types.
LEMMA ReachTyped ==
  ASSUME ProviderTypeOK, NEW r \in Ref, NEW s \in Status, Reach(r, s)
  PROVE  ProviderTypeOK'
<1>1. [ref |-> r, type |-> Announcement(s), total |-> 0] \in Event
  BY AnnouncementIsEvent DEF Event
<1>2. QED BY <1>1 DEF ProviderTypeOK, Reach

\* A movement of money keeps the provider's types.
LEMMA MoveMoneyTyped ==
  ASSUME ProviderTypeOK, NEW r \in Ref, NEW amount \in Nat, MoveMoney(r, amount)
  PROVE  ProviderTypeOK'
<1>1. refunded[r] + amount \in Nat
  BY DEF ProviderTypeOK
<1>2. [ref |-> r, type |-> "charge.refunded", total |-> refunded[r] + amount] \in Event
  BY <1>1 DEF Event, EventType
<1>3. QED BY <1>1, <1>2 DEF ProviderTypeOK, MoveMoney

(***************************************************************************)
(* The trail invariant, step by step                                       *)
(***************************************************************************)

\* A checkout step keeps the invariant: it writes the row, then the creation
\* record, then the reference, each in its turn.
LEMMA CheckoutKeeps ==
  ASSUME TrailInvariant, CheckoutStep
  PROVE  TrailInvariant'
<1>1. PICK p \in Payment :
        BeginInsert(p) \/ FinishInsert(p) \/ ObtainIntent(p) \/ LinkIntent(p) \/ AbortCheckout(p)
  BY DEF CheckoutStep
<1>2. /\ UNCHANGED <<refund, claimed, rejected, acked, concluded, delivery, views, detail, listing>>
      /\ Repository
  BY DEF CheckoutStep, views, webhooks, store, outcomes, TrailInvariant, TypeOK, Repository
<1>3. (WebhookTypeOK /\ ViewsTypeOK /\ RefundTypeOK)'
  BY <1>2 DEF TrailInvariant, TypeOK, WebhookTypeOK, ViewsTypeOK, RefundTypeOK
<1>4. (faults \in Nat)'
  BY <1>1 DEF TrailInvariant, TypeOK, BeginInsert, FinishInsert, ObtainIntent, LinkIntent,
              AbortCheckout, Works, Fails
<1>5. ProviderTypeOK' /\ CheckoutTypeOK'
  <2>1. CASE BeginInsert(p) \/ FinishInsert(p) \/ LinkIntent(p)
    BY <2>1 DEF TrailInvariant, TypeOK, BeginInsert, FinishInsert, LinkIntent,
                Goto, provider, ProviderTypeOK, CheckoutTypeOK
  <2>4. CASE AbortCheckout(p)
    <3>1. UNCHANGED provider \/ \E r \in Ref : CreateIntent(r)
      BY <2>4 DEF AbortCheckout
    <3>2. ProviderTypeOK'
      BY <3>1, ReachTyped DEF CreateIntent, TrailInvariant, TypeOK, Status, provider, ProviderTypeOK
    <3>3. CheckoutTypeOK'
      BY <2>4 DEF TrailInvariant, TypeOK, AbortCheckout, CheckoutTypeOK
    <3>4. QED BY <3>2, <3>3
  <2>2. CASE ObtainIntent(p)
    <3>1. PICK r \in Ref : CreateIntent(r) /\ intentFor' = [intentFor EXCEPT ![p] = r]
      BY <2>2 DEF ObtainIntent
    <3>2. ProviderTypeOK'
      BY <3>1, ReachTyped DEF CreateIntent, TrailInvariant, TypeOK, Status
    <3>3. CheckoutTypeOK'
      BY <2>2, <3>1 DEF TrailInvariant, TypeOK, ObtainIntent, Goto, CheckoutTypeOK
    <3>4. QED BY <3>2, <3>3
  <2>3. QED BY <1>1, <2>1, <2>2, <2>4
<1>6. \/ UNCHANGED repository /\ (ObtainIntent(p) \/ AbortCheckout(p))
      \/ checkout[p] = "new" /\ InsertRow(p)
      \/ checkout[p] = "inserting" /\ InsertCreationRecord(p)
      \/ checkout[p] = "linking" /\ SetReference(p, intentFor[p])
  BY <1>1 DEF BeginInsert, FinishInsert, ObtainIntent, LinkIntent, AbortCheckout, Goto
<1>7. (Repository /\ CreationOrder)' /\ HistoriesKept
  <2>1. CASE UNCHANGED repository /\ (ObtainIntent(p) \/ AbortCheckout(p))
    <3>1. Repository' /\ HistoriesKept
      BY <2>1, <1>2, UnchangedKeeps DEF RepositoryKept
    <3>2. CreationOrder'
      <4>1. CASE ObtainIntent(p)
        BY <2>1, <4>1 DEF CreationOrder, repository, TrailInvariant, TypeOK, CheckoutTypeOK,
           ObtainIntent, Goto
      <4>2. CASE AbortCheckout(p)
        BY <2>1, <4>2 DEF CreationOrder, repository, TrailInvariant, TypeOK, CheckoutTypeOK,
           AbortCheckout
      <4>3. QED BY <2>1, <4>1, <4>2
    <3>3. QED BY <3>1, <3>2
  <2>2. CASE checkout[p] = "new" /\ InsertRow(p)
    <3>1. Repository' /\ HistoriesKept /\ history[p] = << >>
      BY <2>2, <1>2, InsertRowKeeps
    <3>2. checkout' \in {[checkout EXCEPT ![p] = "inserting"], [checkout EXCEPT ![p] = "aborted"]}
          /\ intentFor' = intentFor
      BY <1>1, <2>2 DEF BeginInsert, FinishInsert, ObtainIntent, LinkIntent, AbortCheckout, Goto
    <3>3. CreationOrder'
      BY <3>1, <3>2, <2>2 DEF CreationOrder, TrailInvariant, TypeOK, CheckoutTypeOK, InsertRow,
         RepositoryTypeOK, Absent
    <3>4. QED BY <3>1, <3>3
  <2>3. CASE checkout[p] = "inserting" /\ InsertCreationRecord(p)
    <3>1. Repository' /\ HistoriesKept /\ history'[p] # << >>
      BY <2>3, <1>2, InsertCreationRecordKeeps DEF TrailInvariant, CreationOrder
    <3>2. checkout' \in {[checkout EXCEPT ![p] = "inserted"], [checkout EXCEPT ![p] = "aborted"]}
          /\ intentFor' = intentFor
      BY <1>1, <2>3 DEF BeginInsert, FinishInsert, ObtainIntent, LinkIntent, AbortCheckout, Goto
    <3>3. CreationOrder'
      BY <3>1, <3>2, <2>3 DEF CreationOrder, TrailInvariant, TypeOK, CheckoutTypeOK,
         InsertCreationRecord, Record, RepositoryTypeOK, Absent
    <3>4. QED BY <3>1, <3>3
  <2>4. CASE checkout[p] = "linking" /\ SetReference(p, intentFor[p])
    <3>1. intentFor[p] \in Ref /\ history[p] # << >>
      BY <2>4 DEF TrailInvariant, CreationOrder
    <3>2. Repository' /\ HistoriesKept
      BY <2>4, <3>1, <1>2, SetReferenceKeeps
    <3>3. checkout' \in {[checkout EXCEPT ![p] = "linked"], [checkout EXCEPT ![p] = "aborted"]}
          /\ intentFor' = intentFor
      BY <1>1, <2>4 DEF BeginInsert, FinishInsert, ObtainIntent, LinkIntent, AbortCheckout, Goto
    <3>4. CreationOrder'
      BY <3>1, <3>3, <2>4 DEF CreationOrder, TrailInvariant, TypeOK, CheckoutTypeOK,
         SetReference, RepositoryTypeOK
    <3>5. QED BY <3>2, <3>4
  <2>5. QED BY <1>6, <2>1, <2>2, <2>3, <2>4
<1>8. RefundsChecked' /\ DeliveriesChecked'
  BY <1>2, <1>7, RefundsCheckedKept, DeliveriesCheckedKept DEF TrailInvariant
<1>9. QED
  BY <1>3, <1>4, <1>5, <1>7, <1>8 DEF TrailInvariant, TypeOK, Repository

\* A provider step touches none of the program's state.
LEMMA ProviderKeeps ==
  ASSUME TrailInvariant, ProviderStep
  PROVE  TrailInvariant'
<1>1. UNCHANGED <<status, reference, history, checkout, intentFor, refund, claimed, rejected,
                  acked, concluded, delivery, detail, listing, faults>>
  BY DEF ProviderStep, views, repository, checkouts, webhooks, store, outcomes
<1>2. ProviderTypeOK'
  <2>1. ASSUME NEW r \in Ref, ProviderProgress(r) PROVE ProviderTypeOK'
    BY <2>1, ReachTyped DEF ProviderProgress, TrailInvariant, TypeOK
  <2>2. ASSUME NEW r \in Ref, DashboardRefund(r) PROVE ProviderTypeOK'
    BY <2>2, MoveMoneyTyped, PaymentAssumption DEF DashboardRefund, TrailInvariant, TypeOK
  <2>3. QED BY <2>1, <2>2 DEF ProviderStep
<1>3. Repository /\ UNCHANGED repository /\ UNCHANGED checkouts
  BY <1>1 DEF Repository, TrailInvariant, TypeOK, repository, checkouts
<1>4. RepositoryKept
  BY <1>3, UnchangedKeeps
<1>5. (CreationOrder /\ RefundsChecked /\ DeliveriesChecked)'
  BY <1>1, <1>3, <1>4, CreationOrderKept, RefundsCheckedKept, DeliveriesCheckedKept
     DEF TrailInvariant, RepositoryKept
<1>6. (CheckoutTypeOK /\ RefundTypeOK /\ WebhookTypeOK /\ ViewsTypeOK /\ faults \in Nat)'
  BY <1>1 DEF TrailInvariant, TypeOK, CheckoutTypeOK, RefundTypeOK, WebhookTypeOK, ViewsTypeOK
<1>7. QED BY <1>2, <1>4, <1>5, <1>6 DEF TrailInvariant, TypeOK, Repository, RepositoryKept

\* The adapter's reply is a status.
LEMMA RefundReplyIsStatus ==
  ASSUME NEW amount, NEW total
  PROVE  RefundReply(amount, total) \in Status
BY DEF RefundReply, Status

\* What a provider error answers, and what a refusal does.
LEMMA ProviderErrors == ErrorAnswer \subseteq Answer /\ "rejected" \in Answer
BY DEF ErrorAnswer, Answer

\* A request that goes back to idle with an answer is well typed, and has no
\* check left to keep.
LEMMA AnswerKeeps ==
  ASSUME RefundTypeOK, RefundsChecked, HistoriesKept,
         NEW a \in Admin, NEW answer \in Answer, NEW moved \in BOOLEAN,
         refund' = [refund EXCEPT ![a] = [AnswerWith(a, answer) EXCEPT !.moved = moved]]
  PROVE  RefundTypeOK' /\ RefundsChecked'
<1>1. RefundTypeOK'
  <2>1. PICK r : r = [AnswerWith(a, answer) EXCEPT !.moved = moved]
    OBVIOUS
  <2>2. refund' = [refund EXCEPT ![a] = r]
    BY <2>1
  <2>3. r \in [pc : {"idle", "calling", "recording"}, payment : Payment \cup {Null}, ref : Ref \cup {Null},
                seen : Status \cup {Absent}, reply : Status \cup {Absent}, answer : Answer,
                moved : BOOLEAN]
    BY <2>1 DEF RefundTypeOK, AnswerWith, NoRefund
  <2>4. QED BY <2>2, <2>3 DEF RefundTypeOK
<1>2. refund'[a].pc = "idle" /\ \A b \in Admin : b # a => refund'[b] = refund[b]
  BY DEF RefundTypeOK, AnswerWith, NoRefund
<1>3. QED BY <1>1, <1>2 DEF RefundsChecked, HistoriesKept

\* The same, for an answer that leaves `moved` as it is.
LEMMA PlainAnswerKeeps ==
  ASSUME RefundTypeOK, RefundsChecked, HistoriesKept,
         NEW a \in Admin, NEW answer \in Answer,
         refund' = [refund EXCEPT ![a] = AnswerWith(a, answer)]
  PROVE  RefundTypeOK' /\ RefundsChecked'
<1>1. RefundTypeOK'
  <2>1. PICK r : r = AnswerWith(a, answer)
    OBVIOUS
  <2>2. refund' = [refund EXCEPT ![a] = r]
    BY <2>1
  <2>3. r \in [pc : {"idle", "calling", "recording"}, payment : Payment \cup {Null}, ref : Ref \cup {Null},
                seen : Status \cup {Absent}, reply : Status \cup {Absent}, answer : Answer,
                moved : BOOLEAN]
    BY <2>1 DEF RefundTypeOK, AnswerWith, NoRefund
  <2>4. QED BY <2>2, <2>3 DEF RefundTypeOK
<1>2. refund'[a].pc = "idle" /\ \A b \in Admin : b # a => refund'[b] = refund[b]
  BY DEF RefundTypeOK, AnswerWith, NoRefund
<1>3. QED BY <1>1, <1>2 DEF RefundsChecked, HistoriesKept

\* A refund step keeps the invariant: what it records was legal from what it read.
LEMMA RefundKeeps ==
  ASSUME TrailInvariant, RefundStep
  PROVE  TrailInvariant'
<1>1. /\ UNCHANGED <<checkouts, checkout, intentFor, claimed, rejected, acked, concluded,
                     delivery, views, detail, listing>>
      /\ Repository
  BY DEF RefundStep, views, checkouts, webhooks, store, outcomes, TrailInvariant, TypeOK, Repository
<1>2. RefundTypeOK /\ RefundsChecked /\ ProviderTypeOK /\ faults \in Nat
  BY DEF TrailInvariant, TypeOK
<1>3. PICK a \in Admin :
        \/ \E p \in Payment : StartRefund(a, p) \/ StartRefundFails(a, p)
        \/ CallProvider(a) \/ RecordRefund(a) \/ DropRefund(a)
  BY DEF RefundStep
<1>4. refund[a].pc # "idle" =>
        /\ refund[a].payment \in Payment /\ refund[a].ref \in Ref
        /\ history[refund[a].payment] # << >>
        /\ Amount[refund[a].payment] \in Nat
  BY <1>2, PaymentAssumption DEF RefundsChecked
<1>5. RepositoryKept /\ (RefundTypeOK /\ RefundsChecked /\ ProviderTypeOK /\ faults \in Nat)'
  <2>1. ASSUME NEW p \in Payment, StartRefund(a, p)
        PROVE  RepositoryKept /\ (RefundTypeOK /\ RefundsChecked /\ ProviderTypeOK /\ faults \in Nat)'
    <3>1. RepositoryKept
      BY <2>1, <1>1, UnchangedKeeps DEF StartRefund
    <3>2. (ProviderTypeOK /\ faults \in Nat)'
      BY <2>1, <1>2 DEF StartRefund, ProviderTypeOK, provider, Works
    <3>3. RefundTypeOK'
      BY <2>1, <1>1, <1>2 DEF StartRefund, RefundTypeOK, Refusal, Answer, NoRefund,
         Repository, RepositoryTypeOK
    <3>4. RefundsChecked'
      <4>1. Refusal(p) = "none" =>
              status[p] \in Refundable /\ reference[p] \in Ref /\ history[p] # << >>
        BY <1>1 DEF Refusal, Repository, RepositoryTypeOK, TrailInvariant, CreationOrder
      <4>2. UNCHANGED history
        BY <2>1 DEF StartRefund, repository
      <4>3. QED BY <2>1, <1>2, <4>1, <4>2 DEF StartRefund, RefundsChecked, RefundTypeOK, NoRefund
    <3>5. QED BY <3>1, <3>2, <3>3, <3>4
  <2>2. ASSUME NEW p \in Payment, StartRefundFails(a, p)
        PROVE  RepositoryKept /\ (RefundTypeOK /\ RefundsChecked /\ ProviderTypeOK /\ faults \in Nat)'
    <3>1. RepositoryKept
      BY <2>2, <1>1, UnchangedKeeps DEF StartRefundFails
    <3>2. (ProviderTypeOK /\ faults \in Nat)'
      BY <2>2, <1>2 DEF StartRefundFails, ProviderTypeOK, provider, Fails
    <3>3. RefundTypeOK' /\ RefundsChecked'
      BY <2>2, <1>2 DEF StartRefundFails, RefundTypeOK, RefundsChecked, Answer, NoRefund,
         repository
    <3>4. QED BY <3>1, <3>2, <3>3
  <2>3. CASE CallProvider(a)
    <3>1. RepositoryKept /\ UNCHANGED history
      BY <2>3, <1>1, UnchangedKeeps DEF CallProvider, repository
    <3>2. ProviderTypeOK'
      <4>1. \/ UNCHANGED provider
            \/ MoveMoney(refund[a].ref, Amount[refund[a].payment])
        BY <2>3 DEF CallProvider
      <4>2. CASE UNCHANGED provider
        BY <4>2, <1>2 DEF provider, ProviderTypeOK
      <4>3. CASE MoveMoney(refund[a].ref, Amount[refund[a].payment])
        BY <4>3, <1>2, <1>4, <2>3, MoveMoneyTyped DEF CallProvider
      <4>4. QED BY <4>1, <4>2, <4>3
    <3>3. (faults \in Nat)'
      BY <2>3, <1>2 DEF CallProvider, Works, Fails
    <3>4. \/ \E total : Replied(a, RefundReply(Amount[refund[a].payment], total))
          \/ \E answer \in Answer, moved \in BOOLEAN :
               refund' = [refund EXCEPT ![a] = [AnswerWith(a, answer) EXCEPT !.moved = moved]]
          \/ \E answer \in Answer : refund' = [refund EXCEPT ![a] = AnswerWith(a, answer)]
      BY <2>3, ProviderErrors DEF CallProvider
    <3>8. ASSUME NEW reply \in Status, Replied(a, reply)
          PROVE  \/ /\ CanTransition(refund[a].seen, reply)
                    /\ refund' = [refund EXCEPT ![a] =
                                   [@ EXCEPT !.pc = "recording", !.reply = reply, !.moved = TRUE]]
                 \/ \E answer \in Answer, moved \in BOOLEAN :
                      refund' = [refund EXCEPT ![a] = [AnswerWith(a, answer) EXCEPT !.moved = moved]]
      BY <3>8 DEF Replied, Answer
    <3>5. ASSUME NEW reply \in Status, CanTransition(refund[a].seen, reply),
                 refund' = [refund EXCEPT ![a] =
                              [@ EXCEPT !.pc = "recording", !.reply = reply, !.moved = TRUE]]
          PROVE  RepositoryKept /\ (RefundTypeOK /\ RefundsChecked /\ ProviderTypeOK /\ faults \in Nat)'
      <4>2. RefundTypeOK'
        BY <3>5, <1>2 DEF RefundTypeOK
      <4>3. refund[a].pc # "idle"
        BY <2>3 DEF CallProvider
      <4>4. RefundsChecked'
        BY <3>1, <3>5, <4>3, <1>2 DEF RefundsChecked, RefundTypeOK
      <4>5. QED BY <4>2, <4>4, <3>1, <3>2, <3>3
    <3>6. CASE \/ \E answer \in Answer, moved \in BOOLEAN :
                    refund' = [refund EXCEPT ![a] = [AnswerWith(a, answer) EXCEPT !.moved = moved]]
               \/ \E answer \in Answer : refund' = [refund EXCEPT ![a] = AnswerWith(a, answer)]
      BY <3>1, <3>2, <3>3, <3>6, <1>2, AnswerKeeps, PlainAnswerKeeps DEF RepositoryKept
    <3>7. QED BY <3>4, <3>8, <3>5, <3>6, RefundReplyIsStatus
  <2>4. CASE RecordRefund(a)
    <3>1. RepositoryKept
      <4>1. /\ refund[a].payment \in Payment /\ history[refund[a].payment] # << >>
            /\ CanTransition(refund[a].seen, refund[a].reply)
        BY <2>4, <1>2, <1>4 DEF RecordRefund, RefundsChecked
      <4>2. "admin_refund" \in Reason
        BY DEF Reason
      <4>3. \/ Transition(refund[a].payment, refund[a].seen, refund[a].reply, "admin_refund")
            \/ UNCHANGED repository
            \/ TransitionFails(refund[a].payment, refund[a].seen, refund[a].reply, "admin_refund")
        BY <2>4 DEF RecordRefund, TransitionConflict
      <4>4. QED BY <4>1, <4>2, <4>3, <1>1, TransitionKeeps, UnchangedKeeps, TransitionFailsKeeps
    <3>2. (ProviderTypeOK /\ faults \in Nat)'
      BY <2>4, <1>2 DEF RecordRefund, ProviderTypeOK, provider, Works, Fails
    <3>3. \E answer \in Answer : refund' = [refund EXCEPT ![a] = AnswerWith(a, answer)]
      BY <2>4 DEF RecordRefund, Answer
    <3>4. QED BY <3>1, <3>2, <3>3, <1>2, PlainAnswerKeeps DEF RepositoryKept
  <2>5. CASE DropRefund(a)
    <3>1. /\ refund[a].payment \in Payment /\ history[refund[a].payment] # << >>
          /\ refund[a].ref \in Ref /\ Amount[refund[a].payment] \in Nat
          /\ refund[a].pc = "recording" => CanTransition(refund[a].seen, refund[a].reply)
      BY <2>5, <1>2, <1>4 DEF DropRefund, RefundsChecked
    <3>2. RepositoryKept
      <4>1. \/ UNCHANGED repository
            \/ /\ refund[a].pc = "recording"
               /\ Transition(refund[a].payment, refund[a].seen, refund[a].reply, "admin_refund")
        BY <2>5 DEF DropRefund
      <4>2. "admin_refund" \in Reason
        BY DEF Reason
      <4>3. QED BY <3>1, <4>1, <4>2, <1>1, TransitionKeeps, UnchangedKeeps
    <3>3. ProviderTypeOK'
      <4>1. UNCHANGED provider \/ MoveMoney(refund[a].ref, Amount[refund[a].payment])
        BY <2>5 DEF DropRefund
      <4>2. CASE UNCHANGED provider
        BY <4>2, <1>2 DEF provider, ProviderTypeOK
      <4>3. CASE MoveMoney(refund[a].ref, Amount[refund[a].payment])
        BY <4>3, <1>2, <3>1, MoveMoneyTyped
      <4>4. QED BY <4>1, <4>2, <4>3
    <3>4. (faults \in Nat)'
      BY <2>5, <1>2 DEF DropRefund, Fails
    <3>5. \/ refund' = [refund EXCEPT ![a] = AnswerWith(a, "none")]
          \/ refund' = [refund EXCEPT ![a] = [AnswerWith(a, "none") EXCEPT !.moved = TRUE]]
      BY <2>5 DEF DropRefund
    <3>6. "none" \in Answer
      BY DEF Answer
    <3>7. QED
      BY <3>2, <3>3, <3>4, <3>5, <3>6, <1>2, AnswerKeeps, PlainAnswerKeeps DEF RepositoryKept
  <2>6. QED BY <1>3, <2>1, <2>2, <2>3, <2>4, <2>5
<1>6. (CreationOrder /\ DeliveriesChecked)'
  BY <1>1, <1>5, CreationOrderKept, DeliveriesCheckedKept DEF TrailInvariant, RepositoryKept
<1>7. (CheckoutTypeOK /\ WebhookTypeOK /\ ViewsTypeOK)'
  BY <1>1 DEF TrailInvariant, TypeOK, CheckoutTypeOK, WebhookTypeOK, ViewsTypeOK
<1>8. QED BY <1>5, <1>6, <1>7 DEF TrailInvariant, TypeOK, Repository, RepositoryKept

\* A delivery that is over is well typed, and has no check left to keep.
LEMMA OverKeeps ==
  ASSUME WebhookTypeOK, DeliveriesChecked, HistoriesKept, NEW h \in Handler,
         delivery[h].pc # "idle", UNCHANGED store, Conclude(h) \/ Nack(h)
  PROVE  WebhookTypeOK' /\ DeliveriesChecked'
<1>1. delivery[h].event \in Event
  BY DEF DeliveriesChecked
<1>2. delivery' = [delivery EXCEPT ![h] = NoDelivery]
  BY DEF Conclude, Nack
<1>3. WebhookTypeOK'
  <2>1. NoDelivery \in [pc : {"idle", "claimed", "found"}, event : Event \cup {Null},
                        payment : Payment \cup {Null}, seen : Status \cup {Absent}]
    BY DEF NoDelivery
  <2>2. acked' \subseteq Event /\ concluded' \subseteq Event
    BY <1>1 DEF Conclude, Nack, outcomes, WebhookTypeOK
  <2>3. QED BY <1>2, <2>1, <2>2 DEF WebhookTypeOK, store
<1>4. DeliveriesChecked'
  BY <1>2 DEF DeliveriesChecked, HistoriesKept, WebhookTypeOK, NoDelivery
<1>5. QED BY <1>3, <1>4

\* A webhook step keeps the invariant: the move was checked against the status
\* that was read, and transition checks that it is still there.
LEMMA WebhookKeeps ==
  ASSUME TrailInvariant, WebhookStep
  PROVE  TrailInvariant'
<1>1. /\ UNCHANGED <<checkouts, checkout, intentFor, refund, views, detail, listing>>
      /\ Repository
  BY DEF WebhookStep, views, checkouts, TrailInvariant, TypeOK, Repository
<1>2. /\ WebhookTypeOK /\ DeliveriesChecked /\ ProviderTypeOK /\ faults \in Nat
      /\ sent \subseteq Event
  BY DEF TrailInvariant, TypeOK, ProviderTypeOK
<1> DEFINE Goal == /\ RepositoryKept /\ UNCHANGED provider
                   /\ (WebhookTypeOK /\ DeliveriesChecked /\ faults \in Nat)'
<1>3. Goal
  <2>1. ASSUME NEW e \in sent, RejectDelivery(e) PROVE Goal
    <3>1. RepositoryKept
      BY <2>1, <1>1, UnchangedKeeps DEF RejectDelivery
    <3>2. QED BY <2>1, <3>1, <1>2, DeliveriesCheckedKept
          DEF RejectDelivery, WebhookTypeOK, Works, Fails, outcomes, RepositoryKept
  <2>2. ASSUME NEW h \in Handler, NEW e \in sent, ClaimEvent(h, e) PROVE Goal
    <3>1. RepositoryKept /\ UNCHANGED history
      BY <2>2, <1>1, UnchangedKeeps DEF ClaimEvent, repository
    <3>2. WebhookTypeOK' /\ DeliveriesChecked'
      BY <2>2, <3>1, <1>2 DEF ClaimEvent, WebhookTypeOK, DeliveriesChecked, outcomes, NoDelivery
    <3>3. QED BY <2>2, <3>1, <3>2, <1>2 DEF ClaimEvent, Works
  <2>3. ASSUME NEW h \in Handler, NEW e \in sent, Deduplicate(h, e) \/ ClaimFails(h, e) PROVE Goal
    <3>1. RepositoryKept /\ UNCHANGED history
      BY <2>3, <1>1, UnchangedKeeps DEF Deduplicate, ClaimFails, repository
    <3>2. WebhookTypeOK' /\ DeliveriesChecked'
      BY <2>3, <3>1, <1>2, DeliveriesCheckedKept
      DEF Deduplicate, ClaimFails, WebhookTypeOK, RepositoryKept, outcomes, store
    <3>3. QED BY <2>3, <3>1, <3>2, <1>2 DEF Deduplicate, ClaimFails, Works, Fails
  <2>4. ASSUME NEW h \in Handler, LookUp(h) PROVE Goal
    <3>1. RepositoryKept /\ UNCHANGED <<history, provider, store, faults>>
      BY <2>4, <1>1, UnchangedKeeps DEF LookUp, repository, Works
    <3>2. delivery[h].pc = "claimed" /\ delivery[h].event \in Event
      BY <2>4, <1>2 DEF LookUp, DeliveriesChecked
    <3>3. WebhookTypeOK' /\ DeliveriesChecked'
      <4>1. CASE Conclude(h)
        BY <4>1, <3>1, <3>2, <1>2, OverKeeps DEF RepositoryKept
      <4>2. ASSUME NEW p \in Payment,
                   Concerns(delivery[h].event, p),
                   CanTransition(status[p], Distilled(delivery[h].event)),
                   delivery' = [delivery EXCEPT ![h].pc = "found", ![h].payment = p,
                                                ![h].seen = status[p]],
                   UNCHANGED outcomes
            PROVE  WebhookTypeOK' /\ DeliveriesChecked'
        <5>1. history[p] # << >>
          <6>1. CASE reference[p] = Null
            BY <4>2, <6>1, <3>2, PaymentAssumption DEF Concerns, Event
          <6>2. QED BY <6>1 DEF TrailInvariant, CreationOrder
        <5>2. status[p] \in Status \cup {Absent}
          BY <1>1 DEF Repository, RepositoryTypeOK
        <5>3. WebhookTypeOK'
          <6>1. UNCHANGED <<claimed, rejected, acked, concluded>>
            BY <4>2, <3>1 DEF store, outcomes
          <6>2. WebhookTypeOK
            BY <1>2
          <6>3. PICK s \in Status \cup {Absent} : s = status[p]
            BY <5>2
          <6>4. delivery' = [delivery EXCEPT ![h].pc = "found", ![h].payment = p, ![h].seen = s]
            BY <4>2, <6>3
          <6>5. delivery' \in [Handler -> [pc : {"idle", "claimed", "found"},
                                          event : Event \cup {Null},
                                          payment : Payment \cup {Null},
                                          seen : Status \cup {Absent}]]
            <7>1. PICK q : q = [delivery[h] EXCEPT !.pc = "found", !.payment = p, !.seen = s]
              OBVIOUS
            <7>2. delivery' = [delivery EXCEPT ![h] = q]
              BY <6>4, <7>1
            <7>3. q \in [pc : {"idle", "claimed", "found"}, event : Event \cup {Null},
                         payment : Payment \cup {Null}, seen : Status \cup {Absent}]
              BY <6>2, <7>1 DEF WebhookTypeOK
            <7>4. QED BY <6>2, <7>2, <7>3 DEF WebhookTypeOK
          <6>6. QED BY <6>1, <6>2, <6>5 DEF WebhookTypeOK
        <5>4. DeliveriesChecked'
          <6>1. /\ delivery'[h].event = delivery[h].event /\ delivery'[h].payment = p
                /\ delivery'[h].seen = status[p]
                /\ \A k \in Handler : k # h => delivery'[k] = delivery[k]
            BY <4>2, <1>2 DEF WebhookTypeOK
          <6>2. QED BY <4>2, <5>1, <3>1, <3>2, <1>2, <6>1 DEF DeliveriesChecked
        <5>5. QED BY <5>3, <5>4
      <4>3. QED BY <2>4, <4>1, <4>2 DEF LookUp
    <3>4. QED BY <3>1, <3>3, <1>2
  <2>5. ASSUME NEW h \in Handler, Apply(h) \/ DeliveryFails(h) PROVE Goal
    <3>1. UNCHANGED <<provider, store>> /\ (faults \in Nat)'
      BY <2>5, <1>2 DEF Apply, DeliveryFails, Works, Fails
    <3>2. delivery[h].pc # "idle" /\ (Conclude(h) \/ Nack(h))
      BY <2>5 DEF Apply, DeliveryFails
    <3>3. RepositoryKept
      <4>1. \/ UNCHANGED repository
            \/ /\ delivery[h].pc = "found"
               /\ TransitionFails(delivery[h].payment, delivery[h].seen,
                                  Distilled(delivery[h].event), "provider_webhook")
        BY <2>5 DEF Apply, DeliveryFails, TransitionConflict, TransitionFails
      <4>2. delivery[h].pc = "found" =>
              /\ delivery[h].payment \in Payment /\ history[delivery[h].payment] # << >>
              /\ CanTransition(delivery[h].seen, Distilled(delivery[h].event))
        BY <1>2 DEF DeliveriesChecked
      <4>3. "provider_webhook" \in Reason
        BY DEF Reason
      <4>4. QED BY <4>1, <4>2, <4>3, <1>1, UnchangedKeeps, TransitionFailsKeeps
    <3>4. WebhookTypeOK' /\ DeliveriesChecked'
      BY <3>1, <3>2, <3>3, <1>2, OverKeeps DEF RepositoryKept
    <3>5. QED BY <3>1, <3>3, <3>4
  <2>6. QED BY <2>1, <2>2, <2>3, <2>4, <2>5 DEF WebhookStep
<1>4. (CreationOrder /\ RefundsChecked)'
  BY <1>1, <1>3, CreationOrderKept, RefundsCheckedKept DEF TrailInvariant, RepositoryKept
<1>5. (ProviderTypeOK /\ CheckoutTypeOK /\ RefundTypeOK /\ ViewsTypeOK)'
  BY <1>1, <1>3 DEF TrailInvariant, TypeOK, ProviderTypeOK, CheckoutTypeOK, RefundTypeOK,
                    ViewsTypeOK, provider
<1>6. QED BY <1>3, <1>4, <1>5 DEF TrailInvariant, TypeOK, Repository, RepositoryKept

\* A table has finitely many rows, so a total is a number.
LEMMA FiniteMatches ==
  ASSUME NEW q \in Query
  PROVE  IsFiniteSet(Matching(q)) /\ Total(q) \in Nat
<1>1. Matching(q) \subseteq Payment
  BY ViewsAssumption DEF Matching, PaymentQuery
<1>2. QED BY <1>1, ViewsAssumption, FS_Subset, FS_CardinalityType DEF Total

\* Reading changes nothing but the reader.
LEMMA ViewKeeps ==
  ASSUME TrailInvariant, ViewStep
  PROVE  TrailInvariant'
<1>1. UNCHANGED <<status, reference, history, intent, refunded, sent, checkout, intentFor,
                  refund, claimed, rejected, acked, concluded, delivery, faults>>
  BY DEF ViewStep, repository, provider, checkouts, webhooks, store, outcomes
<1>2. ViewsTypeOK'
  <2>1. PICK v \in Reader : \/ (\E p \in Payment : ReadPayment(v, p))
                            \/ (\E q \in Query : CountPayments(v, q))
                            \/ ReadHistory(v) \/ ListPayments(v)
    BY DEF ViewStep
  <2>2. CASE \E p \in Payment : ReadPayment(v, p)
    <3>1. << >> \in Seq(Entry)
      OBVIOUS
    <3>2. QED BY <2>2, <3>1 DEF ReadPayment, TrailInvariant, TypeOK, ViewsTypeOK, RepositoryTypeOK
  <2>3. CASE ReadHistory(v)
    BY <2>3 DEF ReadHistory, NoDetail, TrailInvariant, TypeOK, ViewsTypeOK
  <2>4. CASE \E q \in Query : CountPayments(v, q)
    <3>1. PICK q \in Query : CountPayments(v, q)
      BY <2>4
    <3>2. Total(q) \in Nat
      BY FiniteMatches
    <3>3. QED BY <3>1, <3>2 DEF CountPayments, TrailInvariant, TypeOK, ViewsTypeOK
  <2>5. CASE ListPayments(v)
    BY <2>5 DEF ListPayments, NoListing, TrailInvariant, TypeOK, ViewsTypeOK
  <2>6. QED BY <2>1, <2>2, <2>3, <2>4, <2>5
<1>3. Repository /\ UNCHANGED repository /\ UNCHANGED checkouts
  BY <1>1 DEF Repository, TrailInvariant, TypeOK, repository, checkouts
<1>4. RepositoryKept
  BY <1>3, UnchangedKeeps
<1>5. (CreationOrder /\ RefundsChecked /\ DeliveriesChecked)'
  BY <1>1, <1>3, <1>4, CreationOrderKept, RefundsCheckedKept, DeliveriesCheckedKept
     DEF TrailInvariant, RepositoryKept
<1>6. (ProviderTypeOK /\ CheckoutTypeOK /\ RefundTypeOK /\ WebhookTypeOK /\ faults \in Nat)'
  BY <1>1 DEF TrailInvariant, TypeOK, ProviderTypeOK, CheckoutTypeOK, RefundTypeOK, WebhookTypeOK
<1>7. QED BY <1>2, <1>4, <1>5, <1>6 DEF TrailInvariant, TypeOK, Repository, RepositoryKept

(***************************************************************************)
(* The theorems                                                            *)
(***************************************************************************)

\* The invariant holds before anything has happened.
LEMMA TrailInitially ==
  ASSUME Init
  PROVE  TrailInvariant
<1>1. TypeOK
  <2>1. << >> \in Seq(Entry)
    OBVIOUS
  <2>2. RepositoryTypeOK /\ ViewsTypeOK
    BY <2>1 DEF Init, RepositoryInit, RepositoryTypeOK, ViewsInit, NoDetail, NoListing, ViewsTypeOK
  <2>3. ProviderTypeOK /\ CheckoutTypeOK /\ faults \in Nat
    BY DEF Init, ProviderInit, ProviderTypeOK, CheckoutInit, CheckoutTypeOK, FaultsInit
  <2>4. RefundTypeOK
    BY DEF Init, RefundInit, RefundTypeOK, NoRefund, Answer
  <2>5. WebhookTypeOK
    BY DEF Init, WebhookInit, WebhookTypeOK, NoDelivery
  <2>6. QED BY <2>2, <2>3, <2>4, <2>5 DEF TypeOK
<1>2. TrailMatchesStatus /\ CreationOrder
  BY DEF Init, RepositoryInit, CheckoutInit, TrailMatchesStatus, CreationOrder, Chained
<1>3. RefundsChecked /\ DeliveriesChecked
  BY DEF Init, RefundInit, NoRefund, WebhookInit, NoDelivery, RefundsChecked, DeliveriesChecked
<1>4. QED BY <1>1, <1>2, <1>3 DEF TrailInvariant

\* A stuttering step changes nothing the invariant reads.
LEMMA StutterKeeps ==
  ASSUME TrailInvariant, UNCHANGED payments
  PROVE  TrailInvariant'
BY DEF payments, repository, provider, checkouts, views, webhooks, store, outcomes, TrailInvariant,
       TypeOK, RepositoryTypeOK, ProviderTypeOK, CheckoutTypeOK, RefundTypeOK, WebhookTypeOK,
       ViewsTypeOK, TrailMatchesStatus, CreationOrder, RefundsChecked, DeliveriesChecked

\* The inductive invariant, for every number of payments, references, refund
\* requests, webhook requests and faults: what the stored rows say, and what
\* every running request holds between its reads and its write.
THEOREM TrailIsInvariant == Spec => []TrailInvariant
<1>1. Init => TrailInvariant
  BY TrailInitially
<1>2. TrailInvariant /\ [Next]_payments => TrailInvariant'
  BY CheckoutKeeps, ProviderKeeps, RefundKeeps, WebhookKeeps, ViewKeeps, StutterKeeps DEF Next
<1>3. QED BY <1>1, <1>2, PTL DEF Spec

\* Every variable keeps its type.
THEOREM TypesHold == Spec => []TypeOK
<1>1. TrailInvariant => TypeOK
  BY DEF TrailInvariant
<1>2. QED BY <1>1, TrailIsInvariant, PTL

\* The status column never drifts from the audit trail.
THEOREM TrailNeverDrifts == Spec => []TrailMatchesStatus
<1>1. TrailInvariant => TrailMatchesStatus
  BY DEF TrailInvariant
<1>2. QED BY <1>1, TrailIsInvariant, PTL

(***************************************************************************)
(* Payments implements PaymentLedger: whatever requests interleave or fail,*)
(* the tables only ever make the ledger's steps.                           *)
(***************************************************************************)

Trail == [p \in Payment |-> IF history[p] = << >> THEN << >> ELSE Tail(history[p])]

\* The only things a step of the program may do to the status and the history.
TablesStep ==
  \/ UNCHANGED <<status, history>>
  \/ \E p \in Payment : InsertRow(p)
  \/ \E p \in Payment : history[p] = << >> /\ InsertCreationRecord(p)
  \/ \E p \in Payment : \E expected, to \in Status, why \in Reason :
       /\ history[p] # << >>
       /\ CanTransition(expected, to)
       /\ Transition(p, expected, to, why)

\* A checkout step is one of them.
LEMMA CheckoutWrites ==
  ASSUME TrailInvariant, CheckoutStep
  PROVE  TablesStep
<1>1. PICK p \in Payment :
        BeginInsert(p) \/ FinishInsert(p) \/ ObtainIntent(p) \/ LinkIntent(p) \/ AbortCheckout(p)
  BY DEF CheckoutStep
<1>2. \/ UNCHANGED <<status, history>>
      \/ InsertRow(p)
      \/ checkout[p] = "inserting" /\ InsertCreationRecord(p)
  BY <1>1 DEF BeginInsert, FinishInsert, ObtainIntent, LinkIntent, AbortCheckout, Goto,
              SetReference, repository
<1>3. checkout[p] = "inserting" => history[p] = << >>
  BY DEF TrailInvariant, CreationOrder
<1>4. QED BY <1>2, <1>3 DEF TablesStep

\* A transition whose caller checked the move is one of them.
LEMMA CheckedTransition ==
  ASSUME NEW p \in Payment, NEW expected, NEW to, NEW why \in Reason,
         history[p] # << >>, CanTransition(expected, to),
         TransitionFails(p, expected, to, why)
  PROVE  TablesStep
<1>1. expected \in Status /\ to \in Status
  BY LegalMove
<1>2. UNCHANGED repository => UNCHANGED <<status, history>>
  BY DEF repository
<1>3. QED BY <1>1, <1>2 DEF TablesStep, TransitionFails

\* A refund step is one of them.
LEMMA RefundWrites ==
  ASSUME TrailInvariant, RefundStep
  PROVE  TablesStep
<1>1. PICK a \in Admin :
        \/ \E p \in Payment : StartRefund(a, p) \/ StartRefundFails(a, p)
        \/ CallProvider(a) \/ RecordRefund(a) \/ DropRefund(a)
  BY DEF RefundStep
<1>2. \/ UNCHANGED repository
      \/ /\ refund[a].pc = "recording"
         /\ TransitionFails(refund[a].payment, refund[a].seen, refund[a].reply, "admin_refund")
  BY <1>1 DEF StartRefund, StartRefundFails, CallProvider, RecordRefund, DropRefund,
              TransitionConflict, TransitionFails
<1>3. refund[a].pc = "recording" =>
        /\ refund[a].payment \in Payment /\ history[refund[a].payment] # << >>
        /\ CanTransition(refund[a].seen, refund[a].reply)
  BY DEF TrailInvariant, RefundsChecked
<1>4. "admin_refund" \in Reason
  BY DEF Reason
<1>5. CASE UNCHANGED repository
  BY <1>5 DEF repository, TablesStep
<1>6. QED BY <1>2, <1>3, <1>4, <1>5, CheckedTransition

\* A webhook step is one of them.
LEMMA WebhookWrites ==
  ASSUME TrailInvariant, WebhookStep
  PROVE  TablesStep
<1>1. CASE UNCHANGED repository
  BY <1>1 DEF repository, TablesStep
<1>2. ASSUME NEW h \in Handler, Apply(h) \/ DeliveryFails(h)
      PROVE  TablesStep
  <2>1. \/ UNCHANGED repository
        \/ /\ delivery[h].pc = "found"
           /\ TransitionFails(delivery[h].payment, delivery[h].seen,
                              Distilled(delivery[h].event), "provider_webhook")
    BY <1>2 DEF Apply, DeliveryFails, TransitionConflict, TransitionFails
  <2>2. delivery[h].pc = "found" =>
          /\ delivery[h].payment \in Payment /\ history[delivery[h].payment] # << >>
          /\ CanTransition(delivery[h].seen, Distilled(delivery[h].event))
    BY DEF TrailInvariant, DeliveriesChecked
  <2>3. "provider_webhook" \in Reason
    BY DEF Reason
  <2>4. QED BY <2>1, <2>2, <2>3, <1>1, CheckedTransition
<1>3. UNCHANGED repository \/ (\E h \in Handler : Apply(h) \/ DeliveryFails(h))
  BY DEF WebhookStep, RejectDelivery, ClaimEvent, Deduplicate, ClaimFails, LookUp
<1>4. QED BY <1>1, <1>2, <1>3

\* Every step is.
LEMMA EveryStepWrites ==
  ASSUME TrailInvariant, [Next]_payments
  PROVE  TablesStep
<1>1. CASE ProviderStep \/ ViewStep \/ UNCHANGED payments
  BY <1>1 DEF ProviderStep, ViewStep, payments, repository, TablesStep
<1>2. QED BY <1>1, CheckoutWrites, RefundWrites, WebhookWrites DEF Next

\* Dropping the creation row commutes with appending a line after it.
LEMMA TailGrows ==
  ASSUME NEW h \in Seq(Entry), h # << >>, NEW e \in Entry
  PROVE  Tail(Append(h, e)) = Append(Tail(h), e)
OBVIOUS

\* What the tables may do is a step of the ledger, or none.
LEMMA TablesStepIsLedgerStep ==
  ASSUME TrailInvariant, TablesStep
  PROVE  [Ledger!Next]_<<status, Trail>>
<1>1. Repository
  BY DEF TrailInvariant, TypeOK, Repository
<1>2. CASE UNCHANGED <<status, history>>
  BY <1>2 DEF Trail
<1>3. ASSUME NEW p \in Payment, InsertRow(p) PROVE Ledger!Next
  BY <1>3, <1>1 DEF InsertRow, Ledger!Next, Ledger!Create, Ledger!Absent, Absent
<1>4. ASSUME NEW p \in Payment, history[p] = << >>, InsertCreationRecord(p)
      PROVE  UNCHANGED <<status, Trail>>
  <2> DEFINE e == [from |-> Absent, to |-> "created", reason |-> "none"]
  <2>1. history' = [history EXCEPT ![p] = <<e>>] /\ UNCHANGED status
    BY <1>4 DEF InsertCreationRecord, Record
  <2>2. <<e>> # << >> /\ Tail(<<e>>) = << >>
    OBVIOUS
  <2>3. QED BY <2>1, <2>2, <1>1, <1>4 DEF Trail, Repository, RepositoryTypeOK
<1>5. ASSUME NEW p \in Payment, NEW expected \in Status, NEW to \in Status, NEW why \in Reason,
             history[p] # << >>, CanTransition(expected, to), Transition(p, expected, to, why)
      PROVE  Ledger!Next
  <2> DEFINE e == [from |-> expected, to |-> to, reason |-> why]
  <2> DEFINE h == history[p]
  <2>1. e \in Entry /\ h \in Seq(Entry) /\ h # << >>
    BY <1>1, <1>5 DEF Entry, Repository, RepositoryTypeOK
  <2>2. /\ status[p] = expected /\ status' = [status EXCEPT ![p] = to]
        /\ history' = [history EXCEPT ![p] = Append(h, e)]
    BY <1>5 DEF Transition, Record
  <2>3. Tail(Append(h, e)) = Append(Tail(h), e) /\ Append(h, e) # << >>
    BY <2>1, TailGrows
  <2>4. Trail' = [Trail EXCEPT ![p] = Append(@, e)]
    BY <2>1, <2>2, <2>3, <1>1 DEF Trail, Repository, RepositoryTypeOK
  <2>5. Ledger!Move(p, to, why)
    BY <2>2, <2>4, <1>5 DEF Ledger!Move, Ledger!CanTransition, CanTransition, Trail
  <2>6. QED BY <2>5 DEF Ledger!Next, Ledger!Status, Status
<1>6. QED BY <1>2, <1>3, <1>4, <1>5 DEF TablesStep

\* The storage keeps the ledger's promise through every interleaving, failure
\* and dropped request.
THEOREM ImplementsLedger == Spec => LedgerSpec
<1>1. Init => Ledger!Init
  BY DEF Init, RepositoryInit, Ledger!Init, Ledger!Absent, Absent
<1>2. TrailInvariant /\ [Next]_payments => [Ledger!Next]_<<status, Trail>>
  BY EveryStepWrites, TablesStepIsLedgerStep
<1>3. [Ledger!Next]_<<status, Trail>> => [Ledger!Next]_(Ledger!ledger)
  BY DEF Ledger!ledger, Trail
<1>4. QED BY <1>1, <1>2, <1>3, TrailIsInvariant, PTL DEF Spec, LedgerSpec, Ledger!Spec

(***************************************************************************)
(* What the pages may rely on between their two reads, for every number of *)
(* payments, readers and queries: rows stay, final statuses stay, and a    *)
(* history only grows.                                                     *)
(***************************************************************************)

\* The status v has read is in the history it will be shown with.
DetailExplained(v) ==
  \/ \E i \in DOMAIN Shown(v) : Shown(v)[i].to = detail[v].status
  \/ Shown(v) = << >> /\ detail[v].status = "created"

\* The total v has read is of rows that will still be there.
TotalCovered(v) == listing[v].query.status \in Lasting => listing[v].total <= Total(listing[v].query)

ViewsAreSound ==
  /\ \A v \in Reader : detail[v].pc = "half" => detail[v].payment \in Payment /\ DetailExplained(v)
  /\ \A v \in Reader : listing[v].pc = "half" => listing[v].query \in Query /\ TotalCovered(v)

(***************************************************************************)
(* The tables                                                              *)
(***************************************************************************)

\* No legal move leaves a final status.
LEMMA TerminalStays ==
  ASSUME NEW from, NEW to, CanTransition(from, to)
  PROVE  from \notin Terminal
BY LegalMove DEF Terminal

\* A row stays, and so does its status when it is final.
LEMMA RowsStay ==
  ASSUME TrailInvariant, TablesStep, NEW p \in Payment, status[p] # Absent
  PROVE  /\ status'[p] # Absent
         /\ status[p] \in Terminal => status'[p] = status[p]
<1>1. Repository
  BY DEF TrailInvariant, TypeOK, Repository
<1>2. CASE UNCHANGED <<status, history>>
  BY <1>2
<1>3. ASSUME NEW q \in Payment, InsertRow(q)
      PROVE  status'[p] = status[p]
  BY <1>3, <1>1 DEF InsertRow, Repository, RepositoryTypeOK
<1>4. ASSUME NEW q \in Payment, InsertCreationRecord(q)
      PROVE  status'[p] = status[p]
  BY <1>4 DEF InsertCreationRecord
<1>5. ASSUME NEW q \in Payment, NEW expected \in Status, NEW to \in Status, NEW why \in Reason,
             CanTransition(expected, to), Transition(q, expected, to, why)
      PROVE  /\ status'[p] # Absent
             /\ status[p] \in Terminal => status'[p] = status[p]
  BY <1>5, <1>1, TerminalStays, StatusNotAbsent DEF Transition, Repository, RepositoryTypeOK
<1>6. QED BY <1>2, <1>3, <1>4, <1>5 DEF TablesStep

\* A history only grows.
LEMMA HistoryGrows ==
  ASSUME TrailInvariant, TablesStep, NEW p \in Payment
  PROVE  \/ history'[p] = history[p]
         \/ history[p] = << >> /\ history'[p] = <<[from |-> Absent, to |-> "created", reason |-> "none"]>>
         \/ history[p] # << >> /\ \E e \in Entry : history'[p] = Append(history[p], e)
<1>1. Repository
  BY DEF TrailInvariant, TypeOK, Repository
<1>2. CASE UNCHANGED <<status, history>>
  BY <1>2
<1>3. ASSUME NEW q \in Payment, InsertRow(q)
      PROVE  history'[p] = history[p]
  BY <1>3 DEF InsertRow
<1>4. ASSUME NEW q \in Payment, history[q] = << >>, InsertCreationRecord(q)
      PROVE  \/ history'[p] = history[p]
             \/ history[p] = << >> /\ history'[p] = <<[from |-> Absent, to |-> "created", reason |-> "none"]>>
  <2> DEFINE e == [from |-> Absent, to |-> "created", reason |-> "none"]
  <2>1. history' = [history EXCEPT ![q] = Append(@, e)]
    BY <1>4 DEF InsertCreationRecord, Record
  <2>2. Append(<< >>, e) = <<e>>
    OBVIOUS
  <2>3. QED BY <2>1, <2>2, <1>1, <1>4 DEF Repository, RepositoryTypeOK
<1>5. ASSUME NEW q \in Payment, NEW expected \in Status, NEW to \in Status, NEW why \in Reason,
             history[q] # << >>, Transition(q, expected, to, why)
      PROVE  \/ history'[p] = history[p]
             \/ history[p] # << >> /\ \E e \in Entry : history'[p] = Append(history[p], e)
  <2> DEFINE e == [from |-> expected, to |-> to, reason |-> why]
  <2>1. history' = [history EXCEPT ![q] = Append(@, e)]
    BY <1>5 DEF Transition, Record
  <2>2. e \in Entry
    BY <1>5 DEF Entry
  <2>3. QED BY <2>1, <2>2, <1>1, <1>5 DEF Repository, RepositoryTypeOK
<1>6. QED BY <1>2, <1>3, <1>4, <1>5 DEF TablesStep

\* A payment stays, a final status is final, and the audit trail is append-only.
OnlyMovesOn(p) ==
  /\ status[p] # Absent => status'[p] # Absent
  /\ status[p] \in Terminal => status'[p] = status[p]
  /\ history'[p] = history[p] \/ \E e \in Entry : history'[p] = Append(history[p], e)

\* Refunds and webhooks that are late, repeated or interrupted never reopen a
\* payment that is refunded, failed or canceled, and no statement of
\* PgPaymentRepository rewrites a line of payment_status_history.
THEOREM PaymentsOnlyMoveOn == Spec => [][\A p \in Payment : OnlyMovesOn(p)]_payments
<1>1. TrailInvariant /\ [Next]_payments => \A p \in Payment : OnlyMovesOn(p)
  <2>. SUFFICES ASSUME TrailInvariant, [Next]_payments, NEW p \in Payment
                PROVE  OnlyMovesOn(p)
    OBVIOUS
  <2>1. TablesStep
    BY EveryStepWrites
  <2>2. /\ status[p] # Absent => status'[p] # Absent
        /\ status[p] \in Terminal => status'[p] = status[p]
    BY <2>1, RowsStay, StatusNotAbsent DEF Terminal
  <2>3. history'[p] = history[p] \/ \E e \in Entry : history'[p] = Append(history[p], e)
    <3> DEFINE e == [from |-> Absent, to |-> "created", reason |-> "none"]
    <3>1. e \in Entry /\ Append(<< >>, e) = <<e>>
      BY DEF Entry, Status, Reason
    <3>2. QED BY <2>1, <3>1, HistoryGrows
  <2>4. QED BY <2>2, <2>3 DEF OnlyMovesOn
<1>2. QED BY <1>1, TrailIsInvariant, PTL DEF Spec

\* A query for a final status, or for any, only gains rows.
LEMMA MatchesGrow ==
  ASSUME TrailInvariant, TablesStep, NEW q \in Query, q.status \in Lasting
  PROVE  Total(q) \in Nat /\ Total(q)' \in Nat /\ Total(q) <= Total(q)'
<1>1. Matching(q) \subseteq Matching(q)'
  BY RowsStay, ViewsAssumption DEF Matching, Lasting, PaymentQuery
<1>2. IsFiniteSet(Matching(q)') /\ Total(q)' \in Nat
  <2>1. Matching(q)' \subseteq Payment
    BY ViewsAssumption DEF Matching, PaymentQuery
  <2>2. QED BY <2>1, ViewsAssumption, FS_Subset, FS_CardinalityType DEF Total
<1>3. Cardinality(Matching(q)) <= Cardinality(Matching(q)')
  BY <1>1, <1>2, FS_Subset
<1>4. QED BY <1>2, <1>3, FiniteMatches DEF Total

(***************************************************************************)
(* The pages                                                               *)
(***************************************************************************)

\* What the first read saw is covered when it is made.
LEMMA FirstReads ==
  ASSUME TrailInvariant, ViewsAreSound, ViewStep
  PROVE  ViewsAreSound'
<1>1. UNCHANGED <<status, history>>
  BY DEF ViewStep, repository
<1>2. ViewsTypeOK /\ Repository /\ TrailMatchesStatus
  BY DEF TrailInvariant, TypeOK, Repository
<1>3. PICK v \in Reader : \/ (\E p \in Payment : ReadPayment(v, p))
                          \/ (\E q \in Query : CountPayments(v, q))
                          \/ ReadHistory(v) \/ ListPayments(v)
  BY DEF ViewStep
<1>4. ASSUME NEW p \in Payment, ReadPayment(v, p)
      PROVE  ViewsAreSound'
  <2>1. /\ detail' = [detail EXCEPT ![v] = [pc |-> "half", payment |-> p, status |-> status[p]]]
        /\ UNCHANGED listing /\ status[p] # Absent
    BY <1>4 DEF ReadPayment
  <2>2. \/ history[p] = << >> /\ status[p] = "created"
        \/ \E i \in DOMAIN history[p] : history[p][i].to = status[p]
    <3>1. CASE history[p] = << >>
      BY <3>1, <2>1, <1>2 DEF TrailMatchesStatus
    <3>2. CASE history[p] # << >>
      <4>1. history[p] \in Seq(Entry) /\ Len(history[p]) \in DOMAIN history[p]
        BY <3>2, <1>2 DEF Repository, RepositoryTypeOK
      <4>2. QED BY <3>2, <4>1, <1>2 DEF TrailMatchesStatus
    <3>3. QED BY <3>1, <3>2
  <2>3. QED BY <2>1, <2>2, <1>1, <1>2 DEF ViewsAreSound, ViewsTypeOK, DetailExplained, Shown,
                                         TotalCovered, Total, Matching
<1>5. ASSUME NEW q \in Query, CountPayments(v, q)
      PROVE  ViewsAreSound'
  <2>1. /\ listing' = [listing EXCEPT ![v] = [pc |-> "half", query |-> q, total |-> Total(q)]]
        /\ UNCHANGED detail
    BY <1>5 DEF CountPayments
  <2>2. Total(q) \in Nat
    BY FiniteMatches
  <2>3. \A r \in Query : Total(r)' = Total(r)
    BY <1>1 DEF Total, Matching
  <2>4. QED BY <2>1, <2>2, <2>3, <1>1, <1>2 DEF ViewsAreSound, ViewsTypeOK, DetailExplained, Shown,
                                               TotalCovered
<1>6. CASE ReadHistory(v)
  BY <1>6, <1>1, <1>2 DEF ReadHistory, NoDetail, ViewsAreSound, ViewsTypeOK, DetailExplained, Shown,
                          TotalCovered, Total, Matching
<1>7. CASE ListPayments(v)
  BY <1>7, <1>1, <1>2 DEF ListPayments, NoListing, ViewsAreSound, ViewsTypeOK, DetailExplained, Shown,
                          TotalCovered, Total, Matching
<1>8. QED BY <1>3, <1>4, <1>5, <1>6, <1>7

\* A history that grows still explains what was read.
LEMMA StaysExplained ==
  ASSUME TrailInvariant, TablesStep, UNCHANGED views, NEW v \in Reader,
         detail[v].payment \in Payment, DetailExplained(v)
  PROVE  DetailExplained(v)'
<1> DEFINE p == detail[v].payment
<1>1. history[p] \in Seq(Entry)
  BY DEF TrailInvariant, TypeOK, RepositoryTypeOK
<1>2. detail' = detail
  BY DEF views
<1>3. CASE history'[p] = history[p]
  BY <1>3, <1>2 DEF DetailExplained, Shown
<1>4. CASE history[p] = << >> /\ history'[p] = <<[from |-> Absent, to |-> "created", reason |-> "none"]>>
  <2>1. 1 \in DOMAIN history'[p] /\ history'[p][1].to = "created"
    BY <1>4
  <2>2. detail[v].status = "created"
    BY <1>4 DEF DetailExplained, Shown
  <2>3. QED BY <2>1, <2>2, <1>2 DEF DetailExplained, Shown
<1>5. ASSUME history[p] # << >>, NEW e \in Entry, history'[p] = Append(history[p], e)
      PROVE  DetailExplained(v)'
  <2>1. PICK i \in DOMAIN history[p] : history[p][i].to = detail[v].status
    BY <1>5 DEF DetailExplained, Shown
  <2>2. i \in DOMAIN history'[p] /\ history'[p][i] = history[p][i]
    BY <2>1, <1>1, <1>5
  <2>3. QED BY <2>1, <2>2, <1>2 DEF DetailExplained, Shown
<1>6. QED BY <1>3, <1>4, <1>5, HistoryGrows

\* Everything else that happens leaves what was read covered.
LEMMA OthersKeepViews ==
  ASSUME TrailInvariant, ViewsAreSound, TablesStep, UNCHANGED views
  PROVE  ViewsAreSound'
<1>1. detail' = detail /\ listing' = listing
  BY DEF views
<1>2. ASSUME NEW v \in Reader, detail[v].pc = "half"
      PROVE  detail[v].payment \in Payment /\ DetailExplained(v)'
  BY <1>2, StaysExplained DEF ViewsAreSound
<1>3. ASSUME NEW v \in Reader, listing[v].pc = "half"
      PROVE  listing[v].query \in Query /\ TotalCovered(v)'
  <2>1. listing[v].query \in Query /\ TotalCovered(v)
    BY <1>3 DEF ViewsAreSound
  <2>2. PICK q \in Query : q = listing[v].query
    BY <2>1
  <2>3. listing[v].total \in Nat
    BY DEF TrailInvariant, TypeOK, ViewsTypeOK
  <2>4. TotalCovered(v)' <=> (q.status \in Lasting => listing[v].total <= Total(q)')
    BY <1>1, <2>2 DEF TotalCovered
  <2>5. CASE q.status \in Lasting
    <3>1. listing[v].total <= Total(q)
      BY <2>1, <2>2, <2>5 DEF TotalCovered
    <3>2. Total(q) \in Nat /\ Total(q)' \in Nat /\ Total(q) <= Total(q)'
      BY <2>5, MatchesGrow
    <3>3. listing[v].total <= Total(q)'
      BY <2>3, <3>1, <3>2
    <3>4. QED BY <2>1, <2>4, <3>3
  <2>6. QED BY <2>1, <2>4, <2>5
<1>4. QED BY <1>1, <1>2, <1>3 DEF ViewsAreSound

\* Every step keeps what was read covered.
LEMMA ViewsKept ==
  ASSUME TrailInvariant, ViewsAreSound, [Next]_payments
  PROVE  ViewsAreSound'
<1>1. TablesStep
  BY EveryStepWrites
<1>2. ViewStep \/ UNCHANGED views
  BY DEF Next, CheckoutStep, ProviderStep, RefundStep, WebhookStep, payments
<1>3. QED BY <1>1, <1>2, FirstReads, OthersKeepViews

\* A short page is the end of the rows.
LEMMA ShortPageEnds ==
  ASSUME NEW q \in Query, PageSize(q) < Limit(q)
  PROVE  Total(q) <= q.offset + PageSize(q)
<1>1. q.limit \in Nat /\ q.offset \in Nat /\ MaxLimit \in Nat \ {0} /\ Total(q) \in Nat
  BY FiniteMatches, ViewsAssumption DEF PaymentQuery
<1>2. Limit(q) \in Nat \ {0}
  BY <1>1 DEF Limit
<1>3. DEFINE left == Total(q) - q.offset
<1>4. PageSize(q) = CASE left < 0 -> 0 [] left > Limit(q) -> Limit(q) [] OTHER -> left
  BY DEF PageSize, Total
<1>5. QED BY <1>1, <1>2, <1>4

(***************************************************************************)
(* The theorems                                                            *)
(***************************************************************************)

\* Between its two reads every page request holds something that stays true.
THEOREM ViewsAlwaysSound == Spec => []ViewsAreSound
<1>1. Init => ViewsAreSound
  BY DEF Init, ViewsInit, NoDetail, NoListing, ViewsAreSound
<1>2. TrailInvariant /\ ViewsAreSound /\ [Next]_payments => ViewsAreSound'
  BY ViewsKept
<1>3. QED BY <1>1, <1>2, TrailIsInvariant, PTL DEF Spec

\* The detail page never shows a status that its history does not mention.
THEOREM DetailsAlwaysExplain == Spec => DetailExplainsStatus
<1>1. ViewsAreSound =>
        \A v \in Reader :
          detail[v].pc = "half" /\ detail'[v].pc = "idle" =>
            \/ \E i \in DOMAIN Shown(v) : Shown(v)[i].to = detail[v].status
            \/ Shown(v) = << >> /\ detail[v].status = "created"
  BY DEF ViewsAreSound, DetailExplained
<1>2. QED BY <1>1, ViewsAlwaysSound, PTL DEF DetailExplainsStatus

\* The total of a list, of everything or of a final status, is never too high
\* for the page it comes with.
THEOREM TotalsAlwaysUndercount == Spec => TotalsUndercount
<1> DEFINE Undercounts(v) ==
      LET q == listing[v].query IN
      q.status \in Lasting /\ PageSize(q) < Limit(q) => listing[v].total <= q.offset + PageSize(q)
<1>1. TrailInvariant /\ ViewsAreSound =>
        \A v \in Reader : listing[v].pc = "half" /\ listing'[v].pc = "idle" => Undercounts(v)
  <2>1. SUFFICES ASSUME TrailInvariant, ViewsAreSound, NEW v \in Reader, listing[v].pc = "half",
                        listing[v].query.status \in Lasting,
                        PageSize(listing[v].query) < Limit(listing[v].query)
                 PROVE  listing[v].total <= listing[v].query.offset + PageSize(listing[v].query)
    OBVIOUS
  <2>2. PICK q \in Query : q = listing[v].query
    BY <2>1 DEF ViewsAreSound
  <2>3. listing[v].total <= Total(q) /\ listing[v].total \in Nat
    BY <2>1, <2>2 DEF ViewsAreSound, TotalCovered, TrailInvariant, TypeOK, ViewsTypeOK
  <2>4. Total(q) <= q.offset + PageSize(q)
    BY <2>1, <2>2, ShortPageEnds
  <2>5. Total(q) \in Nat /\ q.offset \in Nat /\ PageSize(q) \in Int
    BY FiniteMatches, ViewsAssumption DEF PaymentQuery, PageSize, Total, Limit
  <2>6. QED BY <2>2, <2>3, <2>4, <2>5
<1>2. QED BY <1>1, ViewsAlwaysSound, TrailIsInvariant, PTL DEF TotalsUndercount
=============================================================================
